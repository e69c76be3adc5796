-------------------------- MODULE ShapeHistoryProofs --------------------------
(***************************************************************************)
(* For all shapes and whatever operations make of them: histories tell     *)
(* just what was made of what, and tags go where their tracks lead them.   *)
(***************************************************************************)
EXTENDS ShapeHistory, OrderLemmas

-----------------------------------------------------------------------------
(***************************************************************************)
(* The tree of Data a top unfolds into.                                    *)
(***************************************************************************)
LEMMA PartsAre ==
  \A t \in Top : \A i \in DOMAIN Part[t] :
    i \in Nat /\ Part[t][i] \in Top /\ Height[Part[t][i]] < Height[t]
BY PartAssumption

\* What holds of a top if it holds of its parts holds of all.
LEMMA FromThePartsUp ==
  ASSUME NEW S, \A t \in Top : (\A i \in DOMAIN Part[t] : Part[t][i] \in S) => t \in S
  PROVE  Top \subseteq S
<1> DEFINE bad == {h \in Nat : \E t \in Top : t \notin S /\ Height[t] = h}
<1>1. Height \in [Top -> Nat]
  BY PartAssumption
<1>2. SUFFICES ASSUME bad # {} PROVE FALSE
  BY <1>1
<1>3. PICK h \in bad : \A x \in bad : h <= x
  <2>1. bad \in SUBSET Nat
    OBVIOUS
  <2> HIDE DEF bad
  <2> QED
    BY <1>2, <2>1, LeastNumber
<1>4. PICK t \in Top : t \notin S /\ Height[t] = h
  BY <1>3
<1>5. PICK i \in DOMAIN Part[t] : Part[t][i] \notin S
  BY <1>4
<1>6. Part[t][i] \in Top /\ Height[Part[t][i]] < h
  BY <1>4, PartsAre
<1>7. Height[Part[t][i]] \in bad
  BY <1>1, <1>5, <1>6
<1>8. h \in Nat /\ Height[Part[t][i]] \in Nat
  BY <1>1, <1>3, <1>6
<1> QED
  BY <1>3, <1>6, <1>7, <1>8

LEMMA HeightsAreBounded ==
  \E n \in Nat : Height \in [Top -> 0 .. n]
<1>1. IsFiniteSet(Top) /\ Height \in [Top -> Nat]
  BY PartAssumption
<1> DEFINE H == {Height[t] : t \in Top}
<1>2. IsFiniteSet(H) /\ H \in SUBSET Nat
  <2>1. Height \in Surjection(Top, H)
    BY <1>1 DEF Surjection
  <2>2. IsFiniteSet(H)
    <3> HIDE DEF H
    <3> QED
      BY <1>1, <2>1, FS_Surjection
  <2> QED
    BY <1>1, <2>2
<1>3. CASE Top = {}
  BY <1>1, <1>3
<1>4. CASE Top # {}
  <2>1. H # {}
    BY <1>4
  <2>2. PICK m \in H : \A x \in H : x <= m
    <3> DEFINE f == [x \in H |-> - x]
    <3>1. f \in [H -> Int]
      BY <1>2
    <3>2. PICK m \in H : \A y \in H : f[m] < f[y] \/ (f[m] = f[y] /\ m <= y)
      <4> HIDE DEF f, H
      <4> QED
        BY <1>2, <2>1, <3>1, FirstLeastPlace
    <3> HIDE DEF H
    <3> QED
      BY <1>2, <3>2
  <2>3. \A t \in Top : Height[t] \in 0 .. m
    BY <1>1, <2>2
  <2> QED
    BY <1>1, <1>2, <2>3
<1> QED
  BY <1>3, <1>4

UnfoldedFrom(paths, t) ==
  {<<>>} \cup UNION {{<<i>> \o p : p \in paths[Part[t][i]]} : i \in DOMAIN Part[t]}

LEMMA PathsAre ==
  /\ Paths \in [Top -> SUBSET Seq(Nat)]
  /\ \A t \in Top : Paths[t] = UnfoldedFrom(Paths, t)
<1> DEFINE S == SUBSET Seq(Nat)
           G == [Top -> S]
           F == [g \in G |-> [t \in Top |-> UnfoldedFrom(g, t)]]
           Runs(f) == f = [t \in Top |-> UnfoldedFrom(f, t)]
           paths == CHOOSE f : Runs(f)
<1>1. PICK n \in Nat : Height \in [Top -> 0 .. n]
  BY HeightsAreBounded
<1>2. F \in [G -> G]
  <2>1. ASSUME NEW g \in G, NEW t \in Top
        PROVE  UnfoldedFrom(g, t) \in S
    <3>1. ASSUME NEW i \in DOMAIN Part[t], NEW p \in g[Part[t][i]]
          PROVE  <<i>> \o p \in Seq(Nat)
      <4>1. i \in Nat /\ p \in Seq(Nat)
        BY PartsAre
      <4> QED
        BY <4>1
    <3>2. <<>> \in Seq(Nat)
      OBVIOUS
    <3>3. ASSUME NEW x \in UnfoldedFrom(g, t)
          PROVE  x \in Seq(Nat)
      <4>1. x = <<>> \/ \E i \in DOMAIN Part[t] : \E p \in g[Part[t][i]] : x = <<i>> \o p
        BY Zenon DEF UnfoldedFrom
      <4> QED
        BY <3>1, <3>2, <4>1
    <3> QED
      BY <3>3
  <2> HIDE DEF S
  <2> QED
    BY <2>1
<1>3. ASSUME NEW t \in Top, NEW g \in G, NEW h \in G,
             \A u \in Top : Height[u] < Height[t] => g[u] = h[u]
      PROVE  F[g][t] = F[h][t]
  <2>1. \A i \in DOMAIN Part[t] : g[Part[t][i]] = h[Part[t][i]]
    BY <1>3, PartsAre
  <2> DEFINE A(i) == {<<i>> \o p : p \in g[Part[t][i]]}
             B(i) == {<<i>> \o p : p \in h[Part[t][i]]}
  <2>2. \A i \in DOMAIN Part[t] : A(i) = B(i)
    BY <2>1
  <2>3. UNION {A(i) : i \in DOMAIN Part[t]} = UNION {B(i) : i \in DOMAIN Part[t]}
    <3> HIDE DEF A, B
    <3> QED
      BY <2>2
  <2>4. UnfoldedFrom(g, t) = UnfoldedFrom(h, t)
    BY <2>3, Zenon DEF UnfoldedFrom
  <2> HIDE DEF S
  <2> QED
    BY <2>4
<1>4. S # {}
  OBVIOUS
<1>5. PICK f \in G : F[f] = f
  <2> HIDE DEF S, F
  <2>1. Recursion(F, Top, S, Height, n)
    BY <1>1, <1>2, <1>3, <1>4 DEF Recursion
  <2>2. HasSolution(F, Top, S)
    BY <2>1, RecursionRuns
  <2> QED
    BY <2>2 DEF HasSolution
<1>6. Runs(f)
  BY <1>5
<1>7. Runs(paths)
  <2> HIDE DEF Runs
  <2> QED
    BY <1>6
<1>8. Paths = [t \in Top |-> paths[t]]
  BY DEF Paths, UnfoldedFrom
<1> HIDE DEF paths
<1>9. Paths = paths
  BY <1>7, <1>8
<1>10. \A t \in Top : Paths[t] = UnfoldedFrom(Paths, t)
  BY <1>7, <1>9
<1> DEFINE Good == {t \in Top : Paths[t] \in S}
<1>11. ASSUME NEW t \in Top, \A i \in DOMAIN Part[t] : Part[t][i] \in Good
       PROVE  t \in Good
  <2>1. ASSUME NEW x \in Paths[t]
        PROVE  x \in Seq(Nat)
    <3>1. x = <<>> \/ \E i \in DOMAIN Part[t] : \E p \in Paths[Part[t][i]] : x = <<i>> \o p
      <4>1. x \in UnfoldedFrom(Paths, t)
        BY <1>10
      <4> QED
        BY <4>1, Zenon DEF UnfoldedFrom
    <3>2. ASSUME NEW i \in DOMAIN Part[t], NEW p \in Paths[Part[t][i]]
          PROVE  <<i>> \o p \in Seq(Nat)
      <4>1. i \in Nat /\ Part[t][i] \in Good
        BY <1>11, PartsAre
      <4>2. p \in Seq(Nat)
        BY <4>1
      <4> QED
        BY <4>1, <4>2
    <3>3. <<>> \in Seq(Nat)
      OBVIOUS
    <3> QED
      BY <3>1, <3>2, <3>3
  <2> QED
    BY <2>1
<1>12. Top \subseteq Good
  <2> HIDE DEF Good
  <2> QED
    BY <1>11, FromThePartsUp
<1> QED
  BY <1>8, <1>10, <1>12

LEMMA HeadAndTail ==
  ASSUME NEW i \in Nat, NEW p \in Seq(Nat)
  PROVE  /\ <<i>> \o p \in Seq(Nat) /\ <<i>> \o p # <<>>
         /\ Head(<<i>> \o p) = i /\ Tail(<<i>> \o p) = p
<1>1. <<i>> \o p \in Seq(Nat) /\ Len(<<i>> \o p) = Len(p) + 1
  OBVIOUS
<1>2. \A k \in 1 .. Len(p) : (<<i>> \o p)[k + 1] = p[k]
  OBVIOUS
<1>3. Tail(<<i>> \o p) = p
  BY <1>1, <1>2
<1> QED
  BY <1>1, <1>3

\* A path is the empty one or leads through a part.
ThroughAPart(p, t) == \E i \in DOMAIN Part[t] : \E q \in Paths[Part[t][i]] : p = <<i>> \o q

LEMMA PathCases ==
  ASSUME NEW t \in Top, NEW p
  PROVE  p \in Paths[t] <=> (p = <<>> \/ ThroughAPart(p, t))
<1>1. Paths[t] = UnfoldedFrom(Paths, t)
  BY PathsAre
<1>2. ASSUME p \in UnfoldedFrom(Paths, t), p # <<>>
      PROVE  ThroughAPart(p, t)
  <2>1. PICK A \in {{<<i>> \o q : q \in Paths[Part[t][i]]} : i \in DOMAIN Part[t]} : p \in A
    BY <1>2 DEF UnfoldedFrom
  <2>2. PICK i \in DOMAIN Part[t] : A = {<<i>> \o q : q \in Paths[Part[t][i]]}
    BY <2>1
  <2> QED
    BY <2>1, <2>2 DEF ThroughAPart
<1>3. ASSUME ThroughAPart(p, t)
      PROVE  p \in UnfoldedFrom(Paths, t)
  <2>1. PICK i \in DOMAIN Part[t] : \E q \in Paths[Part[t][i]] : p = <<i>> \o q
    BY <1>3 DEF ThroughAPart
  <2> DEFINE A(j) == {<<j>> \o q : q \in Paths[Part[t][j]]}
  <2>2. p \in A(i)
    BY <2>1
  <2>3. p \in UNION {A(j) : j \in DOMAIN Part[t]}
    <3> HIDE DEF A
    <3> QED
      BY <2>2
  <2> QED
    BY <2>3, Zenon DEF UnfoldedFrom
<1>4. <<>> \in UnfoldedFrom(Paths, t)
  BY DEF UnfoldedFrom
<1> QED
  BY <1>1, <1>2, <1>3, <1>4, Zenon

LEMMA PathsOfParts ==
  ASSUME NEW t \in Top, NEW i \in DOMAIN Part[t], NEW q \in Paths[Part[t][i]]
  PROVE  /\ i \in Nat /\ q \in Seq(Nat) /\ Part[t][i] \in Top
         /\ <<i>> \o q \in Paths[t] /\ <<i>> \o q # <<>>
         /\ Head(<<i>> \o q) = i /\ Tail(<<i>> \o q) = q
<1>1. i \in Nat /\ Part[t][i] \in Top
  BY PartsAre
<1>2. q \in Seq(Nat)
  BY <1>1, PathsAre
<1>3. <<i>> \o q \in Paths[t]
  BY PathCases DEF ThroughAPart
<1> QED
  BY <1>1, <1>2, <1>3, HeadAndTail

TopFrom(at, t) ==
  [p \in Paths[t] |-> IF p = <<>> THEN t ELSE at[Part[t][Head(p)]][Tail(p)]]

LEMMA TopAtIs ==
  \A t \in Top : TopAt[t] = TopFrom(TopAt, t)
<1> DEFINE S == [Seq(Nat) -> Top]
           G == [Top -> S]
           Along(g, t) == [p \in Seq(Nat) |-> IF p \in Paths[t] /\ p # <<>>
                                                THEN g[Part[t][Head(p)]][Tail(p)] ELSE t]
           F == [g \in G |-> [t \in Top |-> Along(g, t)]]
           Runs(f) == f = [t \in Top |-> TopFrom(f, t)]
           at == CHOOSE f : Runs(f)
<1>1. PICK n \in Nat : Height \in [Top -> 0 .. n]
  BY HeightsAreBounded
<1>2. \A t \in Top : \A p \in Paths[t] : p # <<>> =>
        /\ p \in Seq(Nat) /\ Head(p) \in DOMAIN Part[t]
        /\ Part[t][Head(p)] \in Top /\ Height[Part[t][Head(p)]] < Height[t]
        /\ Tail(p) \in Paths[Part[t][Head(p)]] /\ Tail(p) \in Seq(Nat)
  <2> SUFFICES ASSUME NEW t \in Top, NEW p \in Paths[t], p # <<>>
               PROVE  /\ p \in Seq(Nat) /\ Head(p) \in DOMAIN Part[t]
                      /\ Part[t][Head(p)] \in Top /\ Height[Part[t][Head(p)]] < Height[t]
                      /\ Tail(p) \in Paths[Part[t][Head(p)]] /\ Tail(p) \in Seq(Nat)
    OBVIOUS
  <2>1. PICK i \in DOMAIN Part[t] : \E s \in Paths[Part[t][i]] : p = <<i>> \o s
    <3>1. ThroughAPart(p, t)
      BY PathCases
    <3> QED
      BY <3>1 DEF ThroughAPart
  <2>2. PICK q \in Paths[Part[t][i]] : p = <<i>> \o q
    BY <2>1
  <2>3. Head(p) = i /\ Tail(p) = q /\ q \in Seq(Nat) /\ Part[t][i] \in Top
    BY <2>2, PathsOfParts
  <2>4. p \in Seq(Nat)
    BY PathsAre
  <2> QED
    BY <2>2, <2>3, <2>4, PartsAre
<1>3. F \in [G -> G]
  <2>1. ASSUME NEW g \in G, NEW t \in Top
        PROVE  Along(g, t) \in S
    <3>1. ASSUME NEW p \in Seq(Nat), p \in Paths[t], p # <<>>
          PROVE  g[Part[t][Head(p)]][Tail(p)] \in Top
      <4>1. Part[t][Head(p)] \in Top /\ Tail(p) \in Seq(Nat)
        BY <1>2, <3>1
      <4> QED
        BY <4>1
    <3> QED
      BY <3>1
  <2> HIDE DEF S, Along
  <2> QED
    BY <2>1
<1>4. ASSUME NEW t \in Top, NEW g \in G, NEW h \in G,
             \A u \in Top : Height[u] < Height[t] => g[u] = h[u]
      PROVE  F[g][t] = F[h][t]
  <2>1. \A p \in Paths[t] : p # <<>> => g[Part[t][Head(p)]] = h[Part[t][Head(p)]]
    BY <1>2, <1>4
  <2>2. Along(g, t) = Along(h, t)
    BY <2>1
  <2> HIDE DEF S, Along
  <2> QED
    BY <2>2
<1>5. S # {} \/ Top = {}
  <2>1. ASSUME NEW t \in Top
        PROVE  [p \in Seq(Nat) |-> t] \in S
    OBVIOUS
  <2> QED
    BY <2>1
<1>6. CASE Top = {}
  BY <1>6
<1>7. CASE Top # {}
  <2>1. PICK f \in G : F[f] = f
    <3> HIDE DEF S, F
    <3>1. Recursion(F, Top, S, Height, n)
      BY <1>1, <1>3, <1>4, <1>5, <1>7 DEF Recursion
    <3>2. HasSolution(F, Top, S)
      BY <3>1, RecursionRuns
    <3> QED
      BY <3>2 DEF HasSolution
  <2> DEFINE g == [t \in Top |-> [p \in Paths[t] |-> f[t][p]]]
  <2>2. \A t \in Top : f[t] = Along(f, t)
    BY <2>1
  <2>3. ASSUME NEW t \in Top
        PROVE  g[t] = TopFrom(g, t)
    <3>1. ASSUME NEW p \in Paths[t]
          PROVE  f[t][p] = IF p = <<>> THEN t ELSE g[Part[t][Head(p)]][Tail(p)]
      <4>1. p \in Seq(Nat)
        BY PathsAre
      <4>2. f[t][p] = IF p \in Paths[t] /\ p # <<>> THEN f[Part[t][Head(p)]][Tail(p)] ELSE t
        BY <2>2, <4>1
      <4>3. CASE p = <<>>
        BY <4>2, <4>3
      <4>4. CASE p # <<>>
        <5>1. Part[t][Head(p)] \in Top /\ Tail(p) \in Paths[Part[t][Head(p)]]
          BY <1>2, <4>4
        <5> QED
          BY <4>2, <4>4, <5>1
      <4> QED
        BY <4>3, <4>4
    <3> HIDE DEF g
    <3>2. g[t] = [p \in Paths[t] |-> f[t][p]]
      BY DEF g
    <3> QED
      BY <3>1, <3>2 DEF TopFrom
  <2>4. Runs(g)
    <3>1. g = [t \in Top |-> g[t]]
      OBVIOUS
    <3> HIDE DEF g
    <3> QED
      BY <2>3, <3>1
  <2>5. Runs(at)
    <3> HIDE DEF Runs
    <3> QED
      BY <2>4
  <2>6. TopAt = [t \in Top |-> at[t]]
    BY DEF TopAt, TopFrom
  <2> HIDE DEF at
  <2>7. TopAt = at
    BY <2>5, <2>6
  <2> QED
    BY <2>5, <2>7
<1> QED
  BY <1>6, <1>7

LEMMA TopOfTheRoot ==
  \A t \in Top : <<>> \in Paths[t] /\ TopAt[t][<<>>] = t
<1>1. ASSUME NEW t \in Top
      PROVE  <<>> \in Paths[t] /\ TopAt[t][<<>>] = t
  <2>1. <<>> \in Paths[t]
    BY PathCases
  <2> QED
    BY <2>1, TopAtIs DEF TopFrom
<1> QED
  BY <1>1

LEMMA TopOfAPart ==
  ASSUME NEW t \in Top, NEW i \in DOMAIN Part[t], NEW q \in Paths[Part[t][i]]
  PROVE  TopAt[t][<<i>> \o q] = TopAt[Part[t][i]][q]
<1>1. <<i>> \o q \in Paths[t] /\ <<i>> \o q # <<>>
  BY PathsOfParts
<1>2. Head(<<i>> \o q) = i /\ Tail(<<i>> \o q) = q
  BY PathsOfParts
<1>3. TopAt[t] = TopFrom(TopAt, t)
  BY TopAtIs
<1> QED
  BY <1>1, <1>2, <1>3 DEF TopFrom

LEMMA TopsAreTops ==
  \A t \in Top : \A p \in Paths[t] : TopAt[t][p] \in Top
<1> DEFINE Good == {t \in Top : \A p \in Paths[t] : TopAt[t][p] \in Top}
<1>1. ASSUME NEW t \in Top, \A i \in DOMAIN Part[t] : Part[t][i] \in Good
      PROVE  t \in Good
  <2>1. ASSUME NEW p \in Paths[t]
        PROVE  TopAt[t][p] \in Top
    <3>1. CASE p = <<>>
      BY <3>1, TopOfTheRoot
    <3>2. ASSUME NEW i \in DOMAIN Part[t], NEW s \in Paths[Part[t][i]], p = <<i>> \o s
          PROVE  TopAt[t][p] \in Top
      BY <1>1, <3>2, TopOfAPart
    <3>4. p = <<>> \/ ThroughAPart(p, t)
      BY PathCases
    <3> QED
      BY <3>1, <3>2, <3>4 DEF ThroughAPart
  <2> QED
    BY <2>1
<1>2. Top \subseteq Good
  <2> HIDE DEF Good
  <2> QED
    BY <1>1, FromThePartsUp
<1> QED
  BY <1>2

\* The tree below a node of a tree is the tree of the node's top.
LEMMA TreesNest ==
  \A t \in Top : \A p \in Paths[t] : \A q \in Paths[TopAt[t][p]] :
    p \o q \in Paths[t] /\ TopAt[t][p \o q] = TopAt[TopAt[t][p]][q]
<1> DEFINE Nests(t) == \A p \in Paths[t] : \A q \in Paths[TopAt[t][p]] :
                         p \o q \in Paths[t] /\ TopAt[t][p \o q] = TopAt[TopAt[t][p]][q]
           Good == {t \in Top : Nests(t)}
<1>1. ASSUME NEW t \in Top, \A i \in DOMAIN Part[t] : Part[t][i] \in Good
      PROVE  t \in Good
  <2>1. ASSUME NEW p \in Paths[t], NEW q \in Paths[TopAt[t][p]]
        PROVE  p \o q \in Paths[t] /\ TopAt[t][p \o q] = TopAt[TopAt[t][p]][q]
    <3>1. q \in Seq(Nat)
      BY PathsAre, TopsAreTops
    <3>2. CASE p = <<>>
      <4>1. p \o q = q
        BY <3>1, <3>2
      <4> QED
        BY <3>2, <4>1, TopOfTheRoot
    <3>3. ASSUME NEW i \in DOMAIN Part[t], NEW s \in Paths[Part[t][i]], p = <<i>> \o s
          PROVE  p \o q \in Paths[t] /\ TopAt[t][p \o q] = TopAt[TopAt[t][p]][q]
      <4>1. TopAt[t][p] = TopAt[Part[t][i]][s]
        BY <3>3, TopOfAPart
      <4>2. s \o q \in Paths[Part[t][i]]
            /\ TopAt[Part[t][i]][s \o q] = TopAt[TopAt[t][p]][q]
        BY <1>1, <4>1
      <4>3. i \in Nat /\ s \in Seq(Nat)
        BY PathsOfParts
      <4>4. p \o q = <<i>> \o (s \o q)
        BY <3>1, <3>3, <4>3
      <4>5. <<i>> \o (s \o q) \in Paths[t]
        BY <4>2, PathsOfParts
      <4>6. TopAt[t][<<i>> \o (s \o q)] = TopAt[Part[t][i]][s \o q]
        BY <4>2, TopOfAPart
      <4> QED
        BY <4>2, <4>4, <4>5, <4>6
    <3>4. p = <<>> \/ ThroughAPart(p, t)
      BY PathCases
    <3> QED
      BY <3>2, <3>3, <3>4 DEF ThroughAPart
  <2> QED
    BY <2>1
<1>2. Top \subseteq Good
  <2> HIDE DEF Good
  <2> QED
    BY <1>1, FromThePartsUp
<1> QED
  BY <1>2

\* Where a visitor meets a top first.
LEMMA PrefixIs ==
  ASSUME NEW p \in Seq(Nat), NEW q \in Seq(Nat)
  PROVE  IsPrefix(p, q) <=> (Len(p) <= Len(q) /\ \A k \in 1 .. Len(p) : p[k] = q[k])
<1>1. ASSUME Len(p) <= Len(q)
      PROVE  /\ SubSeq(p, 1, Len(p)) = [k \in 1 .. Len(p) |-> p[k]]
             /\ SubSeq(q, 1, Len(p)) = [k \in 1 .. Len(p) |-> q[k]]
  BY <1>1
<1> QED
  BY <1>1 DEF IsPrefix

LEMMA NothingIsBeforeTheRoot ==
  ASSUME NEW q \in Seq(Nat)
  PROVE  ~ Earlier(q, <<>>)
<1>1. <<>> \in Seq(Nat) /\ Len(<<>>) = 0 /\ DOMAIN <<>> = {}
  OBVIOUS
<1>2. IsPrefix(q, <<>>) => q = <<>>
  <2>1. IsPrefix(q, <<>>) => Len(q) = 0
    <3>1. IsPrefix(q, <<>>) => Len(q) <= Len(<<>>)
      BY DEF IsPrefix
    <3>2. Len(q) \in Nat
      OBVIOUS
    <3> QED
      BY <1>1, <3>1, <3>2
  <2> QED
    BY <2>1
<1> QED
  BY <1>1, <1>2 DEF Earlier, IsStrictPrefix

LEMMA EarlierInAPart ==
  ASSUME NEW i \in Nat, NEW j \in Nat, NEW p \in Seq(Nat), NEW q \in Seq(Nat),
         Earlier(<<j>> \o q, <<i>> \o p)
  PROVE  j < i \/ (j = i /\ Earlier(q, p))
<1> DEFINE P == <<i>> \o p
           Q == <<j>> \o q
<1>1. /\ P \in Seq(Nat) /\ Len(P) = Len(p) + 1 /\ P[1] = i
      /\ Q \in Seq(Nat) /\ Len(Q) = Len(q) + 1 /\ Q[1] = j
  OBVIOUS
<1>2. /\ \A k \in 1 .. Len(p) : P[k + 1] = p[k]
      /\ \A k \in 1 .. Len(q) : Q[k + 1] = q[k]
  OBVIOUS
<1>3. Earlier(Q, P)
  OBVIOUS
<1>6. Len(p) \in Nat /\ Len(q) \in Nat
  OBVIOUS
<1>4. CASE IsStrictPrefix(Q, P)
  <2>1. Len(Q) <= Len(P) /\ \A k \in 1 .. Len(Q) : Q[k] = P[k]
    <3> HIDE DEF P, Q
    <3> QED
      BY <1>1, <1>4, PrefixIs DEF IsStrictPrefix
  <2>2. i = j
    <3> HIDE DEF P, Q
    <3> QED
      BY <1>1, <2>1
  <2>3. ASSUME NEW k \in 1 .. Len(q)
        PROVE  q[k] = p[k]
    <3>1. k + 1 \in 1 .. Len(Q) /\ k \in 1 .. Len(p)
      BY <1>1, <2>1
    <3>2. Q[k + 1] = P[k + 1]
      BY <2>1, <3>1
    <3> QED
      BY <1>2, <3>1, <3>2
  <2>4. Len(q) <= Len(p)
    BY <1>1, <2>1
  <2>5. IsPrefix(q, p)
    BY <2>3, <2>4, PrefixIs
  <2>6. q # p
    BY <1>4, <2>2 DEF IsStrictPrefix
  <2> QED
    BY <2>2, <2>5, <2>6 DEF Earlier, IsStrictPrefix
<1>5. ASSUME NEW k \in DOMAIN Q \cap DOMAIN P, Q[k] < P[k], \A l \in 1 .. k - 1 : Q[l] = P[l]
      PROVE  j < i \/ (j = i /\ Earlier(q, p))
  <2>1. k \in 1 .. Len(p) + 1 /\ k \in 1 .. Len(q) + 1
    BY <1>1
  <2> HIDE DEF P, Q
  <2>2. CASE k = 1
    BY <1>1, <1>5, <2>2
  <2>3. CASE k # 1
    <3>1. k - 1 \in 1 .. Len(p) /\ k - 1 \in 1 .. Len(q) /\ (k - 1) + 1 = k
      BY <2>1, <2>3
    <3>2. q[k - 1] < p[k - 1]
      <4>1. P[(k - 1) + 1] = p[k - 1] /\ Q[(k - 1) + 1] = q[k - 1]
        BY <1>2, <3>1
      <4> QED
        BY <1>5, <3>1, <4>1
    <3>3. j = i
      <4>1. 1 \in 1 .. k - 1
        BY <3>1
      <4>2. Q[1] = P[1]
        BY <1>5, <4>1
      <4> QED
        BY <1>1, <4>2
    <3>4. ASSUME NEW l \in 1 .. (k - 1) - 1
          PROVE  q[l] = p[l]
      <4>1. l + 1 \in 1 .. k - 1 /\ l \in 1 .. Len(p) /\ l \in 1 .. Len(q)
        <5>1. Len(p) \in Nat /\ Len(q) \in Nat /\ k \in Nat
          BY <1>6, <2>1
        <5>2. l \in Nat /\ 1 <= l /\ l <= (k - 1) - 1 /\ k - 1 <= Len(p) /\ k - 1 <= Len(q)
          BY <3>1, <5>1
        <5> QED
          BY <5>1, <5>2
      <4>2. Q[l + 1] = P[l + 1]
        BY <1>5, <4>1
      <4> QED
        BY <1>2, <4>1, <4>2
    <3>5. k - 1 \in DOMAIN q \cap DOMAIN p
      BY <3>1
    <3>6. Earlier(q, p)
      BY <3>2, <3>4, <3>5 DEF Earlier
    <3> QED
      BY <3>3, <3>6
  <2> QED
    BY <2>2, <2>3
<1> QED
  <2> HIDE DEF P, Q
  <2> QED
    BY <1>3, <1>4, <1>5 DEF Earlier

IsTheFirst(t, p) ==
  p \in Paths[t] /\ \A q \in Paths[t] : TopAt[t][q] = TopAt[t][p] => ~ Earlier(q, p)

LEMMA FirstPathsAre ==
  ASSUME NEW t \in Top, NEW p
  PROVE  p \in FirstPaths[t] <=> IsTheFirst(t, p)
BY DEF FirstPaths, IsTheFirst

\* Every top of a tree has a place where it is met first.
LEMMA FirstsAreThere ==
  \A t \in Top : \A p \in Paths[t] : \E f : IsTheFirst(t, f) /\ TopAt[t][f] = TopAt[t][p]
<1> DEFINE HasFirsts(t) ==
             \A p \in Paths[t] : \E f : IsTheFirst(t, f) /\ TopAt[t][f] = TopAt[t][p]
           Good == {t \in Top : HasFirsts(t)}
<1>1. ASSUME NEW t \in Top, \A i \in DOMAIN Part[t] : Part[t][i] \in Good
      PROVE  t \in Good
  <2> SUFFICES ASSUME NEW p \in Paths[t]
               PROVE  \E f : IsTheFirst(t, f) /\ TopAt[t][f] = TopAt[t][p]
    OBVIOUS
  <2> DEFINE u == TopAt[t][p]
             Has(i) == \E q \in Paths[Part[t][i]] : TopAt[Part[t][i]][q] = u
             I == {i \in DOMAIN Part[t] : Has(i)}
  <2>1. CASE u = t
    <3>1. \A q \in Paths[t] : ~ Earlier(q, <<>>)
      BY PathsAre, NothingIsBeforeTheRoot
    <3>2. <<>> \in Paths[t] /\ TopAt[t][<<>>] = t
      BY TopOfTheRoot
    <3>3. IsTheFirst(t, <<>>)
      BY <3>1, <3>2 DEF IsTheFirst
    <3> QED
      BY <2>1, <3>2, <3>3
  <2>2. CASE u # t
    <3>1. I \in SUBSET Nat /\ I # {}
      <4>1. p # <<>>
        BY <2>2, TopOfTheRoot
      <4>2. ThroughAPart(p, t)
        BY <4>1, PathCases
      <4>3. PICK i \in DOMAIN Part[t] : \E q \in Paths[Part[t][i]] : p = <<i>> \o q
        BY <4>2 DEF ThroughAPart
      <4>4. \E q \in Paths[Part[t][i]] : TopAt[Part[t][i]][q] = u
        BY <4>3, TopOfAPart
      <4>5. Has(i)
        BY <4>4
      <4> HIDE DEF Has
      <4> QED
        BY <4>5, PartsAre
    <3>2. PICK i \in I : \A x \in I : i <= x
      <4> HIDE DEF I
      <4> QED
        BY <3>1, LeastNumber
    <3>3. PICK r \in Paths[Part[t][i]] : TopAt[Part[t][i]][r] = u
      BY <3>2
    <3>4. i \in DOMAIN Part[t] /\ Part[t][i] \in Good
      BY <1>1, <3>2
    <3>5. PICK f : IsTheFirst(Part[t][i], f) /\ TopAt[Part[t][i]][f] = u
      BY <3>3, <3>4
    <3>6. f \in Paths[Part[t][i]]
      BY <3>5 DEF IsTheFirst
    <3>7. /\ i \in Nat /\ f \in Seq(Nat) /\ <<i>> \o f \in Paths[t]
          /\ TopAt[t][<<i>> \o f] = u
      BY <3>4, <3>5, <3>6, PathsOfParts, TopOfAPart
    <3>8. ASSUME NEW q \in Paths[t], TopAt[t][q] = u, Earlier(q, <<i>> \o f)
          PROVE  FALSE
      <4>1. q # <<>>
        BY <2>2, <3>8, TopOfTheRoot
      <4>2. ThroughAPart(q, t)
        BY <4>1, PathCases
      <4>3. PICK j \in DOMAIN Part[t] : \E s \in Paths[Part[t][j]] : q = <<j>> \o s
        BY <4>2 DEF ThroughAPart
      <4>4. PICK s \in Paths[Part[t][j]] : q = <<j>> \o s
        BY <4>3
      <4>5. TopAt[Part[t][j]][s] = u
        BY <3>8, <4>4, TopOfAPart
      <4>6. j \in I
        BY <4>5
      <4>7. j \in Nat /\ s \in Seq(Nat)
        BY PathsOfParts
      <4>8. i <= j
        BY <3>2, <4>6
      <4>9. Earlier(<<j>> \o s, <<i>> \o f)
        BY <3>8, <4>4
      <4>10. j < i \/ (j = i /\ Earlier(s, f))
        BY <3>7, <4>7, <4>9, EarlierInAPart
      <4>11. j = i /\ Earlier(s, f)
        BY <3>7, <4>7, <4>8, <4>10
      <4> QED
        BY <3>5, <4>5, <4>11 DEF IsTheFirst
    <3>9. IsTheFirst(t, <<i>> \o f)
      <4> HIDE DEF u
      <4> QED
        BY <3>7, <3>8 DEF IsTheFirst
    <3> QED
      BY <3>7, <3>9
  <2> QED
    BY <2>1, <2>2
<1>2. Top \subseteq Good
  <2> HIDE DEF Good
  <2> QED
    BY <1>1, FromThePartsUp
<1> QED
  BY <1>2

-----------------------------------------------------------------------------
(***************************************************************************)
(* The search through the origins.                                         *)
(***************************************************************************)
Near(o, found) == found \cup UNION {o[m] : m \in found}

Reach(o, n, depth) ==
  LET reach[d \in 0 .. depth] == IF d = 0 THEN {n} ELSE Near(o, reach[d - 1])
  IN  reach[depth]

LEMMA HistoryIsReach ==
  ASSUME NEW n, NEW depth
  PROVE  History(n, depth) = Reach(origins, n, depth)
BY DEF History, Reach, Near

SearchesFrom(h, o, n, N, depth) ==
  /\ h \in [0 .. depth -> SUBSET N] /\ h[0] = {n}
  /\ \A d \in 1 .. depth : h[d] = Near(o, h[d - 1])

LEMMA NearIn ==
  ASSUME NEW N, NEW o \in [N -> SUBSET N], NEW found \in SUBSET N
  PROVE  Near(o, found) \in SUBSET N
BY DEF Near

LEMMA SearchesAgree ==
  ASSUME NEW N, NEW o, NEW n, NEW d \in Nat, NEW e \in Nat, d <= e, NEW g, NEW h,
         SearchesFrom(g, o, n, N, d), SearchesFrom(h, o, n, N, e)
  PROVE  g[d] = h[d]
<1> DEFINE Same == {k \in 0 .. d : g[k] = h[k]}
<1>1. 0 \in Same
  <2>1. 0 \in 0 .. d /\ g[0] = h[0]
    BY DEF SearchesFrom
  <2> QED
    BY <2>1
<1>2. ASSUME NEW k \in 0 .. d - 1, k \in Same
      PROVE  k + 1 \in Same
  <2>1. k + 1 \in 1 .. d /\ k + 1 \in 1 .. e /\ k + 1 \in 0 .. d /\ (k + 1) - 1 = k
    OBVIOUS
  <2>2. g[k + 1] = Near(o, g[(k + 1) - 1]) /\ h[k + 1] = Near(o, h[(k + 1) - 1])
    BY <2>1, Zenon DEF SearchesFrom
  <2>3. g[k] = h[k]
    BY <1>2
  <2>4. g[k + 1] = h[k + 1]
    BY <2>1, <2>2, <2>3
  <2> QED
    BY <2>1, <2>4
<1> HIDE DEF Same
<1>3. 0 .. d \subseteq Same
  BY <1>1, <1>2, Climb, Zenon
<1>4. d \in Same
  BY <1>3
<1> QED
  BY <1>4 DEF Same

LEMMA ReachIs ==
  ASSUME NEW N, NEW o \in [N -> SUBSET N], NEW n \in N, NEW depth \in Nat
  PROVE  \E h : SearchesFrom(h, o, n, N, depth) /\ Reach(o, n, depth) = h[depth]
<1> DEFINE S == SUBSET N
           step == [k \in 1 .. depth |-> [found \in S |-> Near(o, found)]]
           Runs(f) == f = [d \in 0 .. depth |-> IF d = 0 THEN {n} ELSE Near(o, f[d - 1])]
           reach == CHOOSE f : Runs(f)
<1>1. {n} \in S /\ step \in [1 .. depth -> [S -> S]]
  <2>1. \A found \in S : Near(o, found) \in S
    BY NearIn
  <2> QED
    BY <2>1
<1>2. PICK h : LoopsThrough(h, depth, S, {n}, step)
  <2> HIDE DEF S, step
  <2> QED
    BY <1>1, LoopRuns, Zenon
<1>3. h \in [0 .. depth -> S] /\ h[0] = {n} /\ \A d \in 1 .. depth : h[d] = step[d][h[d - 1]]
  BY <1>2, Zenon DEF LoopsThrough
<1>4. \A d \in 1 .. depth : h[d] = Near(o, h[d - 1])
  <2> SUFFICES ASSUME NEW d \in 1 .. depth
               PROVE  h[d] = Near(o, h[d - 1])
    OBVIOUS
  <2>1. d - 1 \in 0 .. depth
    OBVIOUS
  <2>2. h[d - 1] \in S /\ h[d] = step[d][h[d - 1]]
    BY <1>3, <2>1
  <2> HIDE DEF S
  <2> QED
    BY <2>2
<1>5. SearchesFrom(h, o, n, N, depth)
  BY <1>3, <1>4 DEF SearchesFrom
<1>6. Runs(h)
  <2>1. h = [d \in 0 .. depth |-> h[d]]
    BY <1>3
  <2>2. \A d \in 0 .. depth : h[d] = IF d = 0 THEN {n} ELSE Near(o, h[d - 1])
    BY <1>3, <1>4
  <2> QED
    BY <2>1, <2>2
<1>7. Runs(reach)
  <2> HIDE DEF Runs
  <2> QED
    BY <1>6
<1>8. Reach(o, n, depth) = reach[depth]
  BY DEF Reach
<1> HIDE DEF reach
<1>9. SearchesFrom(reach, o, n, N, depth)
  <2>1. \A d \in 0 .. depth : reach[d] = IF d = 0 THEN {n} ELSE Near(o, reach[d - 1])
    BY <1>7
  <2> DEFINE Same == {k \in 0 .. depth : reach[k] = h[k]}
  <2>2. 0 \in Same
    <3>1. 0 \in 0 .. depth
      OBVIOUS
    <3>2. reach[0] = h[0]
      BY <1>3, <2>1, <3>1
    <3> QED
      BY <3>1, <3>2
  <2>3. ASSUME NEW k \in 0 .. depth - 1, k \in Same
        PROVE  k + 1 \in Same
    <3>1. k + 1 \in 1 .. depth /\ k + 1 \in 0 .. depth /\ k + 1 # 0 /\ (k + 1) - 1 = k
      OBVIOUS
    <3>2. h[k + 1] = Near(o, h[k]) /\ reach[k + 1] = Near(o, reach[k])
      BY <1>4, <2>1, <3>1
    <3> QED
      BY <2>3, <3>1, <3>2
  <2> HIDE DEF Same
  <2>4. 0 .. depth \subseteq Same
    BY <2>2, <2>3, Climb, Zenon
  <2>5. \A d \in 0 .. depth : reach[d] = h[d]
    BY <2>4 DEF Same
  <2>6. reach = [d \in 0 .. depth |-> reach[d]]
    BY <1>7
  <2>7. h = [d \in 0 .. depth |-> h[d]]
    BY <1>3
  <2>8. reach = h
    BY <2>5, <2>6, <2>7
  <2> QED
    BY <1>5, <2>8
<1> QED
  BY <1>8, <1>9

LEMMA ReachSteps ==
  ASSUME NEW N, NEW o \in [N -> SUBSET N], NEW n \in N, NEW d \in Nat
  PROVE  /\ Reach(o, n, 0) = {n} /\ Reach(o, n, d) \in SUBSET N
         /\ Reach(o, n, d + 1) = Near(o, Reach(o, n, d))
<1>1. 0 \in Nat /\ d + 1 \in Nat /\ d <= d + 1 /\ 0 <= d
  OBVIOUS
<1>2. PICK f : SearchesFrom(f, o, n, N, 0) /\ Reach(o, n, 0) = f[0]
  BY <1>1, ReachIs
<1>3. PICK g : SearchesFrom(g, o, n, N, d) /\ Reach(o, n, d) = g[d]
  BY ReachIs
<1>4. PICK h : SearchesFrom(h, o, n, N, d + 1) /\ Reach(o, n, d + 1) = h[d + 1]
  BY <1>1, ReachIs
<1>5. g[d] = h[d]
  BY <1>1, <1>3, <1>4, SearchesAgree
<1>6. d + 1 \in 1 .. d + 1 /\ (d + 1) - 1 = d /\ d \in 0 .. d
  OBVIOUS
<1>7. h[d + 1] = Near(o, h[(d + 1) - 1])
  BY <1>4, <1>6 DEF SearchesFrom
<1>8. f[0] = {n}
  BY <1>2 DEF SearchesFrom
<1>9. g[d] \in SUBSET N
  BY <1>3, <1>6 DEF SearchesFrom
<1> QED
  BY <1>2, <1>3, <1>4, <1>5, <1>6, <1>7, <1>8, <1>9

\* A search of one more step starts from the origins.
LEMMA ReachFromTheFront ==
  ASSUME NEW N, NEW o \in [N -> SUBSET N], NEW n \in N, NEW d \in Nat
  PROVE  Reach(o, n, d + 1) = {n} \cup UNION {Reach(o, m, d) : m \in o[n]}
<1> DEFINE Ahead(k) == {n} \cup UNION {Reach(o, m, k) : m \in o[n]}
           Good == {k \in 0 .. d : Reach(o, n, k + 1) = Ahead(k)}
<1>1. o[n] \in SUBSET N
  OBVIOUS
<1>2. 0 \in Good
  <2>1. Reach(o, n, 0 + 1) = Near(o, {n})
    <3>1. 0 \in Nat /\ Reach(o, n, 0) = {n}
      BY ReachSteps
    <3>2. \A k \in Nat : Reach(o, n, k + 1) = Near(o, Reach(o, n, k))
      BY ReachSteps
    <3>3. Reach(o, n, 0 + 1) = Near(o, Reach(o, n, 0))
      BY <3>1, <3>2, Zenon
    <3> QED
      BY <3>1, <3>3
  <2>2. \A m \in o[n] : Reach(o, m, 0) = {m}
    BY <1>1, ReachSteps
  <2>3. Ahead(0) = {n} \cup o[n]
    BY <2>2
  <2>4. Near(o, {n}) = {n} \cup o[n]
    BY DEF Near
  <2>5. 0 \in 0 .. d
    OBVIOUS
  <2> QED
    BY <2>1, <2>3, <2>4, <2>5
<1>3. ASSUME NEW k \in 0 .. d - 1, k \in Good
      PROVE  k + 1 \in Good
  <2>1. k \in Nat /\ k + 1 \in Nat /\ k + 1 \in 0 .. d
    OBVIOUS
  <2>2. Reach(o, n, (k + 1) + 1) = Near(o, Ahead(k))
    <3>1. Reach(o, n, (k + 1) + 1) = Near(o, Reach(o, n, k + 1))
      BY <2>1, ReachSteps
    <3>2. Reach(o, n, k + 1) = Ahead(k)
      BY <1>3
    <3> HIDE DEF Ahead
    <3> QED
      BY <3>1, <3>2
  <2>3. \A m \in o[n] : Reach(o, m, k + 1) = Near(o, Reach(o, m, k))
    BY <1>1, <2>1, ReachSteps
  <2>4. Near(o, Ahead(k)) = Ahead(k + 1)
    <3>1. ASSUME NEW x
          PROVE  x \in Ahead(k + 1) <=> \/ x = n
                                       \/ \E m \in o[n] : x \in Near(o, Reach(o, m, k))
      BY <2>3
    <3>2. ASSUME NEW x
          PROVE  x \in Near(o, Ahead(k)) <=> \/ x = n
                                            \/ \E m \in o[n] : x \in Near(o, Reach(o, m, k))
      <4>1. ASSUME x \in o[n]
            PROVE  \E m \in o[n] : x \in Near(o, Reach(o, m, k))
        <5>1. x \in Reach(o, x, k)
          <6> DEFINE In == {j \in 0 .. k : x \in Reach(o, x, j)}
          <6>1. x \in N
            BY <1>1, <4>1
          <6>2. 0 \in In
            BY <2>1, <6>1, ReachSteps
          <6>3. ASSUME NEW j \in 0 .. k - 1, j \in In
                PROVE  j + 1 \in In
            <7>1. Reach(o, x, j + 1) = Near(o, Reach(o, x, j)) /\ j + 1 \in 0 .. k
              BY <2>1, <6>1, ReachSteps
            <7> QED
              BY <6>3, <7>1 DEF Near
          <6> HIDE DEF In
          <6>4. 0 .. k \subseteq In
            BY <2>1, <6>2, <6>3, Climb, Zenon
          <6> QED
            BY <2>1, <6>4 DEF In
        <5> QED
          BY <4>1, <5>1 DEF Near
      <4>2. x \in Near(o, Ahead(k)) <=> (x \in Ahead(k) \/ \E y \in Ahead(k) : x \in o[y])
        BY DEF Near
      <4>3. ASSUME NEW y
            PROVE  y \in Ahead(k) <=> (y = n \/ \E m \in o[n] : y \in Reach(o, m, k))
        OBVIOUS
      <4>4. ASSUME NEW m
            PROVE  x \in Near(o, Reach(o, m, k)) <=>
                     \/ x \in Reach(o, m, k)
                     \/ \E y \in Reach(o, m, k) : x \in o[y]
        BY DEF Near
      <4> HIDE DEF Ahead
      <4> QED
        BY <4>1, <4>2, <4>3, <4>4
    <3> QED
      BY <3>1, <3>2
  <2> HIDE DEF Ahead
  <2> QED
    BY <2>1, <2>2, <2>4
<1> HIDE DEF Good
<1>4. 0 .. d \subseteq Good
  BY <1>2, <1>3, Climb, Zenon
<1> QED
  BY <1>4 DEF Good

\* What is made later does not change what the search finds.
LEMMA ReachStays ==
  ASSUME NEW N, NEW o \in [N -> SUBSET N], NEW M, NEW q \in [M -> SUBSET M],
         N \subseteq M, \A x \in N : q[x] = o[x], NEW n \in N, NEW d \in Nat
  PROVE  Reach(q, n, d) = Reach(o, n, d)
<1> DEFINE Same == {k \in 0 .. d : Reach(q, n, k) = Reach(o, n, k)}
<1>1. n \in M
  OBVIOUS
<1>2. 0 \in Same
  <2>1. 0 \in 0 .. d /\ Reach(q, n, 0) = {n} /\ Reach(o, n, 0) = {n}
    BY <1>1, ReachSteps
  <2> QED
    BY <2>1
<1>3. ASSUME NEW k \in 0 .. d - 1, k \in Same
      PROVE  k + 1 \in Same
  <2>1. k \in Nat /\ k + 1 \in 0 .. d
    OBVIOUS
  <2>2. Reach(q, n, k + 1) = Near(q, Reach(q, n, k))
    BY <1>1, <2>1, ReachSteps
  <2>3. Reach(o, n, k + 1) = Near(o, Reach(o, n, k)) /\ Reach(o, n, k) \in SUBSET N
    BY <2>1, ReachSteps
  <2>4. Near(q, Reach(o, n, k)) = Near(o, Reach(o, n, k))
    BY <2>3 DEF Near
  <2> QED
    BY <1>3, <2>1, <2>2, <2>3, <2>4
<1> HIDE DEF Same
<1>4. 0 .. d \subseteq Same
  BY <1>2, <1>3, Climb, Zenon
<1> QED
  BY <1>4 DEF Same

-----------------------------------------------------------------------------
(***************************************************************************)
(* What every step keeps true of the trees and the origins.                *)
(***************************************************************************)
AnyNode == Nat \X Seq(Nat)
Make    == {[inputs |-> <<>>]} \cup
           {[inputs |-> <<x, y>>, algorithm |-> a] : x \in AnyNode, y \in AnyNode, a \in Algorithms}

TreesOK ==
  /\ trees \in Seq(Top) /\ made \in Seq(Make) /\ Len(made) = Len(trees)
  /\ origins \in [Node -> SUBSET Node]

InputsOK == \A r \in DOMAIN trees : \A x \in InputsOf(r) : x \in Node /\ x[1] < r

\* An origin is a node its algorithm made the node of, and those that the
\* inputs' get_subshapes return are all known where a top is met first.
OriginsOf(n) ==
  /\ origins[n] \subseteq MadeOf(n[1], TopOf(n))
  /\ IsFirst(n) => \A x \in InputsOf(n[1]) :
       get_subshapes(x) \cap MadeOf(n[1], TopOf(n)) \subseteq origins[n]
OriginsOK == \A n \in Node : OriginsOf(n)

HistoryInv == TreesOK /\ InputsOK /\ OriginsOK

IsNode(tr, n) == \E r \in DOMAIN tr : \E p \in Paths[tr[r]] : n = <<r, p>>

LEMMA NodesAreNodes ==
  ASSUME NEW n
  PROVE  (n \in Node <=> IsNode(trees, n)) /\ (n \in Node' <=> IsNode(trees', n))
<1>1. n \in Node <=> IsNode(trees, n)
  <2>1. n \in Node <=> \E r \in DOMAIN trees : n \in NodesOf(r)
    BY DEF Node
  <2>2. \A r : n \in NodesOf(r) <=> \E p \in Paths[trees[r]] : n = <<r, p>>
    BY DEF NodesOf
  <2> QED
    BY <2>1, <2>2 DEF IsNode
<1>2. n \in Node' <=> IsNode(trees', n)
  <2>1. n \in Node' <=> \E r \in DOMAIN trees' : n \in NodesOf(r)'
    BY DEF Node
  <2>2. \A r : n \in NodesOf(r)' <=> \E p \in Paths[trees'[r]] : n = <<r, p>>
    BY DEF NodesOf
  <2> QED
    BY <2>1, <2>2 DEF IsNode
<1> QED
  BY <1>1, <1>2

LEMMA NodesAre ==
  ASSUME NEW tr \in Seq(Top), NEW n, IsNode(tr, n)
  PROVE  /\ n = <<n[1], n[2]>> /\ n \in AnyNode
         /\ n[1] \in DOMAIN tr /\ n[1] \in 1 .. Len(tr) /\ tr[n[1]] \in Top
         /\ n[2] \in Paths[tr[n[1]]] /\ TopAt[tr[n[1]]][n[2]] \in Top
<1>1. PICK r \in DOMAIN tr : \E p \in Paths[tr[r]] : n = <<r, p>>
  BY DEF IsNode
<1>2. PICK p \in Paths[tr[r]] : n = <<r, p>>
  BY <1>1
<1>3. r \in 1 .. Len(tr) /\ r \in Nat /\ tr[r] \in Top
  OBVIOUS
<1>4. p \in Seq(Nat)
  BY <1>3, PathsAre
<1>5. TopAt[tr[r]][p] \in Top
  BY <1>3, TopsAreTops
<1> QED
  BY <1>2, <1>3, <1>4, <1>5 DEF AnyNode

LEMMA NodeHasATop ==
  ASSUME trees \in Seq(Top), NEW n \in Node
  PROVE  /\ n = <<n[1], n[2]>> /\ n \in AnyNode
         /\ n[1] \in DOMAIN trees /\ n[1] \in 1 .. Len(trees) /\ trees[n[1]] \in Top
         /\ n[2] \in Paths[trees[n[1]]] /\ TopOf(n) \in Top
<1>1. IsNode(trees, n)
  BY NodesAreNodes
<1> QED
  BY <1>1, NodesAre DEF TopOf

\* Nodes below a node are nodes of its tree.
LEMMA BelowAreNodes ==
  ASSUME trees \in Seq(Top), NEW n \in Node, NEW p \in Paths[TopOf(n)]
  PROVE  /\ <<n[1], n[2] \o p>> \in Node
         /\ TopOf(<<n[1], n[2] \o p>>) = TopAt[TopOf(n)][p]
<1>1. n[1] \in DOMAIN trees /\ trees[n[1]] \in Top /\ n[2] \in Paths[trees[n[1]]]
  BY NodeHasATop
<1>2. n[2] \o p \in Paths[trees[n[1]]] /\ TopAt[trees[n[1]]][n[2] \o p] = TopAt[TopOf(n)][p]
  BY <1>1, TreesNest DEF TopOf
<1>3. IsNode(trees, <<n[1], n[2] \o p>>)
  BY <1>1, <1>2 DEF IsNode
<1> QED
  BY <1>2, <1>3, NodesAreNodes DEF TopOf

LEMMA BelowIsBelow ==
  ASSUME trees \in Seq(Top), NEW n \in Node
  PROVE  /\ Below(n) \subseteq Node /\ get_subshapes(n) \subseteq Below(n)
         /\ \A m \in Below(n) : m[1] = n[1]
<1>1. TopOf(n) \in Top
  BY NodeHasATop
<1>2. FirstPaths[TopOf(n)] \subseteq Paths[TopOf(n)]
  BY <1>1, FirstPathsAre DEF IsTheFirst
<1>3. \A m \in Below(n) : m \in Node /\ m[1] = n[1]
  <2> SUFFICES ASSUME NEW m \in Below(n)
               PROVE  m \in Node /\ m[1] = n[1]
    OBVIOUS
  <2>1. PICK p \in Paths[TopOf(n)] : m = <<n[1], n[2] \o p>>
    BY Zenon DEF Below
  <2>2. <<n[1], n[2] \o p>> \in Node
    BY BelowAreNodes
  <2> QED
    BY <2>1, <2>2
<1> QED
  BY <1>2, <1>3 DEF Below, get_subshapes

LEMMA MadeOfAreNodes ==
  ASSUME trees \in Seq(Top), InputsOK, NEW r \in DOMAIN trees, NEW t, NEW m \in MadeOf(r, t)
  PROVE  m \in Node /\ m[1] < r
<1>1. PICK x \in InputsOf(r) : m \in Below(x)
  BY DEF MadeOf
<1>2. x \in Node /\ x[1] < r
  BY DEF InputsOK
<1> QED
  BY <1>1, <1>2, BelowIsBelow

\* A step that makes a tree.
Grows(t, mk, new) ==
  /\ trees' = Append(trees, t) /\ made' = Append(made, mk) /\ origins' = Grow(origins, new)
  /\ new \in [NewNodes(t) -> SUBSET Node]

LEMMA NewNodesAre ==
  ASSUME trees \in Seq(Top), NEW t \in Top
  PROVE  \A n \in NewNodes(t) : /\ n = <<n[1], n[2]>> /\ n[1] = Len(trees) + 1
                                /\ n[2] \in Paths[t] /\ n \notin Node
<1> SUFFICES ASSUME NEW n \in NewNodes(t)
             PROVE  /\ n = <<n[1], n[2]>> /\ n[1] = Len(trees) + 1
                    /\ n[2] \in Paths[t] /\ n \notin Node
  OBVIOUS
<1>1. n = <<n[1], n[2]>> /\ n[1] = Len(trees) + 1 /\ n[2] \in Paths[t]
  BY DEF NewNodes
<1>2. n \in Node => n[1] \in 1 .. Len(trees)
  BY NodeHasATop
<1>3. Len(trees) + 1 \notin 1 .. Len(trees)
  OBVIOUS
<1> QED
  BY <1>1, <1>2, <1>3

LEMMA TreesGrow ==
  ASSUME trees \in Seq(Top), NEW t \in Top, trees' = Append(trees, t)
  PROVE  /\ trees' \in Seq(Top) /\ Len(trees') = Len(trees) + 1
         /\ \A r \in DOMAIN trees : r \in DOMAIN trees' /\ trees'[r] = trees[r]
         /\ \A r \in DOMAIN trees' : r \in DOMAIN trees \/ (r = Len(trees) + 1 /\ trees'[r] = t)
         /\ Len(trees) + 1 \in DOMAIN trees' /\ trees'[Len(trees) + 1] = t
         /\ Len(trees) + 1 \notin DOMAIN trees
OBVIOUS

LEMMA NodesGrow ==
  ASSUME trees \in Seq(Top), NEW t \in Top, trees' = Append(trees, t)
  PROVE  /\ Node' = Node \cup NewNodes(t)
         /\ \A n \in Node : TopOf(n)' = TopOf(n)
         /\ \A n \in NewNodes(t) : TopOf(n)' = TopAt[t][n[2]]
<1>1. \A r \in DOMAIN trees : r \in DOMAIN trees' /\ trees'[r] = trees[r]
  BY TreesGrow
<1>2. \A r \in DOMAIN trees' : r \in DOMAIN trees \/ (r = Len(trees) + 1 /\ trees'[r] = t)
  BY TreesGrow
<1>3. Len(trees) + 1 \in DOMAIN trees' /\ trees'[Len(trees) + 1] = t
  BY TreesGrow
<1>4. ASSUME NEW n
      PROVE  n \in Node' <=> (n \in Node \/ n \in NewNodes(t))
  <2>1. IsNode(trees', n) => IsNode(trees, n) \/ n \in NewNodes(t)
    <3>1. ASSUME NEW r \in DOMAIN trees', NEW p \in Paths[trees'[r]], n = <<r, p>>
          PROVE  IsNode(trees, n) \/ n \in NewNodes(t)
      <4>1. CASE r \in DOMAIN trees
        BY <1>1, <3>1, <4>1 DEF IsNode
      <4>2. CASE r = Len(trees) + 1 /\ trees'[r] = t
        BY <3>1, <4>2 DEF NewNodes
      <4> QED
        BY <1>2, <4>1, <4>2
    <3> QED
      BY <3>1, Zenon DEF IsNode
  <2>2. IsNode(trees, n) => IsNode(trees', n)
    BY <1>1 DEF IsNode
  <2>3. n \in NewNodes(t) => IsNode(trees', n)
    BY <1>3 DEF IsNode, NewNodes
  <2> QED
    BY <2>1, <2>2, <2>3, NodesAreNodes
<1>5. ASSUME NEW n \in Node
      PROVE  TopOf(n)' = TopOf(n)
  <2>1. n[1] \in DOMAIN trees
    BY NodeHasATop
  <2> QED
    BY <1>1, <2>1 DEF TopOf
<1>6. ASSUME NEW n \in NewNodes(t)
      PROVE  TopOf(n)' = TopAt[t][n[2]]
  <2>1. n[1] = Len(trees) + 1
    BY NewNodesAre
  <2> QED
    BY <1>3, <2>1 DEF TopOf
<1> QED
  BY <1>4, <1>5, <1>6

LEMMA OriginsGrow ==
  ASSUME HistoryInv, NEW t \in Top, NEW mk, NEW new, Grows(t, mk, new)
  PROVE  /\ origins' \in [Node' -> SUBSET Node']
         /\ \A n \in Node : origins'[n] = origins[n]
         /\ \A n \in NewNodes(t) : origins'[n] = new[n]
<1>1. trees \in Seq(Top) /\ origins \in [Node -> SUBSET Node]
  BY DEF HistoryInv, TreesOK
<1>2. trees' = Append(trees, t) /\ origins' = Grow(origins, new) /\ new \in [NewNodes(t) -> SUBSET Node]
  BY DEF Grows
<1>3. Node' = Node \cup NewNodes(t)
  BY <1>1, <1>2, NodesGrow
<1>4. origins' = [n \in Node \cup NewNodes(t) |-> IF n \in Node THEN origins[n] ELSE new[n]]
  <2>1. DOMAIN origins = Node /\ DOMAIN new = NewNodes(t)
    BY <1>1, <1>2
  <2> QED
    BY <1>2, <2>1 DEF Grow
<1>5. \A n \in NewNodes(t) : n \notin Node
  BY <1>1, NewNodesAre
<1>6. \A n \in Node : origins'[n] = origins[n]
  BY <1>4
<1>7. \A n \in NewNodes(t) : origins'[n] = new[n]
  BY <1>4, <1>5
<1>8. \A n \in Node' : origins'[n] \in SUBSET Node'
  BY <1>1, <1>2, <1>3, <1>6, <1>7
<1> QED
  BY <1>3, <1>4, <1>6, <1>7, <1>8

\* What the tops of a new tree are made of.
MadeBy(mk, t) ==
  {m \in UNION {Below(n) : n \in ToSet(mk.inputs)} :
     TopOf(m) = t \/ t \in mk.algorithm.modified[TopOf(m)]}

LEMMA MadeOfIsMadeBy ==
  ASSUME NEW r, NEW t
  PROVE  MadeOf(r, t) = MadeBy(made[r], t)
BY DEF MadeOf, MadeBy, InputsOf

LEMMA BelowStays ==
  ASSUME trees \in Seq(Top), NEW t \in Top, trees' = Append(trees, t), NEW n \in Node
  PROVE  /\ Below(n)' = Below(n) /\ get_subshapes(n)' = get_subshapes(n)
         /\ IsFirst(n)' = IsFirst(n)
<1>1. TopOf(n)' = TopOf(n)
  BY NodesGrow
<1>2. n[1] \in DOMAIN trees
  BY NodeHasATop
<1>3. trees'[n[1]] = trees[n[1]]
  BY <1>2, TreesGrow
<1> QED
  BY <1>1, <1>3 DEF Below, get_subshapes, IsFirst

LEMMA MadeByStays ==
  ASSUME trees \in Seq(Top), NEW t \in Top, trees' = Append(trees, t), NEW mk,
         \A x \in ToSet(mk.inputs) : x \in Node, NEW u
  PROVE  MadeBy(mk, u)' = MadeBy(mk, u)
<1> DEFINE all == UNION {Below(n) : n \in ToSet(mk.inputs)}
<1>1. all' = all
  <2>1. \A x \in ToSet(mk.inputs) : Below(x)' = Below(x)
    BY BelowStays
  <2> QED
    BY <2>1
<1>2. \A m \in all : m \in Node
  BY BelowIsBelow
<1>3. \A m \in all : TopOf(m)' = TopOf(m)
  <2> HIDE DEF all
  <2> QED
    BY <1>2, NodesGrow
<1>4. MadeBy(mk, u) = {m \in all : TopOf(m) = u \/ u \in mk.algorithm.modified[TopOf(m)]}
  BY DEF MadeBy
<1>5. MadeBy(mk, u)' = {m \in all' : TopOf(m)' = u \/ u \in mk.algorithm.modified[TopOf(m)']}
  BY DEF MadeBy
<1> HIDE DEF all
<1> QED
  BY <1>1, <1>3, <1>4, <1>5

LEMMA MadeGrows ==
  ASSUME TreesOK, NEW mk, mk \in Make, made' = Append(made, mk), NEW t \in Top,
         trees' = Append(trees, t)
  PROVE  /\ made' \in Seq(Make) /\ Len(made') = Len(trees')
         /\ \A r \in DOMAIN trees : made'[r] = made[r] /\ InputsOf(r)' = InputsOf(r)
         /\ \A r : r = Len(trees) + 1 => made'[r] = mk /\ InputsOf(r)' = ToSet(mk.inputs)
<1>1. trees \in Seq(Top) /\ made \in Seq(Make) /\ Len(made) = Len(trees)
  BY DEF TreesOK
<1>2. made' \in Seq(Make) /\ Len(made') = Len(trees')
  BY <1>1
<1>3. \A r \in DOMAIN trees : made'[r] = made[r]
  BY <1>1
<1>4. made'[Len(trees) + 1] = mk
  BY <1>1
<1>5. \A r \in DOMAIN trees : InputsOf(r)' = InputsOf(r)
  BY <1>3 DEF InputsOf
<1>6. \A r : r = Len(trees) + 1 => made'[r] = mk /\ InputsOf(r)' = ToSet(mk.inputs)
  BY <1>4 DEF InputsOf
<1> QED
  BY <1>2, <1>3, <1>5, <1>6

LEMMA HistoryGrows ==
  ASSUME HistoryInv, NEW t \in Top, NEW mk \in Make, NEW new, Grows(t, mk, new),
         \A x \in ToSet(mk.inputs) : x \in Node,
         \A n \in NewNodes(t) : new[n] \subseteq MadeBy(mk, TopAt[t][n[2]]),
         \A n \in NewNodes(t) : n[2] \in FirstPaths[t] =>
           \A x \in ToSet(mk.inputs) :
             get_subshapes(x) \cap MadeBy(mk, TopAt[t][n[2]]) \subseteq new[n]
  PROVE  HistoryInv'
<1>1. TreesOK /\ InputsOK /\ OriginsOK /\ trees \in Seq(Top)
  BY DEF HistoryInv, TreesOK
<1>2. trees' = Append(trees, t) /\ made' = Append(made, mk)
  BY DEF Grows
<1>3. TreesOK'
  BY <1>1, <1>2, TreesGrow, MadeGrows, OriginsGrow DEF TreesOK
<1>4. Node' = Node \cup NewNodes(t)
  BY <1>1, <1>2, NodesGrow
<1>0. PICK last : last = Len(trees) + 1
  OBVIOUS
<1>5. \A r \in DOMAIN trees : made'[r] = made[r] /\ InputsOf(r)' = InputsOf(r)
  BY <1>1, <1>2, MadeGrows
<1>6. made'[last] = mk /\ InputsOf(last)' = ToSet(mk.inputs)
  BY <1>0, <1>1, <1>2, MadeGrows
<1>7. InputsOK'
  <2>1. ASSUME NEW r \in DOMAIN trees', NEW x \in InputsOf(r)'
        PROVE  x \in Node' /\ x[1] < r
    <3>1. CASE r \in DOMAIN trees
      BY <1>1, <1>4, <1>5, <2>1, <3>1 DEF InputsOK
    <3>2. CASE r = last
      <4>1. x \in Node
        BY <1>6, <2>1, <3>2
      <4>2. x[1] \in 1 .. Len(trees)
        BY <1>1, <4>1, NodeHasATop
      <4> QED
        BY <1>0, <1>1, <1>4, <3>2, <4>1, <4>2
    <3> QED
      BY <1>0, <1>1, <1>2, <3>1, <3>2, TreesGrow
  <2> QED
    BY <2>1 DEF InputsOK
<1>8. ASSUME NEW r \in DOMAIN trees', NEW u
      PROVE  MadeOf(r, u)' = MadeBy(made'[r], u)
  <2>1. MadeOf(r, u)' = MadeBy(made[r], u)'
    BY DEF MadeOf, MadeBy, InputsOf
  <2>2. \A x \in ToSet(made'[r].inputs) : x \in Node
    <3>1. CASE r \in DOMAIN trees
      BY <1>1, <1>5, <3>1 DEF InputsOK, InputsOf
    <3>2. CASE r = last
      BY <1>6, <3>2
    <3> QED
      BY <1>0, <1>1, <1>2, <3>1, <3>2, TreesGrow
  <2>3. PICK k : k = made'[r]
    OBVIOUS
  <2>4. MadeBy(k, u)' = MadeBy(k, u)
    BY <1>1, <1>2, <2>2, <2>3, MadeByStays
  <2>5. MadeBy(made[r], u)' = MadeBy(k, u)'
    BY <2>3 DEF MadeBy
  <2> QED
    BY <2>1, <2>3, <2>4, <2>5
<1>9. ASSUME NEW n \in Node
      PROVE  OriginsOf(n)'
  <2>1. OriginsOf(n)
    BY <1>1 DEF OriginsOK
  <2>2. n[1] \in DOMAIN trees /\ n[1] \in DOMAIN trees'
    BY <1>1, <1>2, NodeHasATop, TreesGrow
  <2>3. TopOf(n)' = TopOf(n) /\ origins'[n] = origins[n] /\ IsFirst(n)' = IsFirst(n)
    BY <1>1, <1>2, NodesGrow, OriginsGrow, BelowStays
  <2>4. MadeOf(n[1], TopOf(n))' = MadeOf(n[1], TopOf(n))
    <3>1. PICK u : u = TopOf(n)
      OBVIOUS
    <3>2. MadeOf(n[1], u)' = MadeOf(n[1], u)
      BY <1>5, <1>8, <2>2, MadeOfIsMadeBy
    <3>3. MadeOf(n[1], TopOf(n))' = MadeOf(n[1], u)'
      BY <2>3, <3>1 DEF MadeOf
    <3> QED
      BY <3>1, <3>2, <3>3
  <2>5. InputsOf(n[1])' = InputsOf(n[1])
    BY <1>5, <2>2
  <2>6. \A x \in InputsOf(n[1]) : get_subshapes(x)' = get_subshapes(x)
    <3>1. \A x \in InputsOf(n[1]) : x \in Node
      BY <1>1, <2>2 DEF InputsOK
    <3> QED
      BY <1>1, <1>2, <3>1, BelowStays
  <2>7. origins'[n] \subseteq MadeOf(n[1], TopOf(n))'
    BY <2>1, <2>3, <2>4 DEF OriginsOf
  <2>8. IsFirst(n)' => \A x \in InputsOf(n[1])' :
          get_subshapes(x)' \cap MadeOf(n[1], TopOf(n))' \subseteq origins'[n]
    BY <2>1, <2>3, <2>4, <2>5, <2>6 DEF OriginsOf
  <2> QED
    BY <2>7, <2>8 DEF OriginsOf
<1>10. ASSUME NEW n \in NewNodes(t)
       PROVE  OriginsOf(n)'
  <2>1. n[1] = last /\ last \in DOMAIN trees' /\ trees'[last] = t
    BY <1>0, <1>1, <1>2, NewNodesAre, TreesGrow
  <2>2. TopOf(n)' = TopAt[t][n[2]] /\ origins'[n] = new[n]
    BY <1>1, <1>2, NodesGrow, OriginsGrow
  <2>3. IsFirst(n)' <=> n[2] \in FirstPaths[t]
    BY <2>1 DEF IsFirst
  <2>4. MadeOf(n[1], TopOf(n))' = MadeBy(mk, TopAt[t][n[2]])
    <3>1. PICK u : u = TopAt[t][n[2]]
      OBVIOUS
    <3>2. MadeOf(last, u)' = MadeBy(mk, u)
      BY <1>6, <1>8, <2>1
    <3>3. MadeOf(n[1], TopOf(n))' = MadeOf(last, u)'
      BY <2>1, <2>2, <3>1 DEF MadeOf
    <3> QED
      BY <3>1, <3>2, <3>3
  <2>5. InputsOf(n[1])' = ToSet(mk.inputs)
    BY <1>6, <2>1 DEF InputsOf
  <2>6. \A x \in ToSet(mk.inputs) : get_subshapes(x)' = get_subshapes(x)
    BY <1>1, <1>2, BelowStays
  <2>7. origins'[n] \subseteq MadeOf(n[1], TopOf(n))'
    BY <2>2, <2>4
  <2>8. IsFirst(n)' => \A x \in InputsOf(n[1])' :
          get_subshapes(x)' \cap MadeOf(n[1], TopOf(n))' \subseteq origins'[n]
    BY <2>2, <2>3, <2>4, <2>5, <2>6
  <2> QED
    BY <2>7, <2>8 DEF OriginsOf
<1>11. OriginsOK'
  BY <1>4, <1>9, <1>10 DEF OriginsOK
<1> QED
  BY <1>3, <1>7, <1>11 DEF HistoryInv

LEMMA WrapKeepsHistory ==
  ASSUME HistoryInv, NEW t \in Sources, Wrap(t)
  PROVE  HistoryInv'
<1> DEFINE mk == [inputs |-> <<>>]
           new == Fresh(t, {})
<1>1. t \in Top /\ mk \in Make
  BY PartAssumption DEF Make
<1>2. new \in [NewNodes(t) -> SUBSET Node] /\ \A n \in NewNodes(t) : new[n] = {}
  BY DEF Fresh
<1>3. Grows(t, mk, new)
  BY <1>2 DEF Wrap, Grows
<1>4. ToSet(mk.inputs) = {}
  BY DEF ToSet
<1> HIDE DEF mk, new
<1> QED
  BY <1>1, <1>2, <1>3, <1>4, HistoryGrows

LEMMA TwoInputs ==
  ASSUME NEW x, NEW y
  PROVE  /\ ToSet(<<x, y>>) = {x, y} /\ DOMAIN <<x, y>> = {1, 2}
         /\ <<x, y>>[1] = x /\ <<x, y>>[2] = y
BY DEF ToSet

LEMMA MappedSubshapes ==
  ASSUME NEW a \in Algorithms, NEW x, NEW y, NEW n \in NewNodes(a.result)
  PROVE  map_subshapes(a, <<x, y>>)[n] =
           IF n[2] \in FirstPaths[a.result]
             THEN {m \in get_subshapes(x) \cup get_subshapes(y) :
                     ComesFrom(a, TopAt[a.result][n[2]], TopOf(m))}
             ELSE {}
<1> DEFINE in == <<x, y>>
<1>1. UNION {get_subshapes(in[i]) : i \in DOMAIN in} = get_subshapes(x) \cup get_subshapes(y)
  <2>1. {get_subshapes(in[i]) : i \in {1, 2}} = {get_subshapes(x), get_subshapes(y)}
    OBVIOUS
  <2>2. DOMAIN in = {1, 2}
    OBVIOUS
  <2> QED
    BY <2>1, <2>2
<1> HIDE DEF in
<1>2. map_subshapes(a, in)[n] =
        IF n[2] \in FirstPaths[a.result]
          THEN {m \in UNION {get_subshapes(in[i]) : i \in DOMAIN in} :
                  ComesFrom(a, TopAt[a.result][n[2]], TopOf(m))}
          ELSE {}
  BY DEF map_subshapes
<1>3. map_subshapes(a, in)[n] =
        IF n[2] \in FirstPaths[a.result]
          THEN {m \in get_subshapes(x) \cup get_subshapes(y) :
                  ComesFrom(a, TopAt[a.result][n[2]], TopOf(m))}
          ELSE {}
  BY <1>1, <1>2
<1> QED
  BY <1>3 DEF in

LEMMA ValueKeepsHistory ==
  ASSUME HistoryInv, NEW a \in Algorithms, NEW x \in Node, NEW y \in Node, value(a, <<x, y>>)
  PROVE  HistoryInv' /\ Grows(a.result, [inputs |-> <<x, y>>, algorithm |-> a], map_subshapes(a, <<x, y>>))
<1> DEFINE mk == [inputs |-> <<x, y>>, algorithm |-> a]
           new == map_subshapes(a, <<x, y>>)
           t == a.result
<1>1. trees \in Seq(Top)
  BY DEF HistoryInv, TreesOK
<1>2. x \in AnyNode /\ y \in AnyNode
  BY <1>1, NodeHasATop
<1>3. mk \in Make
  BY <1>2 DEF Make
<1>4. t \in Top
  BY AlgorithmsAssumption DEF IsAlgorithm
<1>5. mk.inputs = <<x, y>> /\ mk.algorithm = a /\ ToSet(mk.inputs) = {x, y}
  BY TwoInputs
<1>6. /\ get_subshapes(x) \subseteq Node /\ get_subshapes(x) \subseteq Below(x)
      /\ get_subshapes(y) \subseteq Node /\ get_subshapes(y) \subseteq Below(y)
  BY <1>1, BelowIsBelow
<1>14. \A n \in NewNodes(t) :
         new[n] = IF n[2] \in FirstPaths[t]
                    THEN {m \in get_subshapes(x) \cup get_subshapes(y) :
                            ComesFrom(a, TopAt[t][n[2]], TopOf(m))}
                    ELSE {}
  BY MappedSubshapes
<1>7. new \in [NewNodes(t) -> SUBSET Node]
  <2>1. \A n \in NewNodes(t) : new[n] \in SUBSET Node
    <3> HIDE DEF new, t
    <3> QED
      BY <1>6, <1>14
  <2>2. DOMAIN new = NewNodes(t) /\ new = [n \in NewNodes(t) |-> new[n]]
    BY DEF map_subshapes
  <2> HIDE DEF new
  <2> QED
    BY <2>1, <2>2
<1>8. Grows(t, mk, new)
  BY <1>7 DEF value, Grows
<1>9. \A u : MadeBy(mk, u) = {m \in Below(x) \cup Below(y) : ComesFrom(a, u, TopOf(m))}
  <2>1. UNION {Below(n) : n \in ToSet(mk.inputs)} = Below(x) \cup Below(y)
    BY <1>5
  <2> QED
    BY <1>5, <2>1 DEF MadeBy, ComesFrom
<1>10. \A n \in NewNodes(t) : new[n] \subseteq MadeBy(mk, TopAt[t][n[2]])
  <2> SUFFICES ASSUME NEW n \in NewNodes(t)
               PROVE  new[n] \subseteq MadeBy(mk, TopAt[t][n[2]])
    OBVIOUS
  <2> HIDE DEF mk, new, t
  <2> QED
    BY <1>6, <1>9, <1>14
<1>11. \A n \in NewNodes(t) : n[2] \in FirstPaths[t] =>
         \A z \in ToSet(mk.inputs) :
           get_subshapes(z) \cap MadeBy(mk, TopAt[t][n[2]]) \subseteq new[n]
  <2> SUFFICES ASSUME NEW n \in NewNodes(t), n[2] \in FirstPaths[t]
               PROVE  \A z \in {x, y} :
                        get_subshapes(z) \cap MadeBy(mk, TopAt[t][n[2]]) \subseteq new[n]
    BY <1>5
  <2> HIDE DEF mk, new, t
  <2>1. MadeBy(mk, TopAt[t][n[2]]) =
          {m \in Below(x) \cup Below(y) : ComesFrom(a, TopAt[t][n[2]], TopOf(m))}
    BY <1>9
  <2>2. new[n] = {m \in get_subshapes(x) \cup get_subshapes(y) :
                    ComesFrom(a, TopAt[t][n[2]], TopOf(m))}
    BY <1>14
  <2> QED
    BY <2>1, <2>2
<1> HIDE DEF mk, new, t
<1>12. \A z \in ToSet(mk.inputs) : z \in Node
  BY <1>5
<1>13. HistoryInv'
  BY <1>3, <1>4, <1>8, <1>10, <1>11, <1>12, HistoryGrows
<1> QED
  BY <1>8, <1>13 DEF mk, new, t

LEMMA HistoryStays ==
  ASSUME HistoryInv, UNCHANGED <<trees, origins, made>>
  PROVE  HistoryInv'
<1>1. Node' = Node
  BY DEF Node, NodesOf
<1>2. \A n : TopOf(n)' = TopOf(n) /\ (IsFirst(n)' <=> IsFirst(n))
  BY DEF TopOf, IsFirst
<1>3. \A n : Below(n)' = Below(n) /\ get_subshapes(n)' = get_subshapes(n)
  BY <1>2 DEF Below, get_subshapes
<1>4. \A r : InputsOf(r)' = InputsOf(r)
  BY DEF InputsOf
<1>5. \A r, t : MadeOf(r, t)' = MadeOf(r, t)
  BY <1>2, <1>3, <1>4 DEF MadeOf
<1>6. \A n : MadeOf(n[1], TopOf(n))' = MadeOf(n[1], TopOf(n))
  BY <1>2, <1>3, <1>4 DEF MadeOf
<1>7. TreesOK'
  BY <1>1 DEF HistoryInv, TreesOK
<1>8. InputsOK'
  BY <1>1, <1>4 DEF HistoryInv, InputsOK
<1>9. \A n : OriginsOf(n) => OriginsOf(n)'
  BY <1>2, <1>3, <1>4, <1>6 DEF OriginsOf
<1>10. OriginsOK'
  BY <1>1, <1>9 DEF HistoryInv, OriginsOK
<1> QED
  BY <1>7, <1>8, <1>10 DEF HistoryInv

LEMMA HistoryAlways == Spec => []HistoryInv
<1>1. Init => HistoryInv
  <2> SUFFICES ASSUME Init PROVE HistoryInv
    OBVIOUS
  <2>1. trees = <<>> /\ made = <<>> /\ DOMAIN trees = {} /\ origins = [n \in {} |-> {}]
    BY DEF Init
  <2>2. Node = {}
    BY <2>1 DEF Node
  <2>3. TreesOK
    BY <2>1, <2>2 DEF TreesOK
  <2> QED
    BY <2>1, <2>2, <2>3 DEF HistoryInv, InputsOK, OriginsOK
<1>2. HistoryInv /\ [Next]_vars => HistoryInv'
  <2> SUFFICES ASSUME HistoryInv, [Next]_vars PROVE HistoryInv'
    OBVIOUS
  <2>1. CASE \E t \in Sources : Wrap(t)
    BY <2>1, WrapKeepsHistory
  <2>2. CASE \E n \in Node :
               \/ apply_tag_tracks(n)
               \/ \E tag \in Tags :
                    \/ add_meta_tag(n, tag)
                    \/ \E of \in Targets : \/ add_meta_tag_to_subshapes(n, of, tag)
                                           \/ \E life \in Lives : add_tag_track(n, tag, of, life)
    <3>1. UNCHANGED <<trees, origins, made>>
      BY <2>2 DEF apply_tag_tracks, add_meta_tag, add_meta_tag_to_subshapes, add_tag_track
    <3> QED
      BY <3>1, HistoryStays
  <2>3. CASE \E a \in Algorithms :
               \E x \in Candidates(a.inputs[1]), y \in Candidates(a.inputs[2]) : value(a, <<x, y>>)
    <3>1. PICK a \in Algorithms, x \in Node, y \in Node : value(a, <<x, y>>)
      BY <2>3 DEF Candidates
    <3> QED
      BY <3>1, ValueKeepsHistory
  <2>4. CASE Finished \/ UNCHANGED vars
    BY <2>4, HistoryStays DEF Finished, vars
  <2> QED
    BY <2>1, <2>2, <2>3, <2>4 DEF Next
<1> QED
  BY <1>1, <1>2, PTL DEF Spec

-----------------------------------------------------------------------------
(***************************************************************************)
(* The descent that the properties compare the histories with.             *)
(***************************************************************************)
AncestorsFrom(anc, r, t) ==
  {<<t, 0>>} \cup {<<p[1], p[2] + 1>> : p \in UNION {anc[<<m[1], TopOf(m)>>] : m \in MadeOf(r, t)}}

LEMMA InputsAreOlder ==
  ASSUME HistoryInv, NEW r \in DOMAIN trees, NEW t, NEW m \in MadeOf(r, t)
  PROVE  /\ r \in Nat /\ r \in 1 .. Len(trees)
         /\ m \in Node /\ m[1] \in DOMAIN trees /\ m[1] \in Nat /\ m[1] < r /\ TopOf(m) \in Top
<1>1. trees \in Seq(Top) /\ InputsOK
  BY DEF HistoryInv, TreesOK
<1>2. m \in Node /\ m[1] < r
  BY <1>1, MadeOfAreNodes
<1>3. m[1] \in DOMAIN trees /\ m[1] \in 1 .. Len(trees) /\ TopOf(m) \in Top
  BY <1>1, <1>2, NodeHasATop
<1> QED
  BY <1>1, <1>2, <1>3

LEMMA AncestorsAre ==
  ASSUME HistoryInv
  PROVE  \A r \in DOMAIN trees : \A t \in Top :
           /\ Ancestors[<<r, t>>] = AncestorsFrom(Ancestors, r, t)
           /\ Ancestors[<<r, t>>] \in SUBSET (Top \X Nat)
<1> DEFINE D == (DOMAIN trees) \X Top
           S == SUBSET (Top \X Nat)
           G == [D -> S]
           rank == [x \in D |-> x[1]]
           F == [g \in G |-> [x \in D |-> AncestorsFrom(g, x[1], x[2])]]
           Runs(f) == f = [x \in D |-> AncestorsFrom(f, x[1], x[2])]
           anc == CHOOSE f : Runs(f)
<1>1. trees \in Seq(Top) /\ DOMAIN made = DOMAIN trees /\ Len(trees) \in Nat
  <2>1. trees \in Seq(Top) /\ made \in Seq(Make) /\ Len(made) = Len(trees)
    BY DEF HistoryInv, TreesOK
  <2> QED
    BY <2>1
<1>2. rank \in [D -> 0 .. Len(trees)]
  BY <1>1
<1>3. \A x \in D : \A m \in MadeOf(x[1], x[2]) :
        <<m[1], TopOf(m)>> \in D /\ rank[<<m[1], TopOf(m)>>] < rank[x]
  BY InputsAreOlder
<1>4. F \in [G -> G]
  <2>1. ASSUME NEW g \in G, NEW x \in D
        PROVE  AncestorsFrom(g, x[1], x[2]) \in S
    <3>1. \A m \in MadeOf(x[1], x[2]) : g[<<m[1], TopOf(m)>>] \in S
      BY <1>3
    <3>2. \A p \in UNION {g[<<m[1], TopOf(m)>>] : m \in MadeOf(x[1], x[2])} :
            <<p[1], p[2] + 1>> \in Top \X Nat
      <4> SUFFICES ASSUME NEW m \in MadeOf(x[1], x[2]), NEW p \in g[<<m[1], TopOf(m)>>]
                   PROVE  <<p[1], p[2] + 1>> \in Top \X Nat
        OBVIOUS
      <4>1. p \in Top \X Nat
        BY <3>1
      <4> QED
        BY <4>1
    <3>3. <<x[2], 0>> \in Top \X Nat
      OBVIOUS
    <3> QED
      BY <3>2, <3>3 DEF AncestorsFrom
  <2> HIDE DEF D, S
  <2> QED
    BY <2>1
<1>5. ASSUME NEW x \in D, NEW g \in G, NEW h \in G,
             \A u \in D : rank[u] < rank[x] => g[u] = h[u]
      PROVE  F[g][x] = F[h][x]
  <2>1. \A m \in MadeOf(x[1], x[2]) : g[<<m[1], TopOf(m)>>] = h[<<m[1], TopOf(m)>>]
    BY <1>3, <1>5
  <2>2. UNION {g[<<m[1], TopOf(m)>>] : m \in MadeOf(x[1], x[2])} =
        UNION {h[<<m[1], TopOf(m)>>] : m \in MadeOf(x[1], x[2])}
    BY <2>1
  <2>3. AncestorsFrom(g, x[1], x[2]) = AncestorsFrom(h, x[1], x[2])
    BY <2>2, Zenon DEF AncestorsFrom
  <2> HIDE DEF D, S
  <2> QED
    BY <2>3
<1>6. S # {}
  OBVIOUS
<1>7. PICK f \in G : F[f] = f
  <2> HIDE DEF D, S, F, rank
  <2>1. Recursion(F, D, S, rank, Len(trees))
    BY <1>1, <1>2, <1>4, <1>5, <1>6 DEF Recursion
  <2>2. HasSolution(F, D, S)
    BY <2>1, RecursionRuns
  <2> QED
    BY <2>2 DEF HasSolution
<1>8. Runs(f)
  BY <1>7
<1>9. Runs(anc)
  <2> HIDE DEF Runs
  <2> QED
    BY <1>8
<1>10. Ancestors = anc
  BY <1>1 DEF Ancestors, AncestorsFrom
<1> HIDE DEF anc
<1>11. \A x \in D : Ancestors[x] = AncestorsFrom(Ancestors, x[1], x[2])
  BY <1>9, <1>10
<1>12. ASSUME NEW r \in DOMAIN trees, NEW t \in Top
       PROVE  Ancestors[<<r, t>>] = AncestorsFrom(Ancestors, r, t)
  <2>1. <<r, t>> \in D /\ <<r, t>>[1] = r /\ <<r, t>>[2] = t
    OBVIOUS
  <2> HIDE DEF D
  <2>2. Ancestors[<<r, t>>] = AncestorsFrom(Ancestors, <<r, t>>[1], <<r, t>>[2])
    BY <1>11, <2>1
  <2> QED
    BY <2>1, <2>2
<1> DEFINE Good == {k \in 0 .. Len(trees) :
                      \A x \in D : x[1] <= k => Ancestors[x] \in S}
<1>13. 0 \in Good
  BY <1>1
<1>14. ASSUME NEW k \in 0 .. Len(trees) - 1, k \in Good
       PROVE  k + 1 \in Good
  <2>1. ASSUME NEW x \in D, x[1] <= k + 1
        PROVE  Ancestors[x] \in S
    <3>1. ASSUME NEW m \in MadeOf(x[1], x[2])
          PROVE  Ancestors[<<m[1], TopOf(m)>>] \in S
      <4>1. m[1] \in Nat /\ m[1] < x[1] /\ x[1] \in Nat /\ <<m[1], TopOf(m)>> \in D
        BY InputsAreOlder
      <4>2. m[1] <= k
        BY <2>1, <4>1
      <4> QED
        BY <1>14, <4>1, <4>2
    <3>2. \A p \in UNION {Ancestors[<<m[1], TopOf(m)>>] : m \in MadeOf(x[1], x[2])} :
            <<p[1], p[2] + 1>> \in Top \X Nat
      <4> SUFFICES ASSUME NEW m \in MadeOf(x[1], x[2]), NEW p \in Ancestors[<<m[1], TopOf(m)>>]
                   PROVE  <<p[1], p[2] + 1>> \in Top \X Nat
        OBVIOUS
      <4>1. p \in Top \X Nat
        BY <3>1
      <4> QED
        BY <4>1
    <3>3. <<x[2], 0>> \in Top \X Nat
      OBVIOUS
    <3>4. AncestorsFrom(Ancestors, x[1], x[2]) \in S
      BY <3>2, <3>3 DEF AncestorsFrom
    <3> QED
      BY <1>11, <3>4
  <2>2. k + 1 \in 0 .. Len(trees)
    BY <1>1
  <2> HIDE DEF D, S
  <2> QED
    BY <2>1, <2>2
<1> HIDE DEF Good
<1>15. 0 .. Len(trees) \subseteq Good
  BY <1>1, <1>13, <1>14, Climb, Zenon
<1>16. Len(trees) \in Good
  BY <1>1, <1>15
<1>17. ASSUME NEW r \in DOMAIN trees, NEW t \in Top
       PROVE  Ancestors[<<r, t>>] \in S
  <2>1. <<r, t>> \in D /\ <<r, t>>[1] = r /\ r <= Len(trees)
    BY <1>1
  <2> HIDE DEF D, S
  <2> QED
    BY <1>16, <2>1 DEF Good
<1> QED
  BY <1>12, <1>17

\* An ancestor of a node is its own top or an ancestor of a node it was made of.
LEMMA AncestorCases ==
  ASSUME HistoryInv, NEW n \in Node, NEW p
  PROVE  p \in Ancestors[<<n[1], TopOf(n)>>] <=>
           \/ p = <<TopOf(n), 0>>
           \/ \E m \in MadeOf(n[1], TopOf(n)) : \E q \in Ancestors[<<m[1], TopOf(m)>>] :
                p = <<q[1], q[2] + 1>>
<1>1. n[1] \in DOMAIN trees /\ TopOf(n) \in Top
  BY NodeHasATop DEF HistoryInv, TreesOK
<1>2. Ancestors[<<n[1], TopOf(n)>>] = AncestorsFrom(Ancestors, n[1], TopOf(n))
  BY <1>1, AncestorsAre
<1>3. p \in AncestorsFrom(Ancestors, n[1], TopOf(n)) <=>
        \/ p = <<TopOf(n), 0>>
        \/ \E q \in UNION {Ancestors[<<m[1], TopOf(m)>>] : m \in MadeOf(n[1], TopOf(n))} :
             p = <<q[1], q[2] + 1>>
  BY DEF AncestorsFrom
<1> QED
  BY <1>2, <1>3

-----------------------------------------------------------------------------
LEMMA ReachOfOrigins ==
  ASSUME HistoryInv, NEW n \in Node, NEW d \in Nat
  PROVE  /\ History(n, 0) = {n} /\ History(n, d) \in SUBSET Node /\ origins[n] \in SUBSET Node
         /\ History(n, d + 1) = {n} \cup UNION {History(m, d) : m \in origins[n]}
<1>1. origins \in [Node -> SUBSET Node]
  BY DEF HistoryInv, TreesOK
<1>2. /\ Reach(origins, n, 0) = {n} /\ Reach(origins, n, d) \in SUBSET Node
      /\ Reach(origins, n, d + 1) = {n} \cup UNION {Reach(origins, m, d) : m \in origins[n]}
  BY <1>1, ReachSteps, ReachFromTheFront
<1>3. \A x, k : History(x, k) = Reach(origins, x, k)
  BY HistoryIsReach
<1> QED
  BY <1>1, <1>2, <1>3

\* What a search finds is an ancestor.
LEMMA FoundIsAncestor ==
  ASSUME HistoryInv
  PROVE  DescentIsTrue
<1> DEFINE Claims(n, d) == \A m \in History(n, d) :
                             \E p \in Ancestors[<<n[1], TopOf(n)>>] : p[1] = TopOf(m) /\ p[2] <= d
           Good == {d \in 0 .. Len(trees) : \A n \in Node : Claims(n, d)}
<1>1. trees \in Seq(Top) /\ Len(trees) \in Nat /\ OriginsOK
  <2>1. trees \in Seq(Top) /\ OriginsOK
    BY DEF HistoryInv, TreesOK
  <2> QED
    BY <2>1
<1>2. 0 \in Good
  <2>1. ASSUME NEW n \in Node
        PROVE  Claims(n, 0)
    <3>1. History(n, 0) = {n}
      BY ReachOfOrigins
    <3>2. <<TopOf(n), 0>> \in Ancestors[<<n[1], TopOf(n)>>]
      BY AncestorCases
    <3> QED
      BY <3>1, <3>2
  <2> HIDE DEF Claims
  <2> QED
    BY <1>1, <2>1
<1>3. ASSUME NEW d \in 0 .. Len(trees) - 1, d \in Good
      PROVE  d + 1 \in Good
  <2>1. d \in Nat /\ d + 1 \in 0 .. Len(trees)
    BY <1>1
  <2>2. ASSUME NEW n \in Node, NEW x \in History(n, d + 1)
        PROVE  \E p \in Ancestors[<<n[1], TopOf(n)>>] : p[1] = TopOf(x) /\ p[2] <= d + 1
    <3>1. x = n \/ \E m \in origins[n] : x \in History(m, d)
      BY <2>1, ReachOfOrigins
    <3>2. CASE x = n
      <4>1. <<TopOf(n), 0>> \in Ancestors[<<n[1], TopOf(n)>>]
        BY AncestorCases
      <4> QED
        BY <2>1, <3>2, <4>1
    <3>3. ASSUME NEW m \in origins[n], x \in History(m, d)
          PROVE  \E p \in Ancestors[<<n[1], TopOf(n)>>] : p[1] = TopOf(x) /\ p[2] <= d + 1
      <4>1. m \in MadeOf(n[1], TopOf(n)) /\ m \in Node
        BY <1>1, <2>1, ReachOfOrigins DEF OriginsOK, OriginsOf
      <4>2. PICK p \in Ancestors[<<m[1], TopOf(m)>>] : p[1] = TopOf(x) /\ p[2] <= d
        BY <1>3, <3>3, <4>1
      <4>3. <<p[1], p[2] + 1>> \in Ancestors[<<n[1], TopOf(n)>>]
        BY <4>1, AncestorCases
      <4>4. p[2] \in Nat
        <5>1. m[1] \in DOMAIN trees /\ TopOf(m) \in Top
          BY <1>1, <4>1, NodeHasATop
        <5>2. p \in Top \X Nat
          BY <5>1, AncestorsAre
        <5> QED
          BY <5>2
      <4> QED
        BY <2>1, <4>2, <4>3, <4>4
    <3> QED
      BY <3>1, <3>2, <3>3
  <2> QED
    BY <2>1, <2>2
<1> HIDE DEF Good
<1>4. 0 .. Len(trees) \subseteq Good
  BY <1>1, <1>2, <1>3, Climb, Zenon
<1> QED
  BY <1>4 DEF Good, DescentIsTrue

\* However shapes are cut, joined and tagged, is_descendent_of claims no
\* descent that OpenCASCADE did not report, and none of fewer operations.
THEOREM HistoriesAreTrue == Spec => []DescentIsTrue
<1>1. HistoryInv => DescentIsTrue
  BY FoundIsAncestor
<1> QED
  BY <1>1, HistoryAlways, PTL

-----------------------------------------------------------------------------
(***************************************************************************)
(* Whole shapes forget nothing.                                            *)
(***************************************************************************)
WholeFrom(whole, r) == \A n \in InputsOf(r) : n[2] = <<>> /\ whole[n[1]]

LEMMA InputsAreNodes ==
  ASSUME HistoryInv, NEW r \in DOMAIN trees, NEW n \in InputsOf(r)
  PROVE  /\ r \in Nat /\ r \in 0 .. Len(trees)
         /\ n \in Node /\ n[1] \in DOMAIN trees /\ n[1] \in Nat /\ n[1] < r
<1>1. trees \in Seq(Top) /\ InputsOK
  BY DEF HistoryInv, TreesOK
<1>2. n \in Node /\ n[1] < r
  BY <1>1 DEF InputsOK
<1>3. n[1] \in DOMAIN trees /\ n[1] \in 1 .. Len(trees)
  BY <1>1, <1>2, NodeHasATop
<1> QED
  BY <1>1, <1>2, <1>3

LEMMA MadeLikeTrees ==
  ASSUME HistoryInv
  PROVE  /\ trees \in Seq(Top) /\ DOMAIN made = DOMAIN trees /\ Len(trees) \in Nat
         /\ [r \in DOMAIN trees |-> r] \in [DOMAIN trees -> 0 .. Len(trees)]
<1>1. trees \in Seq(Top) /\ made \in Seq(Make) /\ Len(made) = Len(trees)
  BY DEF HistoryInv, TreesOK
<1> QED
  BY <1>1

LEMMA WholeIs ==
  ASSUME HistoryInv
  PROVE  \A r \in DOMAIN trees : Whole[r] <=> WholeFrom(Whole, r)
<1> DEFINE D == DOMAIN trees
           S == BOOLEAN
           G == [D -> S]
           rank == [r \in D |-> r]
           F == [g \in G |-> [r \in D |-> WholeFrom(g, r)]]
           Runs(f) == f = [r \in D |-> WholeFrom(f, r)]
           whole == CHOOSE f : Runs(f)
<1>1. DOMAIN made = D /\ rank \in [D -> 0 .. Len(trees)] /\ Len(trees) \in Nat
  BY MadeLikeTrees
<1>2. F \in [G -> G]
  <2>1. \A g \in G : \A r \in D : WholeFrom(g, r) \in S
    BY DEF WholeFrom
  <2> HIDE DEF D, S
  <2> QED
    BY <2>1
<1>3. ASSUME NEW r \in D, NEW g \in G, NEW h \in G,
             \A u \in D : rank[u] < rank[r] => g[u] = h[u]
      PROVE  F[g][r] = F[h][r]
  <2>1. \A n \in InputsOf(r) : g[n[1]] = h[n[1]]
    BY <1>3, InputsAreNodes
  <2>2. WholeFrom(g, r) = WholeFrom(h, r)
    BY <2>1, Zenon DEF WholeFrom
  <2> HIDE DEF D, S
  <2> QED
    BY <2>2
<1>4. S # {}
  OBVIOUS
<1>5. PICK f \in G : F[f] = f
  <2> HIDE DEF D, S, F, rank
  <2>1. Recursion(F, D, S, rank, Len(trees))
    BY <1>1, <1>2, <1>3, <1>4 DEF Recursion
  <2>2. HasSolution(F, D, S)
    BY <2>1, RecursionRuns
  <2> QED
    BY <2>2 DEF HasSolution
<1>6. Runs(f)
  BY <1>5
<1>7. Runs(whole)
  <2> HIDE DEF Runs
  <2> QED
    BY <1>6
<1>8. Whole = whole
  BY <1>1 DEF Whole, WholeFrom
<1> HIDE DEF whole
<1> QED
  BY <1>7, <1>8

LEMMA WholeForgetsNothing ==
  ASSUME HistoryInv
  PROVE  DescentIsComplete
<1> DEFINE Knows(n) == (IsFirst(n) /\ Whole[n[1]]) =>
                         \A p \in Ancestors[<<n[1], TopOf(n)>>] :
                           \E m \in History(n, p[2]) : TopOf(m) = p[1]
           Good == {r \in 0 .. Len(trees) : \A n \in Node : n[1] <= r => Knows(n)}
<1>1. trees \in Seq(Top) /\ Len(trees) \in Nat /\ OriginsOK
  BY MadeLikeTrees DEF HistoryInv
<1>2. 0 \in Good
  <2>1. \A n \in Node : n[1] \in 1 .. Len(trees)
    BY <1>1, NodeHasATop
  <2> HIDE DEF Knows
  <2> QED
    BY <1>1, <2>1
<1>3. ASSUME NEW r \in 0 .. Len(trees) - 1, r \in Good
      PROVE  r + 1 \in Good
  <2>1. r \in Nat /\ r + 1 \in 0 .. Len(trees)
    BY <1>1
  <2>2. ASSUME NEW n \in Node, n[1] <= r + 1, IsFirst(n), Whole[n[1]],
               NEW p \in Ancestors[<<n[1], TopOf(n)>>]
        PROVE  \E m \in History(n, p[2]) : TopOf(m) = p[1]
    <3>1. CASE p = <<TopOf(n), 0>>
      <4>1. History(n, 0) = {n}
        BY ReachOfOrigins
      <4> QED
        BY <3>1, <4>1
    <3>2. ASSUME NEW m \in MadeOf(n[1], TopOf(n)), NEW q \in Ancestors[<<m[1], TopOf(m)>>],
                 p = <<q[1], q[2] + 1>>
          PROVE  \E o \in History(n, p[2]) : TopOf(o) = p[1]
      <4>1. n[1] \in DOMAIN trees /\ n[1] \in Nat
        BY <1>1, NodeHasATop
      <4>2. PICK x \in InputsOf(n[1]) : m \in Below(x)
        BY DEF MadeOf
      <4>3. x[2] = <<>> /\ Whole[x[1]]
        BY <2>2, <4>1, WholeIs DEF WholeFrom
      <4>4. x \in Node /\ x[1] \in Nat /\ x[1] < n[1] /\ x = <<x[1], x[2]>> /\ x[1] \in DOMAIN trees
        BY <1>1, <4>1, InputsAreNodes, NodeHasATop
      <4>5. TopOf(x) = trees[x[1]] /\ trees[x[1]] \in Top
        BY <1>1, <4>3, <4>4, NodeHasATop, TopOfTheRoot DEF TopOf
      <4>6. PICK b \in Paths[TopOf(x)] : m = <<x[1], x[2] \o b>>
        BY <4>2 DEF Below
      <4>7. TopOf(m) = TopAt[TopOf(x)][b]
        BY <1>1, <4>4, <4>6, BelowAreNodes
      <4>8. PICK f : IsTheFirst(TopOf(x), f) /\ TopAt[TopOf(x)][f] = TopOf(m)
        BY <4>5, <4>7, FirstsAreThere
      <4>9. f \in FirstPaths[TopOf(x)] /\ f \in Paths[TopOf(x)] /\ f \in Seq(Nat)
        BY <4>5, <4>8, FirstPathsAre, PathsAre DEF IsTheFirst
      <4>10. x[2] \o f = f
        BY <4>3, <4>9
      <4> DEFINE o == <<x[1], x[2] \o f>>
      <4>11. o \in get_subshapes(x) /\ o \in Below(x)
        BY <4>9 DEF get_subshapes, Below
      <4>12. o \in Node /\ TopOf(o) = TopOf(m) /\ o[1] = x[1] /\ o[2] = f
        <5>1. o \in Node /\ TopOf(o) = TopAt[TopOf(x)][f]
          BY <1>1, <4>4, <4>9, BelowAreNodes
        <5> QED
          BY <4>8, <4>10, <5>1
      <4> HIDE DEF o
      <4>13. m[1] = x[1]
        BY <4>6
      <4>14. o \in MadeOf(n[1], TopOf(n))
        BY <4>11, <4>12 DEF MadeOf
      <4>15. o \in origins[n]
        <5>1. OriginsOf(n)
          BY <1>1 DEF OriginsOK
        <5> QED
          BY <2>2, <4>11, <4>14, <5>1 DEF OriginsOf
      <4>16. IsFirst(o) /\ Whole[o[1]]
        BY <4>3, <4>5, <4>9, <4>12 DEF IsFirst
      <4>17. o[1] <= r
        BY <2>1, <2>2, <4>1, <4>4, <4>12
      <4>18. q \in Ancestors[<<o[1], TopOf(o)>>]
        BY <3>2, <4>12, <4>13
      <4>19. PICK y \in History(o, q[2]) : TopOf(y) = q[1]
        BY <1>3, <4>12, <4>16, <4>17, <4>18
      <4>20. q[2] \in Nat
        <5>1. q \in Top \X Nat
          BY <1>1, <4>4, <4>12, <4>18, AncestorsAre, NodeHasATop
        <5> QED
          BY <5>1
      <4>21. y \in History(n, q[2] + 1)
        BY <4>15, <4>19, <4>20, ReachOfOrigins
      <4> QED
        BY <3>2, <4>19, <4>21
    <3> QED
      BY <3>1, <3>2, AncestorCases
  <2> QED
    BY <2>1, <2>2
<1> HIDE DEF Good
<1>4. 0 .. Len(trees) \subseteq Good
  BY <1>1, <1>2, <1>3, Climb, Zenon
<1>5. \A n \in Node : Knows(n)
  <2>1. \A n \in Node : n[1] <= Len(trees)
    BY <1>1, NodeHasATop
  <2>2. Len(trees) \in Good
    BY <1>1, <1>4
  <2> HIDE DEF Knows
  <2> QED
    BY <2>1, <2>2 DEF Good
<1> QED
  BY <1>5 DEF DescentIsComplete, is_descendent_of

\* As long as whole shapes are cut and joined, the subshapes that get_subshapes
\* returns find all that OpenCASCADE made them of, at the depth where it is.
THEOREM HistoriesAreComplete == Spec => []DescentIsComplete
<1>1. HistoryInv => DescentIsComplete
  BY WholeForgetsNothing
<1> QED
  BY <1>1, HistoryAlways, PTL

-----------------------------------------------------------------------------
(***************************************************************************)
(* Tag tracks.                                                             *)
(***************************************************************************)
Track == [tag : Tags, of : Top, steps : Int, born : AnyNode, since : Nat, life : Int]

Worn(tt)     == [tt EXCEPT !.steps = @ - 1]
After(tt, k) == [tt EXCEPT !.steps = tt.life - k]

LEMMA WornTracks ==
  ASSUME NEW tt \in Track
  PROVE  /\ Worn(tt) \in Track /\ Worn(tt).steps = tt.steps - 1
         /\ Worn(tt).tag = tt.tag /\ Worn(tt).of = tt.of /\ Worn(tt).born = tt.born
         /\ Worn(tt).since = tt.since /\ Worn(tt).life = tt.life
BY DEF Track, Worn

LEMMA TracksAfter ==
  ASSUME NEW tt \in Track, NEW k \in Int
  PROVE  /\ After(tt, k) \in Track /\ After(tt, k).steps = tt.life - k
         /\ After(tt, k).tag = tt.tag /\ After(tt, k).of = tt.of /\ After(tt, k).born = tt.born
         /\ After(tt, k).since = tt.since /\ After(tt, k).life = tt.life
BY DEF Track, After

LEMMA SameTracks ==
  ASSUME NEW s \in Track, NEW t \in Track, s.tag = t.tag, s.of = t.of, s.steps = t.steps,
         s.born = t.born, s.since = t.since, s.life = t.life
  PROVE  s = t
BY DEF Track

LEMMA TracksWearOff ==
  ASSUME NEW tt \in Track, NEW k \in Int
  PROVE  /\ Worn(After(tt, k)) = After(tt, k + 1)
         /\ tt.steps = tt.life => Worn(tt) = After(tt, 1)
<1>1. tt.life \in Int
  BY DEF Track
<1>2. (tt.life - k) - 1 = tt.life - (k + 1) /\ k + 1 \in Int
  BY <1>1
<1>3. /\ Worn(After(tt, k)) \in Track /\ Worn(After(tt, k)).steps = (tt.life - k) - 1
      /\ Worn(After(tt, k)).tag = tt.tag /\ Worn(After(tt, k)).of = tt.of
      /\ Worn(After(tt, k)).born = tt.born /\ Worn(After(tt, k)).since = tt.since
      /\ Worn(After(tt, k)).life = tt.life
  BY TracksAfter, WornTracks
<1>4. Worn(After(tt, k)) = After(tt, k + 1)
  BY <1>2, <1>3, TracksAfter, SameTracks
<1>5. tt.steps = tt.life => Worn(tt) = After(tt, 1)
  BY TracksAfter, WornTracks, SameTracks
<1> QED
  BY <1>4, <1>5

LEMMA ToSets ==
  ASSUME NEW S, NEW s \in Seq(S), NEW t \in Seq(S), NEW e \in S
  PROVE  /\ ToSet(<<>>) = {} /\ ToSet(s) \in SUBSET S
         /\ ToSet(Append(s, e)) = ToSet(s) \cup {e}
         /\ ToSet(s \o t) = ToSet(s) \cup ToSet(t)
<1>1. ToSet(<<>>) = {} /\ ToSet(s) \in SUBSET S
  BY DEF ToSet
<1>2. ToSet(Append(s, e)) = ToSet(s) \cup {e}
  <2>1. /\ DOMAIN Append(s, e) = 1 .. Len(s) + 1 /\ DOMAIN s = 1 .. Len(s) /\ Len(s) \in Nat
        /\ Append(s, e)[Len(s) + 1] = e
        /\ \A i \in 1 .. Len(s) : Append(s, e)[i] = s[i]
    OBVIOUS
  <2>2. \A i : i \in 1 .. Len(s) + 1 <=> (i \in 1 .. Len(s) \/ i = Len(s) + 1)
    BY <2>1
  <2> DEFINE a == Append(s, e)
  <2> HIDE DEF a
  <2>3. ToSet(a) = ToSet(s) \cup {e}
    BY <2>1, <2>2 DEF ToSet, a
  <2> QED
    BY <2>3 DEF a
<1>3. ToSet(s \o t) = ToSet(s) \cup ToSet(t)
  <2> DEFINE a == s \o t
  <2>1. /\ DOMAIN a = 1 .. Len(s) + Len(t) /\ DOMAIN s = 1 .. Len(s) /\ DOMAIN t = 1 .. Len(t)
        /\ Len(s) \in Nat /\ Len(t) \in Nat
    OBVIOUS
  <2>2. \A i \in 1 .. Len(s) : a[i] = s[i]
    OBVIOUS
  <2>3. \A i \in 1 .. Len(t) : a[Len(s) + i] = t[i]
    OBVIOUS
  <2> HIDE DEF a
  <2>4. \A i \in 1 .. Len(s) : i \in DOMAIN a
    BY <2>1
  <2>5. \A i \in 1 .. Len(t) : Len(s) + i \in DOMAIN a
    BY <2>1
  <2>6. \A i \in DOMAIN a : i \in 1 .. Len(s) \/ \E j \in 1 .. Len(t) : i = Len(s) + j
    <3> SUFFICES ASSUME NEW i \in DOMAIN a, i \notin 1 .. Len(s)
                 PROVE  \E j \in 1 .. Len(t) : i = Len(s) + j
      OBVIOUS
    <3>1. i - Len(s) \in 1 .. Len(t) /\ i = Len(s) + (i - Len(s))
      BY <2>1
    <3> QED
      BY <3>1
  <2>7. \A x : x \in ToSet(a) <=> (x \in ToSet(s) \/ x \in ToSet(t))
    <3>1. ASSUME NEW x \in ToSet(a)
          PROVE  x \in ToSet(s) \/ x \in ToSet(t)
      <4>1. PICK i \in DOMAIN a : x = a[i]
        BY DEF ToSet
      <4>2. CASE i \in 1 .. Len(s)
        BY <2>1, <2>2, <4>1, <4>2 DEF ToSet
      <4>3. CASE \E j \in 1 .. Len(t) : i = Len(s) + j
        <5>1. PICK j \in 1 .. Len(t) : i = Len(s) + j
          BY <4>3
        <5>2. x = t[j]
          BY <2>3, <4>1, <5>1
        <5> QED
          BY <2>1, <5>2 DEF ToSet
      <4> QED
        BY <2>6, <4>2, <4>3
    <3>2. ToSet(s) \subseteq ToSet(a)
      BY <2>1, <2>2, <2>4 DEF ToSet
    <3>3. ToSet(t) \subseteq ToSet(a)
      <4>1. ASSUME NEW j \in 1 .. Len(t)
            PROVE  t[j] \in ToSet(a)
        <5>1. Len(s) + j \in DOMAIN a /\ a[Len(s) + j] = t[j]
          BY <2>3, <2>5
        <5> QED
          BY <5>1 DEF ToSet
      <4> QED
        BY <2>1, <4>1 DEF ToSet
    <3> QED
      BY <3>1, <3>2, <3>3
  <2>8. ToSet(a) = ToSet(s) \cup ToSet(t)
    BY <2>7
  <2> QED
    BY <2>8 DEF a
<1> QED
  BY <1>1, <1>2, <1>3

\* The tracks of the inputs, in the order of the inputs.
LEMMA MergedTracks ==
  ASSUME NEW x, NEW y, tracks[x] \in Seq(Track), tracks[y] \in Seq(Track)
  PROVE  /\ Merge(<<x, y>>) \in Seq(Track)
         /\ ToSet(Merge(<<x, y>>)) = ToSet(tracks[x]) \cup ToSet(tracks[y])
<1> DEFINE in == <<x, y>>
           S == Seq(Track)
           step == [i \in 1 .. 2 |-> [s \in S |-> s \o tracks[in[i]]]]
           Runs(f) == f = [i \in 0 .. Len(in) |-> IF i = 0 THEN <<>> ELSE f[i - 1] \o tracks[in[i]]]
           merged == CHOOSE f : Runs(f)
<1>1. Len(in) = 2 /\ in[1] = x /\ in[2] = y
  OBVIOUS
<1> HIDE DEF in
<1>2. \A i \in 1 .. 2 : tracks[in[i]] \in S
  <2>1. \A i \in 1 .. 2 : i = 1 \/ i = 2
    OBVIOUS
  <2> QED
    BY <1>1, <2>1
<1>3. <<>> \in S /\ step \in [1 .. 2 -> [S -> S]] /\ 2 \in Nat
  <2>1. \A i \in 1 .. 2 : \A s \in S : s \o tracks[in[i]] \in S
    <3> SUFFICES ASSUME NEW i \in 1 .. 2, NEW s \in S
                 PROVE  s \o tracks[in[i]] \in S
      OBVIOUS
    <3>1. tracks[in[i]] \in S
      BY <1>2
    <3> QED
      BY <3>1
  <2>2. <<>> \in S
    OBVIOUS
  <2> HIDE DEF S
  <2> QED
    BY <2>1, <2>2
<1>4. PICK h : LoopsThrough(h, 2, S, <<>>, step)
  <2> HIDE DEF S, step
  <2> QED
    BY <1>3, LoopRuns, Zenon
<1>5. h \in [0 .. 2 -> S] /\ h[0] = <<>> /\ \A i \in 1 .. 2 : h[i] = step[i][h[i - 1]]
  BY <1>4, Zenon DEF LoopsThrough
<1>6. \A i \in 1 .. 2 : h[i] = h[i - 1] \o tracks[in[i]]
  <2> SUFFICES ASSUME NEW i \in 1 .. 2
               PROVE  h[i] = h[i - 1] \o tracks[in[i]]
    OBVIOUS
  <2>1. i - 1 \in 0 .. 2
    OBVIOUS
  <2>2. h[i - 1] \in S /\ h[i] = step[i][h[i - 1]]
    BY <1>5, <2>1
  <2> HIDE DEF S
  <2> QED
    BY <2>2
<1>7. Runs(h)
  <2>1. h = [i \in 0 .. 2 |-> h[i]]
    BY <1>5
  <2>2. \A i \in 0 .. 2 : h[i] = IF i = 0 THEN <<>> ELSE h[i - 1] \o tracks[in[i]]
    <3> SUFFICES ASSUME NEW i \in 0 .. 2
                 PROVE  h[i] = IF i = 0 THEN <<>> ELSE h[i - 1] \o tracks[in[i]]
      OBVIOUS
    <3>1. i = 0 \/ i \in 1 .. 2
      OBVIOUS
    <3> QED
      BY <1>5, <1>6, <3>1
  <2> QED
    BY <1>1, <2>1, <2>2
<1>8. Runs(merged)
  <2> HIDE DEF Runs
  <2> QED
    BY <1>7
<1>9. Merge(in) = merged[2]
  BY <1>1 DEF Merge
<1> HIDE DEF merged
<1>10. merged[2] = tracks[x] \o tracks[y]
  <2>1. \A i \in 0 .. 2 : merged[i] = IF i = 0 THEN <<>> ELSE merged[i - 1] \o tracks[in[i]]
    BY <1>1, <1>8
  <2>2. merged[0] = <<>>
    BY <2>1
  <2>6. \A i \in 1 .. 2 : merged[i] = merged[i - 1] \o tracks[in[i]]
    <3>1. \A i \in 1 .. 2 : i \in 0 .. 2 /\ i # 0
      OBVIOUS
    <3> QED
      BY <2>1, <3>1, Zenon
  <2>7. 1 \in 1 .. 2 /\ 1 - 1 = 0 /\ 2 \in 1 .. 2 /\ 2 - 1 = 1
    OBVIOUS
  <2>8. merged[1] = merged[1 - 1] \o tracks[in[1]] /\ merged[2] = merged[2 - 1] \o tracks[in[2]]
    BY <2>6, <2>7, Zenon
  <2>3. merged[1] = <<>> \o tracks[x]
    BY <1>1, <2>2, <2>7, <2>8
  <2>4. merged[2] = merged[1] \o tracks[y]
    BY <1>1, <2>7, <2>8
  <2>5. <<>> \o tracks[x] = tracks[x]
    OBVIOUS
  <2> QED
    BY <2>3, <2>4, <2>5
<1>11. tracks[x] \o tracks[y] \in Seq(Track)
  OBVIOUS
<1>12. ToSet(tracks[x] \o tracks[y]) = ToSet(tracks[x]) \cup ToSet(tracks[y])
  <2>1. CASE Track = {}
    <3>1. tracks[x] = <<>> /\ tracks[y] = <<>>
      BY <2>1
    <3> QED
      BY <3>1 DEF ToSet
  <2>2. ASSUME NEW e \in Track
        PROVE  ToSet(tracks[x] \o tracks[y]) = ToSet(tracks[x]) \cup ToSet(tracks[y])
    BY ToSets
  <2> QED
    BY <2>1, <2>2
<1> QED
  BY <1>9, <1>10, <1>11, <1>12 DEF in

\* The tracks that are good for another step.
LEMMA WornAre ==
  ASSUME NEW ts \in Seq(Track)
  PROVE  /\ Wear(ts) \in Seq(Track)
         /\ ToSet(Wear(ts)) = {Worn(tt) : tt \in {x \in ToSet(ts) : x.steps > 1}}
<1> DEFINE n == Len(ts)
           S == Seq(Track)
           Next1(i, s) == IF ts[i].steps > 1 THEN Append(s, Worn(ts[i])) ELSE s
           step == [i \in 1 .. n |-> [s \in S |-> Next1(i, s)]]
           Runs(f) == f = [i \in 0 .. Len(ts) |-> IF i = 0 THEN <<>> ELSE Next1(i, f[i - 1])]
           left == CHOOSE f : Runs(f)
           Kept(i) == {Worn(ts[j]) : j \in {l \in 1 .. i : ts[l].steps > 1}}
<1>1. n \in Nat /\ DOMAIN ts = 1 .. n /\ \A i \in 1 .. n : ts[i] \in Track
  OBVIOUS
<1>2. <<>> \in S /\ step \in [1 .. n -> [S -> S]]
  <2>1. \A i \in 1 .. n : \A s \in S : Next1(i, s) \in S
    <3> SUFFICES ASSUME NEW i \in 1 .. n, NEW s \in S
                 PROVE  Next1(i, s) \in S
      OBVIOUS
    <3>1. Worn(ts[i]) \in Track
      BY <1>1, WornTracks
    <3> QED
      BY <3>1
  <2>2. <<>> \in S
    OBVIOUS
  <2> HIDE DEF S, Next1, n
  <2> QED
    BY <2>1, <2>2
<1>3. PICK h : LoopsThrough(h, n, S, <<>>, step)
  <2> HIDE DEF S, step, n
  <2> QED
    BY <1>1, <1>2, LoopRuns, Zenon
<1>4. h \in [0 .. n -> S] /\ h[0] = <<>> /\ \A i \in 1 .. n : h[i] = step[i][h[i - 1]]
  BY <1>3, Zenon DEF LoopsThrough
<1>5. \A i \in 1 .. n : h[i] = Next1(i, h[i - 1]) /\ h[i - 1] \in S
  <2> SUFFICES ASSUME NEW i \in 1 .. n
               PROVE  h[i] = Next1(i, h[i - 1]) /\ h[i - 1] \in S
    OBVIOUS
  <2>1. i - 1 \in 0 .. n
    BY <1>1
  <2>2. h[i - 1] \in S /\ h[i] = step[i][h[i - 1]]
    BY <1>4, <2>1
  <2> HIDE DEF S, Next1, n
  <2> QED
    BY <2>2
<1>6. Runs(h)
  <2>1. h = [i \in 0 .. n |-> h[i]]
    BY <1>4
  <2>2. \A i \in 0 .. n : h[i] = IF i = 0 THEN <<>> ELSE Next1(i, h[i - 1])
    <3> SUFFICES ASSUME NEW i \in 0 .. n
                 PROVE  h[i] = IF i = 0 THEN <<>> ELSE Next1(i, h[i - 1])
      OBVIOUS
    <3>1. i = 0 \/ i \in 1 .. n
      BY <1>1
    <3> HIDE DEF Next1
    <3> QED
      BY <1>4, <1>5, <3>1
  <2> HIDE DEF Next1
  <2> QED
    BY <2>1, <2>2
<1>7. Runs(left)
  <2> HIDE DEF Runs
  <2> QED
    BY <1>6
<1>8. Wear(ts) = left[n]
  BY DEF Wear, Worn
<1> HIDE DEF left
<1>9. \A i \in 0 .. n : left[i] = IF i = 0 THEN <<>> ELSE Next1(i, left[i - 1])
  <2> HIDE DEF Next1
  <2> QED
    BY <1>7
<1> DEFINE Good == {i \in 0 .. n : left[i] \in S /\ ToSet(left[i]) = Kept(i)}
<1>10. 0 \in Good
  <2>1. 0 \in 0 .. n /\ left[0] = <<>> /\ <<>> \in S
    BY <1>1, <1>2, <1>9
  <2>2. ToSet(<<>>) = {} /\ Kept(0) = {}
    BY DEF ToSet
  <2> QED
    BY <2>1, <2>2
<1>11. ASSUME NEW i \in 0 .. n - 1, i \in Good
       PROVE  i + 1 \in Good
  <2>1. i \in Nat /\ i + 1 \in 0 .. n /\ i + 1 \in 1 .. n /\ i + 1 # 0 /\ (i + 1) - 1 = i
    BY <1>1
  <2>2. left[i + 1] = Next1(i + 1, left[i])
    <3> HIDE DEF Next1
    <3> QED
      BY <1>9, <2>1
  <2>3. left[i] \in S /\ ToSet(left[i]) = Kept(i) /\ Worn(ts[i + 1]) \in Track
    <3>1. left[i] \in S /\ ToSet(left[i]) = Kept(i)
      BY <1>11
    <3>2. ts[i + 1] \in Track
      BY <1>1, <2>1
    <3> HIDE DEF S, Kept
    <3> QED
      BY <3>1, <3>2, WornTracks
  <2>4. \A j : j \in 1 .. i + 1 <=> (j \in 1 .. i \/ j = i + 1)
    BY <2>1
  <2>5. CASE ts[i + 1].steps > 1
    <3>1. left[i + 1] = Append(left[i], Worn(ts[i + 1]))
      BY <2>2, <2>5
    <3>2. left[i + 1] \in S
      BY <2>3, <3>1
    <3>3. ToSet(left[i + 1]) = Kept(i) \cup {Worn(ts[i + 1])}
      <4> HIDE DEF Kept
      <4> QED
        BY <2>3, <3>1, ToSets
    <3>4. Kept(i + 1) = Kept(i) \cup {Worn(ts[i + 1])}
      BY <2>4, <2>5
    <3> HIDE DEF Kept
    <3> QED
      BY <2>1, <3>2, <3>3, <3>4
  <2>6. CASE ~ (ts[i + 1].steps > 1)
    <3>1. left[i + 1] = left[i]
      BY <2>2, <2>6
    <3>2. Kept(i + 1) = Kept(i)
      BY <2>4, <2>6
    <3> HIDE DEF Kept
    <3> QED
      BY <2>1, <2>3, <3>1, <3>2
  <2> QED
    BY <2>5, <2>6
<1> HIDE DEF Good
<1>12. 0 .. n \subseteq Good
  <2> HIDE DEF n
  <2> QED
    BY <1>1, <1>10, <1>11, Climb, Zenon
<1>13. n \in Good
  BY <1>1, <1>12
<1>14. left[n] \in S /\ ToSet(left[n]) = Kept(n)
  BY <1>13 DEF Good
<1>15. Kept(n) = {Worn(tt) : tt \in {x \in ToSet(ts) : x.steps > 1}}
  BY <1>1 DEF ToSet
<1> QED
  BY <1>8, <1>14, <1>15

Inherited(r) == {tt \in ToSet(tracks[Root(r)]) : tt.born # Root(r)}
Passed(r)    == {tt \in UNION {ToSet(tracks[x]) : x \in InputsOf(r)} : tt.steps > 1 /\ tt.since < r}

\* A node's own tracks are unused; the others came when its tree was made.
TracksOf(n) ==
  \A tt \in ToSet(tracks[n]) :
    /\ tt.born[1] <= tt.since /\ tt.since <= Len(trees)
    /\ tt.born = n => tt.steps = tt.life
    /\ tt.born # n => n[2] = <<>> /\ tt.since < n[1]

TracksInv ==
  /\ tags \in [Node -> SUBSET Tags] /\ tracks \in [Node -> Seq(Track)]
  /\ \A n \in Node : TracksOf(n)
  /\ \A r \in DOMAIN trees : Inherited(r) = {Worn(tt) : tt \in Passed(r)}

LEMMA TagsOfTracks ==
  ASSUME NEW ts \in Seq(Track), NEW tops
  PROVE  /\ TrackTags(ts, tops) \in SUBSET Tags
         /\ TrackTags(ts, tops) = {tt.tag : tt \in {x \in ToSet(ts) : x.steps > 0 /\ x.of \in tops}}
<1>1. \A i \in DOMAIN ts : ts[i] \in Track
  OBVIOUS
<1>2. \A tt \in Track : tt.tag \in Tags
  BY DEF Track
<1>3. TrackTags(ts, tops) \in SUBSET Tags
  BY <1>1, <1>2 DEF TrackTags
<1>4. TrackTags(ts, tops) = {tt.tag : tt \in {x \in ToSet(ts) : x.steps > 0 /\ x.of \in tops}}
  BY DEF TrackTags, ToSet
<1> QED
  BY <1>3, <1>4

LEMMA RootsAreNodes ==
  ASSUME trees \in Seq(Top), NEW r \in DOMAIN trees
  PROVE  Root(r) \in Node /\ Root(r)[1] = r /\ Root(r)[2] = <<>>
<1>1. trees[r] \in Top
  OBVIOUS
<1>2. <<>> \in Paths[trees[r]]
  BY <1>1, TopOfTheRoot
<1>3. IsNode(trees, <<r, <<>>>>)
  BY <1>2 DEF IsNode
<1> QED
  BY <1>3, NodesAreNodes DEF Root

LEMMA TaggingKeepsTracks ==
  ASSUME TracksInv, UNCHANGED <<trees, made, tracks>>, tags' \in [Node -> SUBSET Tags]
  PROVE  TracksInv'
<1>1. Node' = Node
  BY DEF Node, NodesOf
<1>2. \A r : InputsOf(r)' = InputsOf(r)
  BY DEF InputsOf
<1>3. \A r : Root(r)' = Root(r)
  BY DEF Root
<1>4. \A r : Inherited(r)' = Inherited(r) /\ Passed(r)' = Passed(r)
  BY <1>2, <1>3 DEF Inherited, Passed
<1>5. \A n : TracksOf(n)' <=> TracksOf(n)
  BY DEF TracksOf
<1> QED
  BY <1>1, <1>4, <1>5 DEF TracksInv

LEMMA TrackingKeepsTracks ==
  ASSUME HistoryInv, TracksInv, NEW n \in Node, NEW tag \in Tags, NEW of \in Targets, NEW life \in Lives,
         add_tag_track(n, tag, of, life)
  PROVE  TracksInv'
<1>1. PICK new : new = [tag |-> tag, of |-> of, steps |-> life, born |-> n,
                        since |-> Len(trees), life |-> life]
  OBVIOUS
<1>2. /\ UNCHANGED <<trees, tags, made>> /\ tracks' = [tracks EXCEPT ![n] = Append(@, new)]
      /\ trees \in Seq(Top) /\ Len(trees) \in Nat
  BY <1>1, MadeLikeTrees DEF add_tag_track
<1>3. /\ new \in Track /\ new.born = n /\ new.steps = new.life /\ new.since = Len(trees)
      /\ n[1] \in Nat /\ n[1] <= Len(trees)
  <2>1. n \in AnyNode /\ of \in Top /\ life \in Int /\ n[1] \in 1 .. Len(trees)
    BY <1>2, NodeHasATop, BoundsAssumption
  <2> QED
    BY <1>1, <1>2, <2>1 DEF Track
<1>4. tracks \in [Node -> Seq(Track)] /\ tags \in [Node -> SUBSET Tags]
  BY DEF TracksInv
<1>5. Node' = Node
  BY <1>2 DEF Node, NodesOf
<1>6. tracks' \in [Node -> Seq(Track)]
  BY <1>2, <1>3, <1>4
<1>7. ToSet(tracks'[n]) = ToSet(tracks[n]) \cup {new}
  <2>1. tracks'[n] = Append(tracks[n], new) /\ tracks[n] \in Seq(Track)
    BY <1>2, <1>4
  <2> QED
    BY <1>3, <2>1, ToSets
<1>8. \A m \in Node : m # n => tracks'[m] = tracks[m]
  BY <1>2, <1>4
<1>9. ASSUME NEW m \in Node
      PROVE  TracksOf(m)'
  <2>1. TracksOf(m)
    BY DEF TracksInv
  <2>2. \A tt \in ToSet(tracks'[m]) : tt \in ToSet(tracks[m]) \/ (m = n /\ tt = new)
    BY <1>7, <1>8
  <2>3. \A tt \in ToSet(tracks'[m]) :
          /\ tt.born[1] <= tt.since /\ tt.since <= Len(trees)
          /\ tt.born = m => tt.steps = tt.life
          /\ tt.born # m => m[2] = <<>> /\ tt.since < m[1]
    BY <1>2, <1>3, <2>1, <2>2 DEF TracksOf
  <2> QED
    BY <1>2, <2>3 DEF TracksOf
<1>10. ASSUME NEW r \in DOMAIN trees
       PROVE  Inherited(r)' = Inherited(r) /\ Passed(r)' = Passed(r)
  <2>1. InputsOf(r)' = InputsOf(r) /\ Root(r)' = Root(r)
    BY <1>2 DEF InputsOf, Root
  <2>2. Root(r) \in Node /\ r \in Nat /\ r <= Len(trees)
    BY <1>2, RootsAreNodes
  <2>3. \A x \in InputsOf(r) : x \in Node
    BY InputsAreNodes
  <2>4. Inherited(r)' = Inherited(r)
    <3>1. {tt \in ToSet(tracks'[Root(r)]) : tt.born # Root(r)} =
          {tt \in ToSet(tracks[Root(r)]) : tt.born # Root(r)}
      BY <1>3, <1>7, <1>8, <2>2
    <3> QED
      BY <2>1, <3>1 DEF Inherited
  <2>5. Passed(r)' = Passed(r)
    <3>1. ASSUME NEW tt, tt.since < r
          PROVE  \A x \in InputsOf(r) : tt \in ToSet(tracks'[x]) <=> tt \in ToSet(tracks[x])
      <4>1. tt # new
        BY <1>2, <1>3, <2>2, <3>1
      <4> QED
        BY <1>7, <1>8, <2>3, <4>1
    <3>2. Passed(r)' = {tt \in UNION {ToSet(tracks'[x]) : x \in InputsOf(r)} :
                          tt.steps > 1 /\ tt.since < r}
      BY <2>1 DEF Passed
    <3> QED
      BY <3>1, <3>2 DEF Passed
  <2> QED
    BY <2>4, <2>5
<1>11. \A r \in DOMAIN trees' : Inherited(r)' = {Worn(tt) : tt \in Passed(r)'}
  BY <1>2, <1>10 DEF TracksInv
<1> QED
  BY <1>2, <1>4, <1>5, <1>6, <1>9, <1>11 DEF TracksInv

NoneOfItsOwn(n) == \A tt \in ToSet(tracks[n]) : tt.born # n

\* A step that makes a tree and gives its root the tracks ts, from the inputs.
Passes(t, mk, ts, given) ==
  /\ \A x \in ToSet(mk.inputs) : x \in Node
  /\ ts \in Seq(Track)
  /\ ToSet(ts) = {Worn(tt) : tt \in {o \in UNION {ToSet(tracks[x]) : x \in ToSet(mk.inputs)} :
                                       o.steps > 1}}
  /\ tracks' = Grow(tracks, [n \in NewNodes(t) |-> IF n[2] = <<>> THEN ts ELSE <<>>])
  /\ given \in [NewNodes(t) -> SUBSET Tags] /\ tags' = Grow(tags, given)

LEMMA TracksGrow ==
  ASSUME HistoryInv, TracksInv, NEW t \in Top, NEW mk \in Make, NEW new, Grows(t, mk, new),
         NEW ts, NEW given, Passes(t, mk, ts, given)
  PROVE  /\ TracksInv'
         /\ \A n \in Node : tracks'[n] = tracks[n]
         /\ \A n \in NewNodes(t) : tracks'[n] = (IF n[2] = <<>> THEN ts ELSE <<>>) /\ tags'[n] = given[n]
         /\ \A n \in NewNodes(t) : NoneOfItsOwn(n)'
<1> SUFFICES
      ASSUME \A x \in ToSet(mk.inputs) : x \in Node, ts \in Seq(Track),
             ToSet(ts) = {Worn(tt) : tt \in {o \in UNION {ToSet(tracks[x]) : x \in ToSet(mk.inputs)} :
                                               o.steps > 1}},
             tracks' = Grow(tracks, [n \in NewNodes(t) |-> IF n[2] = <<>> THEN ts ELSE <<>>]),
             given \in [NewNodes(t) -> SUBSET Tags], tags' = Grow(tags, given)
      PROVE  /\ TracksInv'
             /\ \A n \in Node : tracks'[n] = tracks[n]
             /\ \A n \in NewNodes(t) : tracks'[n] = (IF n[2] = <<>> THEN ts ELSE <<>>) /\ tags'[n] = given[n]
             /\ \A n \in NewNodes(t) : NoneOfItsOwn(n)'
  BY DEF Passes
<1>1. trees \in Seq(Top) /\ Len(trees) \in Nat /\ TreesOK /\ InputsOK
  BY MadeLikeTrees DEF HistoryInv
<1>2. trees' = Append(trees, t) /\ made' = Append(made, mk)
  BY DEF Grows
<1>3. tracks \in [Node -> Seq(Track)] /\ tags \in [Node -> SUBSET Tags]
  BY DEF TracksInv
<1>4. Node' = Node \cup NewNodes(t)
  BY <1>1, <1>2, NodesGrow
<1>5. \A n \in NewNodes(t) : n \notin Node /\ n[1] = Len(trees) + 1 /\ n = <<n[1], n[2]>>
  BY <1>1, NewNodesAre
<1> DEFINE born == [n \in NewNodes(t) |-> IF n[2] = <<>> THEN ts ELSE <<>>]
<1>6. born \in [NewNodes(t) -> Seq(Track)]
  OBVIOUS
<1>7. tracks' = [n \in Node \cup NewNodes(t) |-> IF n \in Node THEN tracks[n] ELSE born[n]]
  <2>1. DOMAIN tracks = Node /\ DOMAIN born = NewNodes(t) /\ tracks' = Grow(tracks, born)
    BY <1>3
  <2> HIDE DEF born
  <2> QED
    BY <2>1 DEF Grow
<1>8. tags' = [n \in Node \cup NewNodes(t) |-> IF n \in Node THEN tags[n] ELSE given[n]]
  <2>1. DOMAIN tags = Node /\ DOMAIN given = NewNodes(t)
    BY <1>3
  <2> QED
    BY <2>1 DEF Grow
<1> HIDE DEF born
<1>9. \A n \in Node : tracks'[n] = tracks[n] /\ tags'[n] = tags[n]
  BY <1>7, <1>8
<1>10. \A n \in NewNodes(t) : tracks'[n] = born[n] /\ tags'[n] = given[n]
  BY <1>5, <1>7, <1>8
<1>11. tracks' \in [Node' -> Seq(Track)] /\ tags' \in [Node' -> SUBSET Tags]
  <2>1. \A n \in Node' : tracks'[n] \in Seq(Track) /\ tags'[n] \in SUBSET Tags
    BY <1>3, <1>4, <1>6, <1>9, <1>10
  <2> QED
    BY <1>4, <1>7, <1>8, <2>1
<1>0. PICK last : last = Len(trees) + 1
  OBVIOUS
<1>12. /\ \A r \in DOMAIN trees : InputsOf(r)' = InputsOf(r)
       /\ InputsOf(last)' = ToSet(mk.inputs) /\ last \in DOMAIN trees' /\ Len(trees') = last
       /\ \A r \in DOMAIN trees' : r \in DOMAIN trees \/ r = last
  BY <1>0, <1>1, <1>2, MadeGrows, TreesGrow
\* the tracks of the inputs are older than the new tree
<1>13. ASSUME NEW x \in Node, NEW tt \in ToSet(tracks[x])
       PROVE  /\ tt \in Track /\ tt.since < last /\ tt.born[1] < last
              /\ Worn(tt) \in Track /\ Worn(tt).since = tt.since /\ Worn(tt).born = tt.born
  <2>1. tracks[x] \in Seq(Track)
    BY <1>3
  <2>2. tt \in Track
    BY <2>1 DEF ToSet
  <2>3. tt.since \in Nat /\ tt.born \in AnyNode /\ tt.born[1] \in Nat
    BY <2>2 DEF Track, AnyNode
  <2>4. tt.born[1] <= tt.since /\ tt.since <= Len(trees)
    BY DEF TracksInv, TracksOf
  <2> QED
    BY <1>0, <1>1, <2>2, <2>3, <2>4, WornTracks
<1>14. ASSUME NEW n \in Node
       PROVE  TracksOf(n)'
  <2>1. TracksOf(n)
    BY DEF TracksInv
  <2>2. \A tt \in ToSet(tracks[n]) : tt.since \in Nat
    BY <1>13 DEF Track
  <2>3. \A tt \in ToSet(tracks'[n]) :
          /\ tt.born[1] <= tt.since /\ tt.since <= Len(trees')
          /\ tt.born = n => tt.steps = tt.life
          /\ tt.born # n => n[2] = <<>> /\ tt.since < n[1]
    BY <1>0, <1>1, <1>9, <1>12, <2>1, <2>2 DEF TracksOf
  <2> QED
    BY <2>3 DEF TracksOf
<1>15. ASSUME NEW tt \in ToSet(ts)
       PROVE  /\ tt \in Track /\ tt.born[1] <= tt.since /\ tt.since < last /\ tt.born[1] < last
  <2>1. PICK o \in UNION {ToSet(tracks[x]) : x \in ToSet(mk.inputs)} : tt = Worn(o)
    BY <1>15
  <2>2. PICK x \in Node : o \in ToSet(tracks[x])
    BY <2>1
  <2>3. TracksOf(x)
    BY DEF TracksInv
  <2>4. o.born[1] <= o.since
    BY <2>2, <2>3 DEF TracksOf
  <2> QED
    BY <1>13, <2>1, <2>2, <2>4
<1>16. ASSUME NEW n \in NewNodes(t)
       PROVE  TracksOf(n)'
  <2>1. CASE n[2] = <<>>
    <3>1. tracks'[n] = ts /\ n[1] = last
      BY <1>0, <1>5, <1>10, <2>1 DEF born
    <3>2. \A tt \in ToSet(tracks'[n]) :
            /\ tt.born[1] <= tt.since /\ tt.since <= Len(trees')
            /\ tt.born # n /\ n[2] = <<>> /\ tt.since < n[1]
      <4> SUFFICES ASSUME NEW tt \in ToSet(tracks'[n])
                   PROVE  /\ tt.born[1] <= tt.since /\ tt.since <= Len(trees')
                          /\ tt.born # n /\ tt.since < n[1]
        BY <2>1
      <4>1. tt \in Track /\ tt.born[1] <= tt.since /\ tt.since < last /\ tt.born[1] < last
        BY <1>15, <3>1
      <4>2. tt.since \in Nat /\ tt.born[1] \in Nat
        BY <4>1 DEF Track, AnyNode
      <4> QED
        BY <1>0, <1>1, <1>12, <3>1, <4>1, <4>2
    <3> QED
      BY <3>2 DEF TracksOf
  <2>2. CASE n[2] # <<>>
    <3>1. ToSet(tracks'[n]) = {}
      BY <1>10, <2>2 DEF born, ToSet
    <3> QED
      BY <3>1 DEF TracksOf
  <2> QED
    BY <2>1, <2>2
<1>17. ASSUME NEW r \in DOMAIN trees
       PROVE  Inherited(r)' = {Worn(tt) : tt \in Passed(r)'}
  <2>1. Root(r) \in Node /\ Root(r)' = Root(r)
    BY <1>1, RootsAreNodes DEF Root
  <2>2. Inherited(r)' = Inherited(r)
    BY <1>9, <2>1 DEF Inherited
  <2>3. Passed(r)' = Passed(r)
    <3>1. \A x \in InputsOf(r) : x \in Node
      BY InputsAreNodes
    <3>2. UNION {ToSet(tracks'[x]) : x \in InputsOf(r)} = UNION {ToSet(tracks[x]) : x \in InputsOf(r)}
      BY <1>9, <3>1
    <3> QED
      BY <1>12, <3>2 DEF Passed
  <2> QED
    BY <2>2, <2>3 DEF TracksInv
<1>18. Inherited(last)' = {Worn(tt) : tt \in Passed(last)'}
  <2>1. Root(last) \in NewNodes(t) /\ Root(last)[2] = <<>> /\ Root(last)' = Root(last)
        /\ Root(last)[1] = last
    <3>1. <<>> \in Paths[t]
      BY TopOfTheRoot
    <3> QED
      BY <1>0, <3>1 DEF Root, NewNodes
  <2>2. tracks'[Root(last)] = ts
    BY <1>10, <2>1 DEF born
  <2>3. \A tt \in ToSet(ts) : tt.born # Root(last)
    <3> SUFFICES ASSUME NEW tt \in ToSet(ts)
                 PROVE  tt.born # Root(last)
      OBVIOUS
    <3>1. tt \in Track /\ tt.born[1] < last
      BY <1>15
    <3>2. tt.born[1] \in Nat /\ last \in Nat
      BY <1>0, <1>1, <3>1 DEF Track, AnyNode
    <3> QED
      BY <2>1, <3>1, <3>2
  <2>4. Inherited(last)' = ToSet(ts)
    BY <2>1, <2>2, <2>3 DEF Inherited
  <2>5. Passed(last)' = {o \in UNION {ToSet(tracks[x]) : x \in ToSet(mk.inputs)} : o.steps > 1}
    <3>1. UNION {ToSet(tracks'[x]) : x \in ToSet(mk.inputs)} =
          UNION {ToSet(tracks[x]) : x \in ToSet(mk.inputs)}
      BY <1>9
    <3>2. \A o \in UNION {ToSet(tracks[x]) : x \in ToSet(mk.inputs)} : o.since < last
      BY <1>13
    <3> QED
      BY <1>12, <3>1, <3>2 DEF Passed
  <2> QED
    BY <2>4, <2>5
<1>19. \A r \in DOMAIN trees' : Inherited(r)' = {Worn(tt) : tt \in Passed(r)'}
  BY <1>12, <1>17, <1>18
<1>20. \A n \in Node' : TracksOf(n)'
  BY <1>4, <1>14, <1>16
<1>21. TracksInv'
  BY <1>11, <1>19, <1>20 DEF TracksInv
<1>22. ASSUME NEW n \in NewNodes(t)
       PROVE  NoneOfItsOwn(n)'
  <2> SUFFICES ASSUME NEW tt \in ToSet(tracks'[n])
               PROVE  tt.born # n
    BY DEF NoneOfItsOwn
  <2>1. n[2] = <<>> /\ tracks'[n] = ts
    BY <1>10 DEF born, ToSet
  <2>2. tt \in Track /\ tt.born[1] < last
    BY <1>15, <2>1
  <2>3. tt.born[1] \in Nat /\ last \in Nat /\ n[1] = last
    BY <1>0, <1>1, <1>5, <2>2 DEF Track, AnyNode
  <2> QED
    BY <2>2, <2>3
<1> QED
  BY <1>9, <1>10, <1>21, <1>22 DEF born

LEMMA WrapKeepsTracks ==
  ASSUME HistoryInv, TracksInv, NEW t \in Sources, Wrap(t)
  PROVE  TracksInv' /\ \A n \in NewNodes(t) : tags'[n] = {}
<1>1. PICK mk : mk = [inputs |-> <<>>]
  OBVIOUS
<1>2. t \in Top /\ mk \in Make /\ ToSet(mk.inputs) = {}
  BY <1>1, PartAssumption DEF Make, ToSet
<1>3. PICK new : new = Fresh(t, {})
  OBVIOUS
<1>4. PICK ts : ts = <<>>
  OBVIOUS
<1>5. PICK given : given = Fresh(t, {})
  OBVIOUS
<1>6. given \in [NewNodes(t) -> SUBSET Tags] /\ \A n \in NewNodes(t) : given[n] = {}
  BY <1>5 DEF Fresh
<1>7. Grows(t, mk, new)
  BY <1>1, <1>3 DEF Wrap, Grows, Fresh
<1>8. ts \in Seq(Track)
      /\ ToSet(ts) = {Worn(tt) : tt \in {o \in UNION {ToSet(tracks[x]) : x \in ToSet(mk.inputs)} :
                                           o.steps > 1}}
  <2>1. ts \in Seq(Track) /\ ToSet(ts) = {}
    BY <1>4 DEF ToSet
  <2> QED
    BY <1>2, <2>1
<1>9. tags' = Grow(tags, given)
  BY <1>5 DEF Wrap
<1>10. tracks' = Grow(tracks, [n \in NewNodes(t) |-> IF n[2] = <<>> THEN ts ELSE <<>>])
  BY <1>4 DEF Wrap, Fresh
<1>11. \A x \in ToSet(mk.inputs) : x \in Node
  BY <1>2
<1>12. /\ TracksInv'
       /\ \A n \in Node : tracks'[n] = tracks[n]
       /\ \A n \in NewNodes(t) : tracks'[n] = (IF n[2] = <<>> THEN ts ELSE <<>>) /\ tags'[n] = given[n]
  <2>1. Passes(t, mk, ts, given)
    BY <1>6, <1>8, <1>9, <1>10, <1>11 DEF Passes
  <2> QED
    BY <1>2, <1>7, <2>1, TracksGrow
<1> QED
  BY <1>6, <1>12

\* The tops a new node descends from when its tags are found.
NewAncestors(a, x, y, n) ==
  {TopAt[a.result][n[2]]} \cup
    {t \in Top : \E m \in map_subshapes(a, <<x, y>>)[n] : IsDescendent(m, t)}

LEMMA ValueKeepsTracks ==
  ASSUME HistoryInv, TracksInv, NEW a \in Algorithms, NEW x \in Node, NEW y \in Node,
         value(a, <<x, y>>)
  PROVE  /\ TracksInv'
         /\ \A n \in Node : tracks'[n] = tracks[n]
         /\ \A n \in NewNodes(a.result) : NoneOfItsOwn(n)'
         /\ \A n \in NewNodes(a.result) : n[2] \in FirstPaths[a.result] =>
              tags'[n] = {tt.tag : tt \in {o \in ToSet(tracks[x]) \cup ToSet(tracks[y]) :
                                             o.steps > 0 /\ o.of \in NewAncestors(a, x, y, n)}}
<1> DEFINE mk == [inputs |-> <<x, y>>, algorithm |-> a]
           new == map_subshapes(a, <<x, y>>)
           t == a.result
<1>1. trees \in Seq(Top) /\ tracks \in [Node -> Seq(Track)]
  BY DEF HistoryInv, TreesOK, TracksInv
<1>2. x \in AnyNode /\ y \in AnyNode
  BY <1>1, NodeHasATop
<1>3. mk \in Make /\ ToSet(mk.inputs) = {x, y} /\ t \in Top
  <2>1. mk \in Make
    BY <1>2 DEF Make
  <2>2. t \in Top
    BY AlgorithmsAssumption DEF IsAlgorithm
  <2> QED
    BY <2>1, <2>2, TwoInputs
<1>4. Grows(t, mk, new)
  BY ValueKeepsHistory
<1>5. PICK merged : merged = Merge(<<x, y>>)
  OBVIOUS
<1>6. merged \in Seq(Track) /\ ToSet(merged) = ToSet(tracks[x]) \cup ToSet(tracks[y])
  BY <1>1, <1>5, MergedTracks
<1>7. PICK ts : ts = Wear(merged)
  OBVIOUS
<1>8. ts \in Seq(Track) /\ ToSet(ts) = {Worn(tt) : tt \in {o \in ToSet(merged) : o.steps > 1}}
  BY <1>6, <1>7, WornAre
<1>9. PICK given : given = [n \in NewNodes(t) |->
                              IF n[2] \in FirstPaths[t]
                                THEN TrackTags(merged, NewAncestors(a, x, y, n)) ELSE {}]
  OBVIOUS
<1>10. given \in [NewNodes(t) -> SUBSET Tags]
  BY <1>6, <1>9, TagsOfTracks
<1>11. tags' = Grow(tags, given)
  BY <1>5, <1>9 DEF value, NewAncestors
<1>12. tracks' = Grow(tracks, [n \in NewNodes(t) |-> IF n[2] = <<>> THEN ts ELSE <<>>])
  BY <1>5, <1>7 DEF value
<1>13. UNION {ToSet(tracks[z]) : z \in ToSet(mk.inputs)} = ToSet(merged)
  BY <1>3, <1>6
<1>14. \A z \in ToSet(mk.inputs) : z \in Node
  BY <1>3
<1> HIDE DEF mk, new, t
<1>15. /\ TracksInv'
       /\ \A n \in Node : tracks'[n] = tracks[n]
       /\ \A n \in NewNodes(t) : tracks'[n] = (IF n[2] = <<>> THEN ts ELSE <<>>) /\ tags'[n] = given[n]
       /\ \A n \in NewNodes(t) : NoneOfItsOwn(n)'
  <2>1. Passes(t, mk, ts, given)
    BY <1>8, <1>10, <1>11, <1>12, <1>13, <1>14 DEF Passes
  <2> QED
    BY <1>3, <1>4, <2>1, TracksGrow
<1>16. ASSUME NEW n \in NewNodes(t), n[2] \in FirstPaths[t]
       PROVE  tags'[n] = {tt.tag : tt \in {o \in ToSet(tracks[x]) \cup ToSet(tracks[y]) :
                                             o.steps > 0 /\ o.of \in NewAncestors(a, x, y, n)}}
  <2>1. tags'[n] = TrackTags(merged, NewAncestors(a, x, y, n))
    BY <1>9, <1>15, <1>16
  <2>2. TrackTags(merged, NewAncestors(a, x, y, n)) =
          {tt.tag : tt \in {o \in ToSet(merged) : o.steps > 0 /\ o.of \in NewAncestors(a, x, y, n)}}
    BY <1>6, TagsOfTracks
  <2> QED
    BY <1>6, <2>1, <2>2
<1> QED
  BY <1>15, <1>16 DEF t

LEMMA TaggingTags ==
  ASSUME HistoryInv, TracksInv, NEW n \in Node,
         \/ apply_tag_tracks(n)
         \/ \E tag \in Tags :
              \/ add_meta_tag(n, tag)
              \/ \E of \in Targets : add_meta_tag_to_subshapes(n, of, tag)
  PROVE  TracksInv'
<1>1. tags \in [Node -> SUBSET Tags] /\ tracks \in [Node -> Seq(Track)] /\ DOMAIN tags = Node
  BY DEF TracksInv
<1>2. UNCHANGED <<trees, made, tracks>>
  BY DEF apply_tag_tracks, add_meta_tag, add_meta_tag_to_subshapes
<1>3. \A tag \in Tags : \A N : AddMetaTag(tags, N, tag) \in [Node -> SUBSET Tags]
  BY <1>1 DEF AddMetaTag
<1>4. tags' \in [Node -> SUBSET Tags]
  <2>1. CASE apply_tag_tracks(n)
    <3>1. \A tops : TrackTags(tracks[n], tops) \in SUBSET Tags
      BY <1>1, TagsOfTracks
    <3> QED
      BY <1>1, <2>1, <3>1 DEF apply_tag_tracks
  <2>2. CASE \E tag \in Tags : add_meta_tag(n, tag)
    BY <1>3, <2>2 DEF add_meta_tag
  <2>3. CASE \E tag \in Tags : \E of \in Targets : add_meta_tag_to_subshapes(n, of, tag)
    BY <1>3, <2>3 DEF add_meta_tag_to_subshapes
  <2> QED
    BY <2>1, <2>2, <2>3
<1> QED
  BY <1>2, <1>4, TaggingKeepsTracks

LEMMA TracksAlways == Spec => [](HistoryInv /\ TracksInv)
<1>1. Init => TracksInv
  <2> SUFFICES ASSUME Init PROVE TracksInv
    OBVIOUS
  <2>1. trees = <<>> /\ DOMAIN trees = {} /\ tags = [n \in {} |-> {}] /\ tracks = [n \in {} |-> <<>>]
    BY DEF Init
  <2>2. Node = {}
    BY <2>1 DEF Node
  <2> QED
    BY <2>1, <2>2 DEF TracksInv
<1>2. HistoryInv /\ TracksInv /\ [Next]_vars => TracksInv'
  <2> SUFFICES ASSUME HistoryInv, TracksInv, [Next]_vars PROVE TracksInv'
    OBVIOUS
  <2>1. CASE \E t \in Sources : Wrap(t)
    BY <2>1, WrapKeepsTracks
  <2>2. ASSUME NEW n \in Node, NEW tag \in Tags, NEW of \in Targets, NEW life \in Lives,
               add_tag_track(n, tag, of, life)
        PROVE  TracksInv'
    BY <2>2, TrackingKeepsTracks
  <2>3. ASSUME NEW n \in Node,
               \/ apply_tag_tracks(n)
               \/ \E tag \in Tags :
                    \/ add_meta_tag(n, tag)
                    \/ \E of \in Targets : add_meta_tag_to_subshapes(n, of, tag)
        PROVE  TracksInv'
    BY <2>3, TaggingTags
  <2>4. CASE \E a \in Algorithms :
               \E x \in Candidates(a.inputs[1]), y \in Candidates(a.inputs[2]) : value(a, <<x, y>>)
    <3>1. PICK a \in Algorithms, x \in Node, y \in Node : value(a, <<x, y>>)
      BY <2>4 DEF Candidates
    <3> QED
      BY <3>1, ValueKeepsTracks
  <2>5. CASE Finished \/ UNCHANGED vars
    <3>1. UNCHANGED <<trees, made, tracks>> /\ tags' = tags
      BY <2>5 DEF Finished, vars
    <3>2. tags' \in [Node -> SUBSET Tags]
      BY <3>1 DEF TracksInv
    <3> QED
      BY <3>1, <3>2, TaggingKeepsTracks
  <2> QED
    BY <2>1, <2>2, <2>3, <2>4, <2>5 DEF Next
<1> QED
  BY <1>1, <1>2, HistoryAlways, PTL DEF Spec

-----------------------------------------------------------------------------
(***************************************************************************)
(* The ways of a track.                                                    *)
(***************************************************************************)
StepsFrom(steps, tt, r) ==
  IF r <= tt.since THEN {}
  ELSE (IF tt.born \in InputsOf(r) THEN {1} ELSE {})
         \cup {k + 1 : k \in UNION {steps[n[1]] : n \in {x \in InputsOf(r) : x[2] = <<>>}}}

StepsOK(tt) ==
  \A r \in DOMAIN trees : /\ StepsTo(tt)[r] \in SUBSET Nat
                          /\ StepsTo(tt)[r] = StepsFrom(StepsTo(tt), tt, r)

LEMMA StepsAre ==
  ASSUME HistoryInv
  PROVE  \A tt : StepsOK(tt)
<1> SUFFICES ASSUME NEW tt
             PROVE  StepsOK(tt)
  OBVIOUS
<1> DEFINE D == DOMAIN trees
           S == SUBSET Nat
           G == [D -> S]
           rank == [r \in D |-> r]
           F == [g \in G |-> [r \in D |-> StepsFrom(g, tt, r)]]
           Runs(f) == f = [r \in D |-> StepsFrom(f, tt, r)]
           steps == CHOOSE f : Runs(f)
<1>1. DOMAIN made = D /\ rank \in [D -> 0 .. Len(trees)] /\ Len(trees) \in Nat
  BY MadeLikeTrees
<1>2. F \in [G -> G]
  <2>1. ASSUME NEW g \in G, NEW r \in D
        PROVE  StepsFrom(g, tt, r) \in S
    <3>1. \A n \in InputsOf(r) : g[n[1]] \in SUBSET Nat
      BY InputsAreNodes
    <3> DEFINE below == UNION {g[n[1]] : n \in {x \in InputsOf(r) : x[2] = <<>>}}
    <3>2. below \in SUBSET Nat
      BY <3>1
    <3>3. StepsFrom(g, tt, r) = IF r <= tt.since THEN {}
                                ELSE (IF tt.born \in InputsOf(r) THEN {1} ELSE {}) \cup {k + 1 : k \in below}
      BY Zenon DEF StepsFrom
    <3> HIDE DEF below
    <3> QED
      BY <3>2, <3>3
  <2> HIDE DEF D, S
  <2> QED
    BY <2>1
<1>3. ASSUME NEW r \in D, NEW g \in G, NEW h \in G,
             \A u \in D : rank[u] < rank[r] => g[u] = h[u]
      PROVE  F[g][r] = F[h][r]
  <2>1. \A n \in InputsOf(r) : g[n[1]] = h[n[1]]
    BY <1>3, InputsAreNodes
  <2>2. UNION {g[n[1]] : n \in {x \in InputsOf(r) : x[2] = <<>>}} =
        UNION {h[n[1]] : n \in {x \in InputsOf(r) : x[2] = <<>>}}
    BY <2>1
  <2>3. StepsFrom(g, tt, r) = StepsFrom(h, tt, r)
    BY <2>2, Zenon DEF StepsFrom
  <2> HIDE DEF D, S
  <2> QED
    BY <2>3
<1>4. S # {}
  OBVIOUS
<1>5. PICK f \in G : F[f] = f
  <2> HIDE DEF D, S, F, rank
  <2>1. Recursion(F, D, S, rank, Len(trees))
    BY <1>1, <1>2, <1>3, <1>4 DEF Recursion
  <2>2. HasSolution(F, D, S)
    BY <2>1, RecursionRuns
  <2> QED
    BY <2>2 DEF HasSolution
<1>6. Runs(f)
  BY <1>5
<1>7. Runs(steps)
  <2> HIDE DEF Runs
  <2> QED
    BY <1>6
<1>8. StepsTo(tt) = steps
  BY <1>1 DEF StepsTo, StepsFrom
<1> HIDE DEF steps
<1>9. steps \in G
  <2>1. \A r \in D : StepsFrom(f, tt, r) \in S
    BY <1>5, <1>6
  <2> DEFINE Good == {k \in 0 .. Len(trees) : \A r \in D : r <= k => steps[r] = f[r]}
  <2>2. D = 1 .. Len(trees)
    BY MadeLikeTrees
  <2>3. 0 \in Good
    BY <1>1, <2>2
  <2>4. ASSUME NEW k \in 0 .. Len(trees) - 1, k \in Good
        PROVE  k + 1 \in Good
    <3>1. k + 1 \in D /\ k \in Nat
      BY <1>1, <2>2
    <3>2. \A n \in InputsOf(k + 1) : n[1] \in D /\ n[1] <= k
      BY <3>1, InputsAreNodes
    <3>3. UNION {steps[n[1]] : n \in {x \in InputsOf(k + 1) : x[2] = <<>>}} =
          UNION {f[n[1]] : n \in {x \in InputsOf(k + 1) : x[2] = <<>>}}
      BY <2>4, <3>2
    <3>4. StepsFrom(steps, tt, k + 1) = StepsFrom(f, tt, k + 1)
      BY <3>3, Zenon DEF StepsFrom
    <3>5. steps[k + 1] = f[k + 1]
      BY <1>6, <1>7, <3>1, <3>4
    <3> QED
      BY <1>1, <2>2, <2>4, <3>1, <3>5
  <2> HIDE DEF Good
  <2>5. 0 .. Len(trees) \subseteq Good
    BY <1>1, <2>3, <2>4, Climb, Zenon
  <2>6. \A r \in D : steps[r] = f[r]
    BY <1>1, <2>2, <2>5 DEF Good
  <2> QED
    BY <1>5, <1>7, <2>6
<1>10. \A r \in D : steps[r] \in SUBSET Nat /\ steps[r] = StepsFrom(steps, tt, r)
  BY <1>7, <1>9
<1> QED
  BY <1>8, <1>10 DEF StepsOK

\* The ways of a track into a tree, one by one.
LEMMA StepCases ==
  ASSUME HistoryInv, NEW tt, NEW r \in DOMAIN trees, tt.since \in Nat
  PROVE  /\ StepsTo(tt)[r] \in SUBSET Nat
         /\ \A k : k \in StepsTo(tt)[r] <=>
              /\ tt.since < r
              /\ \/ k = 1 /\ tt.born \in InputsOf(r)
                 \/ \E n \in InputsOf(r) : /\ n[2] = <<>>
                                           /\ \E j \in StepsTo(tt)[n[1]] : k = j + 1
<1>1. StepsTo(tt)[r] \in SUBSET Nat /\ StepsTo(tt)[r] = StepsFrom(StepsTo(tt), tt, r)
  BY StepsAre DEF StepsOK
<1>2. (r <= tt.since) <=> ~ (tt.since < r)
  BY MadeLikeTrees
<1>3. PICK steps : steps = StepsTo(tt)
  OBVIOUS
<1>4. \A k : k \in StepsFrom(steps, tt, r) <=>
              /\ tt.since < r
              /\ \/ k = 1 /\ tt.born \in InputsOf(r)
                 \/ \E n \in InputsOf(r) : n[2] = <<>> /\ \E j \in steps[n[1]] : k = j + 1
  BY <1>2 DEF StepsFrom
<1> QED
  BY <1>1, <1>3, <1>4

\* The tracks a tree has inherited are those that are not worn out yet.
Counts(r) ==
  \A z : z \in Inherited(r) <=>
           \E tt \in OwnTracks : \E k \in StepsTo(tt)[r] : k < tt.life /\ z = After(tt, k)

LEMMA OwnTracksAre ==
  ASSUME HistoryInv, TracksInv, NEW tt \in OwnTracks
  PROVE  /\ tt \in Track /\ tt.born \in Node /\ tt \in ToSet(tracks[tt.born])
         /\ tt.steps = tt.life /\ tt.since \in Nat /\ tt.life \in Int
<1>1. PICK n \in Node : tt \in {x \in ToSet(tracks[n]) : x.born = n}
  BY DEF OwnTracks
<1>2. tracks[n] \in Seq(Track)
  BY DEF TracksInv
<1>3. tt \in Track
  BY <1>1, <1>2 DEF ToSet
<1>4. tt.steps = tt.life
  BY <1>1 DEF TracksInv, TracksOf
<1> QED
  BY <1>1, <1>3, <1>4 DEF Track

LEMMA TracksAreCounted ==
  ASSUME HistoryInv, TracksInv, NEW r \in DOMAIN trees,
         \A q \in DOMAIN trees : q < r => Counts(q)
  PROVE  Counts(r)
<1>1. Inherited(r) = {Worn(tt) : tt \in Passed(r)}
  BY DEF TracksInv
<1>2. ASSUME NEW x \in InputsOf(r), NEW o \in ToSet(tracks[x])
      PROVE  o \in Track /\ o.since \in Nat /\ o.steps \in Int
  <2>1. tracks[x] \in Seq(Track)
    BY InputsAreNodes DEF TracksInv
  <2>2. o \in Track
    BY <2>1 DEF ToSet
  <2> QED
    BY <2>2 DEF Track
<1>3. ASSUME NEW x \in InputsOf(r), x[2] = <<>>
      PROVE  Inherited(x[1]) = {tt \in ToSet(tracks[x]) : tt.born # x}
  <2>1. trees \in Seq(Top) /\ x \in Node
    BY InputsAreNodes, MadeLikeTrees
  <2>2. x = Root(x[1])
    BY <1>3, <2>1, NodeHasATop DEF Root
  <2> QED
    BY <2>2 DEF Inherited
<1>4. ASSUME NEW z \in Inherited(r)
      PROVE  \E tt \in OwnTracks : \E k \in StepsTo(tt)[r] : k < tt.life /\ z = After(tt, k)
  <2>1. PICK o \in Passed(r) : z = Worn(o)
    BY <1>1, <1>4
  <2>2. PICK x \in InputsOf(r) : o \in ToSet(tracks[x])
    BY DEF Passed
  <2>3. o.steps > 1 /\ o.since < r
    BY DEF Passed
  <2>4. o \in Track /\ o.since \in Nat /\ o.steps \in Int
    BY <1>2, <2>2
  <2>5. TracksOf(x) /\ x \in Node /\ x[1] \in DOMAIN trees /\ x[1] < r
    BY InputsAreNodes DEF TracksInv
  <2>6. CASE o.born = x
    <3>1. o \in OwnTracks
      BY <2>2, <2>5, <2>6 DEF OwnTracks
    <3>2. o.steps = o.life
      BY <2>2, <2>5, <2>6 DEF TracksOf
    <3>3. z = After(o, 1)
      BY <2>1, <2>4, <3>2, TracksWearOff
    <3>4. 1 \in StepsTo(o)[r]
      BY <2>3, <2>4, <2>6, StepCases
    <3> QED
      BY <2>3, <2>4, <3>1, <3>2, <3>3, <3>4
  <2>7. CASE o.born # x
    <3>1. x[2] = <<>>
      BY <2>2, <2>5, <2>7 DEF TracksOf
    <3>2. o \in Inherited(x[1])
      BY <1>3, <2>2, <2>7, <3>1
    <3>3. Counts(x[1])
      BY <2>5
    <3>4. PICK tt \in OwnTracks : \E k \in StepsTo(tt)[x[1]] : k < tt.life /\ o = After(tt, k)
      BY <3>2, <3>3 DEF Counts
    <3>5. PICK k \in StepsTo(tt)[x[1]] : k < tt.life /\ o = After(tt, k)
      BY <3>4
    <3>6. tt \in Track /\ tt.since \in Nat /\ tt.life \in Int
      BY OwnTracksAre
    <3>7. k \in Nat /\ k \in Int
      <4>1. StepsTo(tt)[x[1]] \in SUBSET Nat
        BY <2>5, <3>6, StepCases
      <4> QED
        BY <4>1
    <3>8. o.since = tt.since /\ o.steps = tt.life - k
      BY <3>5, <3>6, <3>7, TracksAfter
    <3>9. k + 1 \in StepsTo(tt)[r]
      BY <2>3, <3>1, <3>6, <3>8, StepCases
    <3>10. z = After(tt, k + 1)
      BY <2>1, <3>5, <3>6, <3>7, TracksWearOff
    <3>11. k + 1 < tt.life
      BY <2>3, <3>6, <3>7, <3>8
    <3> QED
      BY <3>9, <3>10, <3>11
  <2> QED
    BY <2>6, <2>7
<1>5. ASSUME NEW tt \in OwnTracks, NEW k \in StepsTo(tt)[r], k < tt.life
      PROVE  After(tt, k) \in Inherited(r)
  <2>1. /\ tt \in Track /\ tt.born \in Node /\ tt \in ToSet(tracks[tt.born])
        /\ tt.steps = tt.life /\ tt.since \in Nat /\ tt.life \in Int
    BY OwnTracksAre
  <2>2. /\ tt.since < r
        /\ \/ k = 1 /\ tt.born \in InputsOf(r)
           \/ \E n \in InputsOf(r) : n[2] = <<>> /\ \E j \in StepsTo(tt)[n[1]] : k = j + 1
    BY <2>1, StepCases
  <2>3. CASE k = 1 /\ tt.born \in InputsOf(r)
    <3>1. tt \in Passed(r)
      BY <1>5, <2>1, <2>2, <2>3 DEF Passed
    <3>2. Worn(tt) = After(tt, k)
      BY <2>1, <2>3, TracksWearOff
    <3> QED
      BY <1>1, <3>1, <3>2
  <2>4. CASE \E n \in InputsOf(r) : n[2] = <<>> /\ \E j \in StepsTo(tt)[n[1]] : k = j + 1
    <3>1. PICK n \in InputsOf(r) : n[2] = <<>> /\ \E j \in StepsTo(tt)[n[1]] : k = j + 1
      BY <2>4
    <3>2. PICK j \in StepsTo(tt)[n[1]] : k = j + 1
      BY <3>1
    <3>3. n[1] \in DOMAIN trees /\ n[1] < r
      BY InputsAreNodes
    <3>4. j \in Nat /\ j \in Int
      <4>1. StepsTo(tt)[n[1]] \in SUBSET Nat
        BY <2>1, <3>3, StepCases
      <4> QED
        BY <4>1
    <3>5. j < tt.life /\ tt.life - j > 1
      BY <1>5, <2>1, <3>2, <3>4
    <3>6. After(tt, j) \in Inherited(n[1])
      BY <3>3, <3>5 DEF Counts
    <3>7. After(tt, j) \in ToSet(tracks[n])
      BY <1>3, <3>1, <3>6
    <3>8. After(tt, j) \in Passed(r)
      BY <2>1, <2>2, <3>4, <3>5, <3>7, TracksAfter DEF Passed
    <3>9. Worn(After(tt, j)) = After(tt, k)
      BY <2>1, <3>2, <3>4, TracksWearOff
    <3> QED
      BY <1>1, <3>8, <3>9
  <2> QED
    BY <2>2, <2>3, <2>4
<1> QED
  BY <1>4, <1>5 DEF Counts

LEMMA AllTracksAreCounted ==
  ASSUME HistoryInv, TracksInv
  PROVE  \A r \in DOMAIN trees : Counts(r)
<1> DEFINE Good == {k \in 0 .. Len(trees) : \A r \in DOMAIN trees : r <= k => Counts(r)}
<1>1. Len(trees) \in Nat /\ DOMAIN trees = 1 .. Len(trees)
  BY MadeLikeTrees
<1>2. 0 \in Good
  BY <1>1
<1>3. ASSUME NEW k \in 0 .. Len(trees) - 1, k \in Good
      PROVE  k + 1 \in Good
  <2>1. k \in Nat /\ k + 1 \in DOMAIN trees /\ k + 1 \in 0 .. Len(trees)
    BY <1>1
  <2>2. \A q \in DOMAIN trees : q < k + 1 => Counts(q)
    BY <1>1, <1>3
  <2>3. \A q \in DOMAIN trees : (\A s \in DOMAIN trees : s < q => Counts(s)) => Counts(q)
    BY TracksAreCounted
  <2>4. Counts(k + 1)
    BY <2>1, <2>2, <2>3, Zenon
  <2>5. \A q \in DOMAIN trees : q <= k + 1 => q < k + 1 \/ q = k + 1
    BY <1>1
  <2> QED
    BY <2>1, <2>2, <2>4, <2>5
<1> HIDE DEF Good
<1>4. 0 .. Len(trees) \subseteq Good
  BY <1>1, <1>2, <1>3, Climb, Zenon
<1> QED
  BY <1>1, <1>4 DEF Good

LEMMA TracksAreAsCounted ==
  ASSUME HistoryInv, TracksInv
  PROVE  TracksCountSteps
<1> SUFFICES ASSUME NEW r \in DOMAIN trees
             PROVE  Inherited(r) =
                      UNION {{After(tt, k) : k \in {s \in StepsTo(tt)[r] : s < tt.life}} :
                               tt \in OwnTracks}
  BY DEF TracksCountSteps, Inherited, After
<1>1. Counts(r)
  BY AllTracksAreCounted
<1> QED
  BY <1>1 DEF Counts

\* Tag tracks are passed on to what they follow and wear out in as many
\* operations as they were made for, whatever is made of what in between.
THEOREM TracksAreFollowed == Spec => []TracksCountSteps
<1>1. HistoryInv /\ TracksInv => TracksCountSteps
  BY TracksAreAsCounted
<1> QED
  BY <1>1, TracksAlways, PTL

-----------------------------------------------------------------------------
(***************************************************************************)
(* The tags of a result.                                                   *)
(***************************************************************************)
StepsAt(tt, r) ==
  /\ StepsTo(tt)[r] \in SUBSET Nat
  /\ \A k : k \in StepsTo(tt)[r] <=>
       /\ tt.since < r
       /\ \/ k = 1 /\ tt.born \in InputsOf(r)
          \/ \E n \in InputsOf(r) : n[2] = <<>> /\ \E j \in StepsTo(tt)[n[1]] : k = j + 1

StepsInv == \A tt : tt.since \in Nat => \A r \in DOMAIN trees : StepsAt(tt, r)

LEMMA StepsAlways == HistoryInv => StepsInv
BY StepCases DEF StepsInv, StepsAt

\* A track that is good for the step into a tree of which n is an input.
Arrives(tt, n) ==
  \/ tt.born = n /\ 1 <= tt.life
  \/ n[2] = <<>> /\ \E j \in StepsTo(tt)[n[1]] : j + 1 <= tt.life

\* The tracks of a node are those that arrive there, except for their steps.
LEMMA ArrivingTracks ==
  ASSUME HistoryInv, TracksInv, NEW n \in Node
  PROVE  /\ \A o \in ToSet(tracks[n]) : o.steps > 0 =>
              \E tt \in OwnTracks : Arrives(tt, n) /\ tt.tag = o.tag /\ tt.of = o.of
         /\ \A tt \in OwnTracks : Arrives(tt, n) =>
              \E o \in ToSet(tracks[n]) : o.steps > 0 /\ o.tag = tt.tag /\ o.of = tt.of
<1>1. trees \in Seq(Top)
  BY MadeLikeTrees
<1>2. n[1] \in DOMAIN trees
  BY <1>1, NodeHasATop
<1>3. n[2] = <<>> => Inherited(n[1]) = {tt \in ToSet(tracks[n]) : tt.born # n}
  <2>1. n[2] = <<>> => n = Root(n[1])
    BY <1>1, NodeHasATop DEF Root
  <2> QED
    BY <2>1 DEF Inherited
<1>4. Counts(n[1])
  BY <1>2, AllTracksAreCounted
<1>5. ASSUME NEW tt \in OwnTracks
      PROVE  /\ tt \in Track /\ tt \in ToSet(tracks[tt.born]) /\ tt.steps = tt.life /\ tt.life \in Int
             /\ StepsTo(tt)[n[1]] \in SUBSET Nat
  <2>1. /\ tt \in Track /\ tt \in ToSet(tracks[tt.born]) /\ tt.steps = tt.life /\ tt.life \in Int
        /\ tt.since \in Nat
    BY OwnTracksAre
  <2>2. StepsTo(tt)[n[1]] \in SUBSET Nat
    BY <1>2, <2>1, StepCases
  <2> QED
    BY <2>1, <2>2
<1>6. ASSUME NEW o \in ToSet(tracks[n]), o.steps > 0
      PROVE  \E tt \in OwnTracks : Arrives(tt, n) /\ tt.tag = o.tag /\ tt.of = o.of
  <2>1. TracksOf(n)
    BY DEF TracksInv
  <2>2. CASE o.born = n
    <3>1. o \in OwnTracks
      BY <2>2 DEF OwnTracks
    <3>2. o.steps = o.life /\ o.life \in Int
      BY <1>5, <3>1
    <3>3. Arrives(o, n)
      BY <1>6, <2>2, <3>2 DEF Arrives
    <3> QED
      BY <3>1, <3>3
  <2>3. CASE o.born # n
    <3>1. n[2] = <<>>
      BY <2>1, <2>3 DEF TracksOf
    <3>2. o \in Inherited(n[1])
      BY <1>3, <2>3, <3>1
    <3>3. PICK tt \in OwnTracks : \E k \in StepsTo(tt)[n[1]] : k < tt.life /\ o = After(tt, k)
      BY <1>4, <3>2 DEF Counts
    <3>4. PICK k \in StepsTo(tt)[n[1]] : k < tt.life /\ o = After(tt, k)
      BY <3>3
    <3>5. tt \in Track /\ tt.life \in Int /\ k \in Nat /\ k \in Int
      <4>1. tt \in Track /\ tt.life \in Int /\ StepsTo(tt)[n[1]] \in SUBSET Nat
        BY <1>5
      <4> QED
        BY <4>1
    <3>6. k + 1 <= tt.life
      BY <3>4, <3>5
    <3>7. Arrives(tt, n)
      BY <3>1, <3>6 DEF Arrives
    <3>8. o.tag = tt.tag /\ o.of = tt.of
      BY <3>4, <3>5, TracksAfter
    <3> QED
      BY <3>7, <3>8
  <2> QED
    BY <2>2, <2>3
<1>7. ASSUME NEW tt \in OwnTracks, Arrives(tt, n)
      PROVE  \E o \in ToSet(tracks[n]) : o.steps > 0 /\ o.tag = tt.tag /\ o.of = tt.of
  <2>1. /\ tt \in Track /\ tt \in ToSet(tracks[tt.born]) /\ tt.steps = tt.life /\ tt.life \in Int
        /\ StepsTo(tt)[n[1]] \in SUBSET Nat
    BY <1>5
  <2>2. CASE tt.born = n /\ 1 <= tt.life
    BY <2>1, <2>2
  <2>3. CASE n[2] = <<>> /\ \E j \in StepsTo(tt)[n[1]] : j + 1 <= tt.life
    <3>1. PICK j \in StepsTo(tt)[n[1]] : j + 1 <= tt.life
      BY <2>3
    <3>2. j \in Nat /\ j \in Int
      BY <2>1
    <3>3. j < tt.life
      BY <2>1, <3>1, <3>2
    <3>4. After(tt, j) \in Inherited(n[1])
      BY <1>4, <3>3 DEF Counts
    <3>5. After(tt, j) \in ToSet(tracks[n])
      BY <1>3, <2>3, <3>4
    <3>6. After(tt, j).steps > 0 /\ After(tt, j).tag = tt.tag /\ After(tt, j).of = tt.of
      <4>1. /\ After(tt, j).steps = tt.life - j
            /\ After(tt, j).tag = tt.tag /\ After(tt, j).of = tt.of
        BY <2>1, <3>2, TracksAfter, Zenon
      <4>2. tt.life - j > 0
        BY <2>1, <3>2, <3>3
      <4> QED
        BY <4>1, <4>2
    <3> QED
      BY <3>5, <3>6
  <2> QED
    BY <1>7, <2>2, <2>3 DEF Arrives
<1> QED
  BY <1>6, <1>7

\* What is made later does not change the ways to what is there.
LEMMA StepsStay ==
  ASSUME HistoryInv, NEW t \in Top, trees' = Append(trees, t),
         \A r \in DOMAIN trees : InputsOf(r)' = InputsOf(r), StepsInv', NEW tt, tt.since \in Nat
  PROVE  \A r \in DOMAIN trees : StepsTo(tt)'[r] = StepsTo(tt)[r]
<1>1. PICK old : old = StepsTo(tt)
  OBVIOUS
<1>2. PICK later : later = StepsTo(tt)'
  OBVIOUS
<1>3. Len(trees) \in Nat /\ DOMAIN trees = 1 .. Len(trees) /\ trees \in Seq(Top)
  BY MadeLikeTrees
<1>4. \A r \in DOMAIN trees : r \in DOMAIN trees'
  BY <1>3, TreesGrow
<1>5. ASSUME NEW r \in DOMAIN trees
      PROVE  \A k : k \in old[r] <=>
               /\ tt.since < r
               /\ \/ k = 1 /\ tt.born \in InputsOf(r)
                  \/ \E n \in InputsOf(r) : n[2] = <<>> /\ \E j \in old[n[1]] : k = j + 1
  <2>1. StepsAt(tt, r)
    BY StepsAlways DEF StepsInv
  <2> QED
    BY <1>1, <2>1 DEF StepsAt
<1>6. ASSUME NEW r \in DOMAIN trees
      PROVE  \A k : k \in later[r] <=>
               /\ tt.since < r
               /\ \/ k = 1 /\ tt.born \in InputsOf(r)
                  \/ \E n \in InputsOf(r) : n[2] = <<>> /\ \E j \in later[n[1]] : k = j + 1
  <2>1. StepsAt(tt, r)'
    BY <1>4 DEF StepsInv
  <2> QED
    BY <1>2, <2>1 DEF StepsAt
<1>7. ASSUME NEW r \in DOMAIN trees, \A n \in InputsOf(r) : old[n[1]] = later[n[1]],
             NEW k
      PROVE  k \in old[r] <=> k \in later[r]
  <2>1. \A n \in InputsOf(r) : \A j : j \in old[n[1]] <=> j \in later[n[1]]
    BY <1>7
  <2>2. (\E n \in InputsOf(r) : n[2] = <<>> /\ \E j \in old[n[1]] : k = j + 1) <=>
        (\E n \in InputsOf(r) : n[2] = <<>> /\ \E j \in later[n[1]] : k = j + 1)
    BY <2>1, Zenon
  <2>3. k \in old[r] <=>
          /\ tt.since < r
          /\ \/ k = 1 /\ tt.born \in InputsOf(r)
             \/ \E n \in InputsOf(r) : n[2] = <<>> /\ \E j \in old[n[1]] : k = j + 1
    BY <1>5, Zenon
  <2>4. k \in later[r] <=>
          /\ tt.since < r
          /\ \/ k = 1 /\ tt.born \in InputsOf(r)
             \/ \E n \in InputsOf(r) : n[2] = <<>> /\ \E j \in later[n[1]] : k = j + 1
    BY <1>6, Zenon
  <2> QED
    BY <2>2, <2>3, <2>4, Zenon
<1>8. ASSUME NEW r \in DOMAIN trees
      PROVE  old[r] \in SUBSET Nat /\ later[r] \in SUBSET Nat
  <2>1. StepsAt(tt, r)
    BY StepsAlways DEF StepsInv
  <2>2. StepsAt(tt, r)'
    BY <1>4 DEF StepsInv
  <2> QED
    BY <1>1, <1>2, <2>1, <2>2 DEF StepsAt
<1> DEFINE Good == {k \in 0 .. Len(trees) : \A r \in DOMAIN trees : r <= k => old[r] = later[r]}
<1>9. 0 \in Good
  BY <1>3
<1>10. ASSUME NEW k \in 0 .. Len(trees) - 1, k \in Good
       PROVE  k + 1 \in Good
  <2>1. k \in Nat /\ k + 1 \in DOMAIN trees /\ k + 1 \in 0 .. Len(trees)
    BY <1>3
  <2>2. \A n \in InputsOf(k + 1) : n[1] \in DOMAIN trees /\ n[1] <= k
    BY <2>1, InputsAreNodes
  <2>3. \A n \in InputsOf(k + 1) : old[n[1]] = later[n[1]]
    BY <1>10, <2>2
  <2>4. \A r \in DOMAIN trees : (\A n \in InputsOf(r) : old[n[1]] = later[n[1]]) => old[r] = later[r]
    BY <1>7, <1>8
  <2>5. old[k + 1] = later[k + 1]
    BY <2>1, <2>3, <2>4, Zenon
  <2>6. \A r \in DOMAIN trees : r <= k + 1 => r <= k \/ r = k + 1
    BY <1>3
  <2> QED
    BY <1>10, <2>1, <2>5, <2>6
<1> HIDE DEF Good
<1>11. 0 .. Len(trees) \subseteq Good
  BY <1>3, <1>9, <1>10, Climb, Zenon
<1>12. \A r \in DOMAIN trees : old[r] = later[r]
  BY <1>3, <1>11 DEF Good
<1> QED
  BY <1>1, <1>2, <1>12

\* A result descends from what its tags were found for.
LEMMA DescentOfAResult ==
  ASSUME HistoryInv, NEW a \in Algorithms, NEW x \in Node, NEW y \in Node, value(a, <<x, y>>),
         NEW n \in NewNodes(a.result), NEW u \in Top
  PROVE  IsDescendent(n, u)' <=> u \in NewAncestors(a, x, y, n)
<1>0. PICK t : t = a.result
  OBVIOUS
<1>1. PICK new : new = map_subshapes(a, <<x, y>>)
  OBVIOUS
<1>2. PICK mk : mk = [inputs |-> <<x, y>>, algorithm |-> a]
  OBVIOUS
<1>3. t \in Top /\ n \in NewNodes(t) /\ trees \in Seq(Top) /\ Len(trees) \in Nat
  BY <1>0, MadeLikeTrees, AlgorithmsAssumption DEF IsAlgorithm
<1>4. Grows(t, mk, new)
  BY <1>0, <1>1, <1>2, ValueKeepsHistory
<1>5. trees' = Append(trees, t) /\ new \in [NewNodes(t) -> SUBSET Node]
  BY <1>4 DEF Grows
<1>6. /\ Node' = Node \cup NewNodes(t) /\ \A m \in Node : TopOf(m)' = TopOf(m)
      /\ TopOf(n)' = TopAt[t][n[2]]
  BY <1>3, <1>5, NodesGrow
<1>7. /\ origins' \in [Node' -> SUBSET Node']
      /\ \A m \in Node : origins'[m] = origins[m]
      /\ origins'[n] = new[n] /\ new[n] \in SUBSET Node
  BY <1>3, <1>4, <1>5, OriginsGrow
<1>8. origins \in [Node -> SUBSET Node]
  BY DEF HistoryInv, TreesOK
<1>9. PICK M : M = Node'
  OBVIOUS
<1>10. PICK after : after = origins'
  OBVIOUS
<1>11. PICK d : d = Len(trees)
  OBVIOUS
<1>12. d \in Nat /\ Len(trees') = d + 1
  BY <1>3, <1>5, <1>11
<1>13. after \in [M -> SUBSET M] /\ n \in M /\ Node \subseteq M
       /\ \A m \in Node : after[m] = origins[m]
  BY <1>3, <1>6, <1>7, <1>9, <1>10
<1>14. \A m \in Node : Reach(after, m, d) = Reach(origins, m, d) /\ Reach(origins, m, d) \in SUBSET Node
  BY <1>8, <1>12, <1>13, ReachStays, ReachSteps
<1>15. Reach(after, n, d + 1) = {n} \cup UNION {Reach(after, m, d) : m \in after[n]}
  BY <1>12, <1>13, ReachFromTheFront
<1>16. Reach(after, n, d + 1) = {n} \cup UNION {Reach(origins, m, d) : m \in new[n]}
  BY <1>7, <1>10, <1>14, <1>15
<1>17. History(n, d + 1)' = Reach(after, n, d + 1)
  BY <1>10 DEF History, Reach, Near
<1>18. IsDescendent(n, u)' <=> \E m \in Reach(after, n, d + 1) : TopOf(m)' = u
  BY <1>12, <1>17 DEF IsDescendent, is_descendent_of
<1>19. \A m \in new[n] : \A k \in Reach(origins, m, d) : TopOf(k)' = TopOf(k)
  BY <1>6, <1>7, <1>14
<1>20. IsDescendent(n, u)' <=>
         u = TopAt[t][n[2]] \/ \E m \in new[n] : \E k \in Reach(origins, m, d) : TopOf(k) = u
  BY <1>6, <1>16, <1>18, <1>19
<1>21. \A m : IsDescendent(m, u) <=> \E k \in Reach(origins, m, d) : TopOf(k) = u
  BY <1>11, HistoryIsReach DEF IsDescendent, is_descendent_of
<1>22. u \in NewAncestors(a, x, y, n) <=> u = TopAt[t][n[2]] \/ \E m \in new[n] : IsDescendent(m, u)
  BY <1>0, <1>1 DEF NewAncestors
<1> QED
  BY <1>20, <1>21, <1>22

\* The nodes of the newest tree, and its ways.
LEMMA NewestNodes ==
  ASSUME trees \in Seq(Top), NEW t \in Top, trees' = Append(trees, t)
  PROVE  /\ \A r : r = Len(trees') => NodesOf(r)' = NewNodes(t)
         /\ \A n \in NewNodes(t) : IsFirst(n)' <=> n[2] \in FirstPaths[t]
<1>1. Len(trees') = Len(trees) + 1 /\ trees'[Len(trees) + 1] = t
  BY TreesGrow
<1>2. \A n \in NewNodes(t) : n[1] = Len(trees) + 1
  BY NewNodesAre
<1> QED
  BY <1>1, <1>2 DEF NodesOf, NewNodes, IsFirst

LEMMA TracksOfWrapped ==
  ASSUME HistoryInv, TracksInv, TracksInv', HistoryInv', StepsInv', NEW t \in Sources, Wrap(t)
  PROVE  TagsFollowTracks'
<1>1. t \in Top /\ trees \in Seq(Top) /\ trees' = Append(trees, t)
  BY MadeLikeTrees, PartAssumption DEF Wrap
<1>2. PICK last : last = Len(trees')
  OBVIOUS
<1>3. last \in DOMAIN trees' /\ last = Len(trees) + 1
  BY <1>1, <1>2, TreesGrow
<1>4. InputsOf(last)' = {}
  <2>1. PICK mk : mk = [inputs |-> <<>>]
    OBVIOUS
  <2>2. mk \in Make /\ made' = Append(made, mk) /\ ToSet(mk.inputs) = {}
    BY <2>1 DEF Make, Wrap, ToSet
  <2>3. TreesOK
    BY DEF HistoryInv
  <2> QED
    BY <1>1, <1>3, <2>2, <2>3, MadeGrows
<1>5. ASSUME NEW tt \in OwnTracks'
      PROVE  StepsTo(tt)'[last] = {}
  <2>1. tt.since \in Nat
    <3>1. PICK n \in Node' : tt \in {s \in ToSet(tracks'[n]) : s.born = n}
      BY DEF OwnTracks
    <3>2. tracks'[n] \in Seq(Track)
      BY DEF TracksInv
    <3>3. tt \in Track
      BY <3>1, <3>2 DEF ToSet
    <3> QED
      BY <3>3 DEF Track
  <2>2. StepsAt(tt, last)'
    BY <1>3, <2>1 DEF StepsInv
  <2> QED
    BY <1>4, <2>2 DEF StepsAt
<1>6. ASSUME NEW n \in NodesOf(last)'
      PROVE  tags'[n] = {tt.tag : tt \in {s \in OwnTracks' :
                          (\E k \in StepsTo(s)'[last] : k <= s.life) /\ IsDescendent(n, s.of)'}}
  <2>1. n \in NewNodes(t)
    BY <1>1, <1>2, NewestNodes
  <2>2. tags'[n] = {}
    BY <2>1, WrapKeepsTracks
  <2> QED
    BY <1>5, <2>2
<1> QED
  BY <1>2, <1>6 DEF TagsFollowTracks

LEMMA TracksOfAResult ==
  ASSUME HistoryInv, TracksInv, StepsInv', NEW a \in Algorithms, NEW x \in Node, NEW y \in Node,
         value(a, <<x, y>>)
  PROVE  TagsFollowTracks'
<1>0. PICK t : t = a.result
  OBVIOUS
<1>1. PICK mk : mk = [inputs |-> <<x, y>>, algorithm |-> a]
  OBVIOUS
<1>2. t \in Top /\ trees \in Seq(Top) /\ Len(trees) \in Nat /\ trees' = Append(trees, t)
  BY <1>0, MadeLikeTrees, AlgorithmsAssumption DEF IsAlgorithm, value
<1>3. PICK last : last = Len(trees')
  OBVIOUS
<1>4. last \in DOMAIN trees' /\ last = Len(trees) + 1
  BY <1>2, <1>3, TreesGrow
<1>5. /\ \A r \in DOMAIN trees : InputsOf(r)' = InputsOf(r)
      /\ InputsOf(last)' = {x, y}
  <2>1. x \in AnyNode /\ y \in AnyNode
    BY <1>2, NodeHasATop
  <2>2. mk \in Make /\ made' = Append(made, mk)
    BY <1>1, <2>1 DEF Make, value
  <2>3. ToSet(mk.inputs) = {x, y}
    BY <1>1, TwoInputs
  <2>4. TreesOK
    BY DEF HistoryInv
  <2>5. /\ \A r \in DOMAIN trees : InputsOf(r)' = InputsOf(r)
        /\ \A r : r = Len(trees) + 1 => InputsOf(r)' = ToSet(mk.inputs)
    BY <1>2, <2>2, <2>4, MadeGrows
  <2> QED
    BY <1>4, <2>3, <2>5
<1>6. /\ \A n \in Node : tracks'[n] = tracks[n]
      /\ \A n \in NewNodes(t) : NoneOfItsOwn(n)'
      /\ \A n \in NewNodes(t) : n[2] \in FirstPaths[t] =>
           tags'[n] = {tt.tag : tt \in {o \in ToSet(tracks[x]) \cup ToSet(tracks[y]) :
                                          o.steps > 0 /\ o.of \in NewAncestors(a, x, y, n)}}
  BY <1>0, ValueKeepsTracks
<1>7. OwnTracks' = OwnTracks
  <2>1. Node' = Node \cup NewNodes(t)
    BY <1>2, NodesGrow
  <2>2. \A n \in NewNodes(t) : {tt \in ToSet(tracks'[n]) : tt.born = n} = {}
    BY <1>6 DEF NoneOfItsOwn
  <2>3. OwnTracks' = UNION {{tt \in ToSet(tracks'[n]) : tt.born = n} : n \in Node'}
    BY DEF OwnTracks
  <2> QED
    BY <1>6, <2>1, <2>2, <2>3 DEF OwnTracks
<1>8. ASSUME NEW tt \in OwnTracks
      PROVE  (\E k \in StepsTo(tt)'[last] : k <= tt.life) <=> (Arrives(tt, x) \/ Arrives(tt, y))
  <2>1. tt.since \in Nat /\ tt.born \in Node /\ tt \in ToSet(tracks[tt.born])
    BY OwnTracksAre
  <2>2. tt.since < last
    <3>1. TracksOf(tt.born)
      BY <2>1 DEF TracksInv
    <3> QED
      BY <1>2, <1>4, <2>1, <3>1 DEF TracksOf
  <2>3. StepsAt(tt, last)'
    BY <1>4, <2>1 DEF StepsInv
  <2>4. ASSUME NEW n \in Node
        PROVE  StepsTo(tt)'[n[1]] = StepsTo(tt)[n[1]]
    <3>1. n[1] \in DOMAIN trees
      BY <1>2, NodeHasATop
    <3> QED
      BY <1>2, <1>5, <2>1, <3>1, StepsStay
  <2>5. PICK later : later = StepsTo(tt)'
    OBVIOUS
  <2>6. \A k : k \in later[last] <=>
          \/ k = 1 /\ tt.born \in {x, y}
          \/ \E n \in {x, y} : n[2] = <<>> /\ \E j \in StepsTo(tt)[n[1]] : k = j + 1
    <3>1. \A k : k \in later[last] <=>
            /\ tt.since < last
            /\ \/ k = 1 /\ tt.born \in InputsOf(last)'
               \/ \E n \in InputsOf(last)' : n[2] = <<>> /\ \E j \in later[n[1]] : k = j + 1
      BY <2>3, <2>5, Zenon DEF StepsAt
    <3>2. \A n \in {x, y} : later[n[1]] = StepsTo(tt)[n[1]]
      BY <2>4, <2>5
    <3>3. PICK ins : ins = InputsOf(last)'
      OBVIOUS
    <3>4. ins = {x, y}
      BY <1>5, <3>3
    <3>5. \A k : k \in later[last] <=>
            \/ k = 1 /\ tt.born \in ins
            \/ \E n \in ins : n[2] = <<>> /\ \E j \in later[n[1]] : k = j + 1
      <4>1. \A n : n \in ins <=> n \in InputsOf(last)'
        BY <3>3
      <4> QED
        BY <2>2, <3>1, <4>1, Zenon
    <3>6. \A n \in ins : \A j : j \in later[n[1]] <=> j \in StepsTo(tt)[n[1]]
      BY <3>2, <3>4
    <3>7. \A k : k \in later[last] <=>
            \/ k = 1 /\ tt.born \in ins
            \/ \E n \in ins : n[2] = <<>> /\ \E j \in StepsTo(tt)[n[1]] : k = j + 1
      BY <3>5, <3>6, Zenon
    <3> QED
      BY <3>4, <3>7, Zenon
  <2>7. (\E k \in later[last] : k <= tt.life) <=>
          \/ tt.born \in {x, y} /\ 1 <= tt.life
          \/ \E n \in {x, y} : n[2] = <<>> /\ \E j \in StepsTo(tt)[n[1]] : j + 1 <= tt.life
    BY <2>6
  <2> QED
    BY <2>5, <2>7 DEF Arrives
<1>9. ASSUME NEW n \in NewNodes(t), n[2] \in FirstPaths[t]
      PROVE  tags'[n] = {tt.tag : tt \in {s \in OwnTracks :
                          (\E k \in StepsTo(s)'[last] : k <= s.life) /\ IsDescendent(n, s.of)'}}
  <2> DEFINE A == NewAncestors(a, x, y, n)
  <2>1. tags'[n] = {tt.tag : tt \in {o \in ToSet(tracks[x]) \cup ToSet(tracks[y]) :
                                       o.steps > 0 /\ o.of \in A}}
    BY <1>6, <1>9
  <2>2. \A tt \in OwnTracks : IsDescendent(n, tt.of)' <=> tt.of \in A
    <3> SUFFICES ASSUME NEW tt \in OwnTracks
                 PROVE  IsDescendent(n, tt.of)' <=> tt.of \in A
      OBVIOUS
    <3>1. tt.of \in Top
      BY OwnTracksAre DEF Track
    <3> QED
      BY <1>0, <3>1, DescentOfAResult
  <2> HIDE DEF A
  <2>3. PICK own : own = {s \in OwnTracks : (Arrives(s, x) \/ Arrives(s, y)) /\ s.of \in A}
    OBVIOUS
  <2>4. own = {s \in OwnTracks : (\E k \in StepsTo(s)'[last] : k <= s.life) /\ IsDescendent(n, s.of)'}
    BY <1>8, <2>2, <2>3
  <2>5. {tt.tag : tt \in {o \in ToSet(tracks[x]) \cup ToSet(tracks[y]) :
                            o.steps > 0 /\ o.of \in A}} = {tt.tag : tt \in own}
    <3>1. ASSUME NEW m \in {x, y}
          PROVE  /\ \A o \in ToSet(tracks[m]) : o.steps > 0 =>
                      \E tt \in OwnTracks : Arrives(tt, m) /\ tt.tag = o.tag /\ tt.of = o.of
                 /\ \A tt \in OwnTracks : Arrives(tt, m) =>
                      \E o \in ToSet(tracks[m]) : o.steps > 0 /\ o.tag = tt.tag /\ o.of = tt.of
      BY ArrivingTracks
    <3>2. \A o \in ToSet(tracks[x]) \cup ToSet(tracks[y]) :
            (o.steps > 0 /\ o.of \in A) => \E tt \in own : tt.tag = o.tag
      BY <2>3, <3>1
    <3>3. \A tt \in own : \E o \in ToSet(tracks[x]) \cup ToSet(tracks[y]) :
            o.steps > 0 /\ o.of \in A /\ o.tag = tt.tag
      BY <2>3, <3>1
    <3> QED
      BY <3>2, <3>3
  <2> QED
    BY <2>1, <2>4, <2>5
<1>10. ASSUME NEW n \in NodesOf(last)', IsFirst(n)'
       PROVE  tags'[n] = {tt.tag : tt \in {s \in OwnTracks' :
                           (\E k \in StepsTo(s)'[last] : k <= s.life) /\ IsDescendent(n, s.of)'}}
  <2>1. n \in NewNodes(t) /\ n[2] \in FirstPaths[t]
    BY <1>2, <1>3, <1>10, NewestNodes
  <2> QED
    BY <1>7, <1>9, <2>1
<1> QED
  BY <1>3, <1>10 DEF TagsFollowTracks

LEMMA StepsOfEveryState == HistoryInv' => StepsInv'
BY StepsAlways, PTL

\* Every result gets its tags from the tracks that are not worn out on a way
\* to it and whose criterion it meets.
THEOREM ResultsGetTheirTags == Spec => ResultsAreTagged
<1>1. ASSUME HistoryInv, TracksInv, HistoryInv', TracksInv', [Next]_vars
      PROVE  [trees' # trees => TagsFollowTracks']_vars
  <2>1. StepsInv'
    BY <1>1, StepsOfEveryState
  <2>2. ASSUME trees' # trees PROVE TagsFollowTracks'
    <3>1. CASE \E t \in Sources : Wrap(t)
      BY <1>1, <2>1, <3>1, TracksOfWrapped
    <3>2. CASE \E a \in Algorithms :
                 \E x \in Candidates(a.inputs[1]), y \in Candidates(a.inputs[2]) : value(a, <<x, y>>)
      <4>1. PICK a \in Algorithms, x \in Node, y \in Node : value(a, <<x, y>>)
        BY <3>2 DEF Candidates
      <4> QED
        BY <1>1, <2>1, <4>1, TracksOfAResult
    <3>3. CASE \/ \E n \in Node :
                    \/ apply_tag_tracks(n)
                    \/ \E tag \in Tags :
                         \/ add_meta_tag(n, tag)
                         \/ \E of \in Targets : \/ add_meta_tag_to_subshapes(n, of, tag)
                                                \/ \E life \in Lives : add_tag_track(n, tag, of, life)
               \/ Finished \/ UNCHANGED vars
      BY <2>2, <3>3 DEF apply_tag_tracks, add_meta_tag, add_meta_tag_to_subshapes, add_tag_track,
                        Finished, vars
    <3> QED
      BY <1>1, <3>1, <3>2, <3>3 DEF Next
  <2> QED
    BY <2>2
<1>2. HistoryInv /\ TracksInv /\ (HistoryInv /\ TracksInv)' /\ [Next]_vars =>
        [trees' # trees => TagsFollowTracks']_vars
  BY <1>1
<1> QED
  BY <1>2, TracksAlways, PTL DEF Spec, ResultsAreTagged
=============================================================================
