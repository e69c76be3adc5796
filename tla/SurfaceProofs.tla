---------------------------- MODULE SurfaceProofs ----------------------------
(***************************************************************************)
(* Lofts are closed at their ends, and joined surfaces are smooth in the   *)
(* end, for all wires, networks and surfaces: the invariants behind that   *)
(* and the proofs that each step keeps them.                               *)
(***************************************************************************)
EXTENDS SurfTools, InterpolateWires, OrderLemmas

-----------------------------------------------------------------------------
(***************************************************************************)
(* SurfTools: surfaces and their knots.  Every operation makes surfaces of *)
(* surfaces, and those on knots leave the other direction alone.           *)
(***************************************************************************)
\* Knots with multiplicities, and of surfaces nothing but these and the degrees.
IsKnots(k) ==
  /\ Len(k) \in Nat /\ Len(k) >= 2
  /\ \E S : k \in Seq(S)
  /\ \A i \in 1 .. Len(k) : k[i].mult \in Nat

\* t is s with other knots in direction d.
HasKnots(t, s, d, k) ==
  /\ DOMAIN t = DOMAIN s /\ t.degree = s.degree
  /\ t.knots = [s.knots EXCEPT ![d] = k]

IsSurface(s) ==
  /\ DOMAIN s = {"knots", "degree", "patch"}
  /\ DOMAIN s.knots = Dirs /\ DOMAIN s.degree = Dirs
  /\ \A d \in Dirs : IsKnots(s.knots[d]) /\ s.degree[d] \in Nat

\* Whatever is made of knots is a list of knots again.
LEMMA KnotsMade ==
  ASSUME NEW n \in Nat, n >= 2, NEW k, k = [i \in 1 .. n |-> k[i]], \A i \in 1 .. n : k[i].mult \in Nat
  PROVE  IsKnots(k) /\ Len(k) = n /\ DOMAIN k = 1 .. n
<1> DEFINE S == {k[i] : i \in 1 .. n}
<1>1. \A i \in 1 .. n : k[i] \in S
  OBVIOUS
<1> HIDE DEF S
<1>2. k \in Seq(S)
  BY <1>1
<1>3. Len(k) = n /\ DOMAIN k = 1 .. n
  BY <1>2
<1> QED
  BY <1>2, <1>3 DEF IsKnots

LEMMA KnotsAre ==
  ASSUME NEW k, IsKnots(k)
  PROVE  DOMAIN k = 1 .. Len(k) /\ k = [i \in 1 .. Len(k) |-> k[i]]
BY DEF IsKnots

LEMMA SizeOf ==
  ASSUME NEW s, IsSurface(s), NEW d \in Dirs
  PROVE  /\ Size(s, d) \in Nat \ {0} /\ Len(s.knots[d]) = Size(s, d) + 1
         /\ DOMAIN s.knots[d] = 1 .. Size(s, d) + 1
<1>1. IsKnots(s.knots[d])
  BY DEF IsSurface
<1> QED
  BY <1>1, KnotsAre DEF Size, IsKnots

LEMMA Others == \A d \in Dirs : Other(d) \in Dirs /\ Other(d) # d /\ Dirs = {d, Other(d)}
BY DEF Dirs, Other

LEMMA KnotsPut ==
  ASSUME NEW s, IsSurface(s), NEW d \in Dirs, NEW k, IsKnots(k), NEW t, HasKnots(t, s, d, k)
  PROVE  /\ IsSurface(t) /\ t.knots[d] = k /\ t.knots[Other(d)] = s.knots[Other(d)]
         /\ t.degree = s.degree
BY Others DEF IsSurface, HasKnots

LEMMA ReversedIs ==
  ASSUME NEW s, IsSurface(s), NEW d \in Dirs
  PROVE  IsSurface(Reversed(s, d)) /\ Reversed(s, d).degree = s.degree
<1> DEFINE k == s.knots[d]
           l == Reversed(s, d).knots[d]
           n == Size(s, d) + 1
<1>1. n \in Nat /\ n >= 2 /\ Len(k) = n /\ DOMAIN k = 1 .. n /\ \A i \in 1 .. n : k[i].mult \in Nat
  BY SizeOf DEF IsSurface, IsKnots
<1>2. HasKnots(Reversed(s, d), s, d, l)
  BY DEF Reversed, IsSurface, HasKnots
<1>3. l = [i \in 1 .. n |-> [at |-> Begin(s, d) + End(s, d) - k[n + 1 - i].at, mult |-> k[n + 1 - i].mult]]
  BY <1>1 DEF Reversed, IsSurface
<1> HIDE DEF k, l, n
<1>4. l = [i \in 1 .. n |-> l[i]] /\ \A i \in 1 .. n : l[i].mult \in Nat
  BY <1>1, <1>3
<1>5. IsKnots(l)
  BY <1>1, <1>4, KnotsMade
<1> QED
  BY <1>2, <1>5, KnotsPut

LEMMA ExchangedIs ==
  ASSUME NEW s, IsSurface(s)
  PROVE  IsSurface(ExchangedUV(s))
BY DEF ExchangedUV, IsSurface, Dirs

\* Knots that are moved stay as many, and of the same multiplicities.
LEMMA SetKnotsIs ==
  ASSUME NEW s, IsSurface(s), NEW d \in Dirs, NEW at
  PROVE  /\ IsSurface(SetKnots(s, d, at)) /\ SetKnots(s, d, at).degree = s.degree
         /\ Size(SetKnots(s, d, at), d) = Size(s, d)
<1> DEFINE k == s.knots[d]
           t == SetKnots(s, d, at)
           l == t.knots[d]
           n == Size(s, d) + 1
<1>1. n \in Nat /\ n >= 2 /\ Len(k) = n /\ DOMAIN k = 1 .. n /\ \A i \in 1 .. n : k[i].mult \in Nat
  BY SizeOf DEF IsSurface, IsKnots
<1>2. HasKnots(t, s, d, l)
  BY DEF SetKnots, IsSurface, HasKnots
<1>3. l = [i \in 1 .. n |-> [at |-> at[i], mult |-> k[i].mult]]
  BY <1>1 DEF SetKnots, IsSurface
<1> HIDE DEF k, l, t
<1>4. l = [i \in 1 .. n |-> l[i]] /\ \A i \in 1 .. n : l[i].mult \in Nat
  BY <1>1, <1>3
<1>5. IsKnots(l) /\ Len(l) = n
  BY <1>1, <1>4, KnotsMade
<1>6. IsSurface(t) /\ t.knots[d] = l /\ t.degree = s.degree
  BY <1>2, <1>5, KnotsPut
<1>7. Size(t, d) = Size(s, d)
  BY <1>1, <1>5, <1>6 DEF Size
<1> QED
  BY <1>6, <1>7 DEF t

LEMMA ReparametrizeIs ==
  ASSUME NEW s, IsSurface(s), NEW d \in Dirs, NEW first, NEW last
  PROVE  /\ IsSurface(Reparametrize(s, d, first, last))
         /\ Reparametrize(s, d, first, last).degree = s.degree
         /\ Size(Reparametrize(s, d, first, last), d) = Size(s, d)
BY SetKnotsIs DEF Reparametrize

LEMMA SetMultsIs ==
  ASSUME NEW s, IsSurface(s), NEW d \in Dirs, NEW mult,
         \A i \in 1 .. Size(s, d) + 1 : mult[i] \in Nat
  PROVE  LET t == SetMults(s, d, mult) IN
         /\ IsSurface(t) /\ t.degree = s.degree /\ t.knots[Other(d)] = s.knots[Other(d)]
         /\ Size(t, d) = Size(s, d)
         /\ \A i \in 1 .. Size(s, d) + 1 : t.knots[d][i].mult = mult[i]
<1> DEFINE k == s.knots[d]
           t == SetMults(s, d, mult)
           l == t.knots[d]
           n == Size(s, d) + 1
<1>1. n \in Nat /\ n >= 2 /\ Len(k) = n /\ DOMAIN k = 1 .. n /\ \A i \in 1 .. n : k[i].mult \in Nat
  BY SizeOf DEF IsSurface, IsKnots
<1>2. HasKnots(t, s, d, l)
  BY DEF SetMults, IsSurface, HasKnots
<1>3. l = [i \in 1 .. n |-> [at |-> k[i].at, mult |-> mult[i]]]
  BY <1>1 DEF SetMults, IsSurface
<1> HIDE DEF k, l, t
<1>4. l = [i \in 1 .. n |-> l[i]] /\ \A i \in 1 .. n : l[i].mult = mult[i]
  BY <1>1, <1>3
<1>5. IsKnots(l) /\ Len(l) = n
  BY <1>1, <1>4, KnotsMade
<1>6. /\ IsSurface(t) /\ t.knots[d] = l /\ t.degree = s.degree
      /\ t.knots[Other(d)] = s.knots[Other(d)]
  BY <1>2, <1>5, KnotsPut
<1>7. Size(t, d) = Size(s, d)
  BY <1>1, <1>5, <1>6 DEF Size
<1> QED
  BY <1>4, <1>6, <1>7 DEF t

LEMMA IncreaseDegreeIs ==
  ASSUME NEW s, IsSurface(s), NEW d \in Dirs, NEW degree \in Nat
  PROVE  LET t == IncreaseDegree(s, d, degree) IN
         /\ IsSurface(t) /\ Size(t, d) = Size(s, d)
         /\ t.degree[d] \in {s.degree[d], degree}
<1> DEFINE k == s.knots[d]
           r == [s EXCEPT !.degree[d] = degree]
           mult == [i \in DOMAIN k |-> k[i].mult + degree - s.degree[d]]
<1>1. CASE degree <= s.degree[d]
  BY <1>1 DEF IncreaseDegree
<1>2. CASE ~ degree <= s.degree[d]
  <2>1. IsSurface(r) /\ r.degree[d] = degree /\ Size(r, d) = Size(s, d)
    BY DEF IsSurface, Size
  <2>2. \A i \in 1 .. Size(r, d) + 1 : mult[i] \in Nat
    <3>1. /\ Len(k) = Size(s, d) + 1 /\ DOMAIN k = 1 .. Size(s, d) + 1
          /\ \A i \in 1 .. Len(k) : k[i].mult \in Nat
      BY SizeOf DEF IsSurface, IsKnots
    <3>2. s.degree[d] \in Nat
      BY DEF IsSurface
    <3> HIDE DEF k, r
    <3> QED
      BY <1>2, <2>1, <3>1, <3>2
  <2>3. IncreaseDegree(s, d, degree) = SetMults(r, d, mult)
    BY <1>2 DEF IncreaseDegree
  <2> HIDE DEF r, mult
  <2> QED
    BY <2>1, <2>2, <2>3, SetMultsIs
<1> QED
  BY <1>1, <1>2

\* An interval is one of the surface, wherever the parameter is.
LEMMA IntervalIs ==
  ASSUME NEW s, IsSurface(s), NEW d \in Dirs, NEW t
  PROVE  Interval(s, d, t) \in 1 .. Size(s, d)
<1> DEFINE below == {1} \cup {i \in 1 .. Size(s, d) : s.knots[d][i].at <= t}
<1>1. Size(s, d) \in Nat \ {0}
  BY SizeOf
<1>2. below \subseteq 1 .. Size(s, d) /\ below # {} /\ below \in SUBSET Nat
  BY <1>1
<1>3. IsFiniteSet(below)
  <2>1. IsFiniteSet(1 .. Size(s, d))
    BY <1>1, FS_Interval
  <2> HIDE DEF below
  <2> QED
    BY <1>2, <2>1, FS_Subset
<1>4. Interval(s, d, t) = Max(below)
  BY DEF Interval
<1> HIDE DEF below
<1> QED
  BY <1>2, <1>3, <1>4, MaxIn

\* One longer, and nothing but what was there and the new one.
LEMMA InsertAtIs ==
  ASSUME NEW S, NEW k \in Seq(S), NEW e \in S, NEW i \in 1 .. Len(k) + 1
  PROVE  InsertAt(k, i, e) \in Seq(S) /\ Len(InsertAt(k, i, e)) = Len(k) + 1
<1> DEFINE before == SubSeq(k, 1, i - 1)
           behind == SubSeq(k, i, Len(k))
<1>1. before \in Seq(S) /\ Len(before) = i - 1
  OBVIOUS
<1>2. behind \in Seq(S) /\ Len(behind) = Len(k) + 1 - i
  OBVIOUS
<1>3. <<e>> \in Seq(S) /\ Len(<<e>>) = 1
  OBVIOUS
<1>4. InsertAt(k, i, e) = before \o <<e>> \o behind
  BY DEF InsertAt
<1> HIDE DEF before, behind
<1>5. before \o <<e>> \in Seq(S) /\ Len(before \o <<e>>) = i
  BY <1>1, <1>3
<1> QED
  BY <1>2, <1>4, <1>5

LEMMA InsertKnotIs ==
  ASSUME NEW s, IsSurface(s), NEW d \in Dirs, NEW knot, knot.mult \in Nat
  PROVE  LET t == InsertKnot(s, d, knot) IN
         IsSurface(t) /\ t.degree = s.degree /\ t.knots[Other(d)] = s.knots[Other(d)]
<1> DEFINE k == s.knots[d]
           t == InsertKnot(s, d, knot)
           n == Size(s, d) + 1
           T == {k[i] : i \in 1 .. n} \cup {knot}
<1>1. n \in Nat /\ n >= 2 /\ Len(k) = n /\ DOMAIN k = 1 .. n /\ \A i \in 1 .. n : k[i].mult \in Nat
  BY SizeOf DEF IsSurface, IsKnots
<1>2. \A x \in T : x.mult \in Nat
  BY <1>1
<1>3. CASE \E i \in DOMAIN k : k[i].at = knot.at
  <2> DEFINE l == [i \in DOMAIN k |-> IF k[i].at = knot.at /\ k[i].mult < knot.mult THEN knot ELSE k[i]]
  <2>1. HasKnots(t, s, d, l)
    BY <1>3 DEF InsertKnot, IsSurface, HasKnots
  <2>2. l = [i \in 1 .. n |-> l[i]] /\ \A i \in 1 .. n : l[i].mult \in Nat
    BY <1>1
  <2> HIDE DEF l, t
  <2>3. IsKnots(l)
    BY <1>1, <2>2, KnotsMade
  <2> QED
    BY <2>1, <2>3, KnotsPut DEF t
<1>4. CASE ~ \E i \in DOMAIN k : k[i].at = knot.at
  <2> DEFINE place == Interval(s, d, knot.at) + 1
             l == InsertAt(k, place, knot)
  <2>1. HasKnots(t, s, d, l)
    BY <1>4 DEF InsertKnot, IsSurface, HasKnots
  <2>2. place \in 1 .. Len(k) + 1
    <3>1. Interval(s, d, knot.at) \in 1 .. Size(s, d)
      BY IntervalIs
    <3>2. Size(s, d) \in Nat /\ Len(k) + 1 = Size(s, d) + 2
      BY <1>1, SizeOf
    <3> QED
      BY <3>1, <3>2
  <2>3. k \in Seq(T) /\ knot \in T
    <3>1. k = [i \in 1 .. n |-> k[i]]
      BY <1>1, KnotsAre DEF IsSurface
    <3>2. \A i \in 1 .. n : k[i] \in T
      OBVIOUS
    <3>3. knot \in T
      OBVIOUS
    <3> HIDE DEF k, n, T
    <3> QED
      BY <1>1, <3>1, <3>2, <3>3
  <2> HIDE DEF k, T, place, n
  <2>4. l \in Seq(T) /\ Len(l) = n + 1
    BY <1>1, <2>2, <2>3, InsertAtIs
  <2> HIDE DEF l, t
  <2>5. IsKnots(l)
    <3>1. \A i \in 1 .. Len(l) : l[i] \in T
      BY <2>4
    <3> QED
      BY <1>1, <1>2, <2>4, <3>1 DEF IsKnots
  <2> QED
    BY <2>1, <2>5, KnotsPut DEF t
<1> QED
  BY <1>3, <1>4

\* However many knots are inserted, and however often.
LEMMA InsertKnotsIs ==
  ASSUME NEW s, IsSurface(s), NEW d \in Dirs, NEW knots, Len(knots) \in Nat,
         \A i \in 1 .. Len(knots) : knots[i].mult \in Nat
  PROVE  LET t == InsertKnots(s, d, knots) IN
         IsSurface(t) /\ t.degree = s.degree /\ t.knots[Other(d)] = s.knots[Other(d)]
<1> DEFINE size == Len(knots)
           IsLoop(h, last) ==
             h = [n \in 0 .. last |-> IF n = 0 THEN s ELSE InsertKnot(h[n - 1], d, knots[n])]
           Keeps(t) ==
             IsSurface(t) /\ t.degree = s.degree /\ t.knots[Other(d)] = s.knots[Other(d)]
           bad == {last \in 0 .. size : ~ \E h : IsLoop(h, last)}
           with == CHOOSE h : IsLoop(h, size)
           off == {n \in 0 .. size : ~Keeps(with[n])}
<1>1. InsertKnots(s, d, knots) = with[size]
  BY DEF InsertKnots
<1>2. bad = {}
  <2>1. SUFFICES ASSUME bad # {} PROVE FALSE
    OBVIOUS
  <2>2. PICK least \in bad : \A x \in bad : least <= x
    <3>1. bad \in SUBSET Nat
      OBVIOUS
    <3> HIDE DEF bad
    <3> QED
      BY <2>1, <3>1, LeastNumber
  <2>3. least \in 0 .. size /\ ~ \E h : IsLoop(h, least)
    BY <2>2
  <2>4. CASE least = 0
    <3> DEFINE h == [n \in 0 .. 0 |-> s]
    <3>1. h = [n \in 0 .. 0 |-> IF n = 0 THEN s ELSE InsertKnot(h[n - 1], d, knots[n])]
      OBVIOUS
    <3>2. IsLoop(h, least)
      BY <2>4, <3>1
    <3> HIDE DEF h, IsLoop
    <3> QED
      BY <2>3, <3>2
  <2>5. CASE least # 0
    <3>1. least - 1 \in 0 .. size /\ least - 1 \notin bad
      <4>1. least - 1 \in 0 .. size /\ ~ least <= least - 1
        BY <2>3, <2>5
      <4> HIDE DEF bad
      <4> QED
        BY <2>2, <4>1
    <3>2. PICK h : IsLoop(h, least - 1)
      BY <3>1
    <3> DEFINE g == [n \in 0 .. least |->
                       IF n = least THEN InsertKnot(h[least - 1], d, knots[least]) ELSE h[n]]
    <3>3. ASSUME NEW n \in 0 .. least
          PROVE  g[n] = IF n = 0 THEN s ELSE InsertKnot(g[n - 1], d, knots[n])
      <4>1. CASE n = least
        <5>1. g[n] = InsertKnot(h[n - 1], d, knots[n]) /\ g[n - 1] = h[n - 1]
          BY <2>3, <2>5, <4>1
        <5> QED
          BY <2>5, <4>1, <5>1
      <4>2. CASE n # least
        <5>1. n \in 0 .. least - 1 /\ (n # 0 => n - 1 \in 0 .. least - 1)
          BY <2>3, <4>2
        <5>2. h[n] = IF n = 0 THEN s ELSE InsertKnot(h[n - 1], d, knots[n])
          BY <3>2, <5>1
        <5>3. g[n] = h[n] /\ (n # 0 => g[n - 1] = h[n - 1])
          BY <2>3, <4>2, <5>1
        <5> QED
          BY <5>2, <5>3
      <4> QED
        BY <4>1, <4>2
    <3>4. IsLoop(g, least)
      <4>1. g = [n \in 0 .. least |-> g[n]]
        OBVIOUS
      <4> HIDE DEF g
      <4> QED
        BY <3>3, <4>1, Zenon
    <3> HIDE DEF g, IsLoop
    <3> QED
      BY <2>3, <3>4
  <2> QED
    BY <2>4, <2>5
<1>3. IsLoop(with, size)
  <2>1. \E h : IsLoop(h, size)
    BY <1>2
  <2> HIDE DEF IsLoop
  <2> QED
    BY <2>1, Zenon
<1>4. \A n \in 0 .. size : with[n] = IF n = 0 THEN s ELSE InsertKnot(with[n - 1], d, knots[n])
  <2> HIDE DEF with
  <2> QED
    BY <1>3
<1> HIDE DEF with
<1>5. off = {}
  <2>1. SUFFICES ASSUME off # {} PROVE FALSE
    OBVIOUS
  <2>2. PICK least \in off : \A x \in off : least <= x
    <3>1. off \in SUBSET Nat
      OBVIOUS
    <3> HIDE DEF off
    <3> QED
      BY <2>1, <3>1, LeastNumber
  <2>3. least \in 0 .. size /\ ~Keeps(with[least])
    BY <2>2
  <2>4. least # 0
    BY <1>4, <2>3
  <2>5. least - 1 \in 0 .. size /\ least \in 1 .. size /\ ~ least <= least - 1
    BY <2>3, <2>4
  <2>6. Keeps(with[least - 1])
    <3>1. least - 1 \notin off
      BY <2>2, <2>5
    <3> HIDE DEF Keeps
    <3> QED
      BY <2>5, <3>1
  <2>7. with[least] = InsertKnot(with[least - 1], d, knots[least])
    BY <1>4, <2>3, <2>4
  <2> QED
    BY <2>3, <2>5, <2>6, <2>7, InsertKnotIs
<1> QED
  <2>1. size \in 0 .. size /\ size \notin off
    BY <1>5
  <2> HIDE DEF Keeps
  <2>2. Keeps(with[size])
    BY <2>1
  <2> QED
    BY <1>1, <2>2 DEF Keeps

\* A list that has an end to look at.
IsList(l) == Len(l) \in Nat \ {0} /\ \E S : l \in Seq(S)

LEMMA AppendIs ==
  ASSUME NEW l, IsList(l), NEW x
  PROVE  IsList(Append(l, x))
<1>1. PICK S : l \in Seq(S)
  BY DEF IsList
<1> DEFINE T == S \cup {x}
<1>2. l \in Seq(T) /\ x \in T
  <2>1. \A i \in 1 .. Len(l) : l[i] \in T
    BY <1>1
  <2> QED
    BY <1>1, <2>1
<1> HIDE DEF T
<1>3. Append(l, x) \in Seq(T) /\ Len(Append(l, x)) = Len(l) + 1
  BY <1>2
<1> QED
  BY <1>3 DEF IsList

\* The knots to be inserted are listed behind the first one.
LEMMA KnotsAboutIs ==
  ASSUME NEW s, IsSurface(s), NEW d \in Dirs, NEW failed
  PROVE  IsList(KnotsAbout(s, d, failed))
<1> DEFINE k == s.knots[d]
           size == Size(s, d)
           With(l, at) == IF Max({at - l[Len(l)], l[Len(l)] - at}) > KnotGap THEN Append(l, at) ELSE l
           Next1(l, i) == IF i \in failed
                          THEN With(With(l, (k[i].at + k[i - 1].at) \div 2), (k[i + 1].at + k[i].at) \div 2)
                          ELSE l
           first == <<k[1].at>>
           IsLoop(h, last) == h = [i \in 1 .. last |-> IF i = 1 THEN first ELSE Next1(h[i - 1], i)]
           bad == {last \in 1 .. size : ~ \E h : IsLoop(h, last)}
           about == CHOOSE h : IsLoop(h, size)
           off == {i \in 1 .. size : ~IsList(about[i])}
<1>1. KnotsAbout(s, d, failed) = about[size]
  BY DEF KnotsAbout
<1>2. size \in Nat \ {0}
  BY SizeOf
<1>3. IsList(first)
  <2>1. first \in Seq({k[1].at}) /\ Len(first) = 1
    OBVIOUS
  <2> HIDE DEF first
  <2> QED
    BY <2>1 DEF IsList
<1>4. ASSUME NEW l, IsList(l), NEW i
      PROVE  IsList(Next1(l, i))
  <2>1. \A m, at : IsList(m) => IsList(With(m, at))
    BY AppendIs
  <2> HIDE DEF With
  <2> QED
    BY <1>4, <2>1
<1> HIDE DEF k, With, Next1, first, size
<1>5. bad = {}
  <2>1. SUFFICES ASSUME bad # {} PROVE FALSE
    OBVIOUS
  <2>2. PICK least \in bad : \A x \in bad : least <= x
    <3>1. bad \in SUBSET Nat
      BY <1>2
    <3> HIDE DEF bad
    <3> QED
      BY <2>1, <3>1, LeastNumber
  <2>3. least \in 1 .. size /\ ~ \E h : IsLoop(h, least)
    BY <2>2
  <2>4. CASE least = 1
    <3> DEFINE h == [i \in 1 .. 1 |-> first]
    <3>1. h = [i \in 1 .. 1 |-> IF i = 1 THEN first ELSE Next1(h[i - 1], i)]
      OBVIOUS
    <3>2. IsLoop(h, least)
      BY <2>4, <3>1
    <3> HIDE DEF h, IsLoop
    <3> QED
      BY <2>3, <3>2
  <2>5. CASE least # 1
    <3>1. least - 1 \in 1 .. size /\ least - 1 \notin bad
      <4>1. least - 1 \in 1 .. size /\ ~ least <= least - 1
        BY <1>2, <2>3, <2>5
      <4> HIDE DEF bad
      <4> QED
        BY <2>2, <4>1
    <3>2. PICK h : IsLoop(h, least - 1)
      BY <3>1
    <3> DEFINE g == [i \in 1 .. least |-> IF i = least THEN Next1(h[least - 1], least) ELSE h[i]]
    <3>3. ASSUME NEW i \in 1 .. least
          PROVE  g[i] = IF i = 1 THEN first ELSE Next1(g[i - 1], i)
      <4>1. CASE i = least
        <5>1. g[i] = Next1(h[i - 1], i) /\ g[i - 1] = h[i - 1]
          BY <1>2, <2>3, <2>5, <4>1
        <5> QED
          BY <2>5, <4>1, <5>1
      <4>2. CASE i # least
        <5>1. i \in 1 .. least - 1 /\ (i # 1 => i - 1 \in 1 .. least - 1)
          BY <1>2, <2>3, <4>2
        <5>2. h[i] = IF i = 1 THEN first ELSE Next1(h[i - 1], i)
          BY <3>2, <5>1
        <5>3. g[i] = h[i] /\ (i # 1 => g[i - 1] = h[i - 1])
          BY <1>2, <2>3, <4>2, <5>1
        <5> QED
          BY <5>2, <5>3
      <4> QED
        BY <4>1, <4>2
    <3>4. IsLoop(g, least)
      <4>1. g = [i \in 1 .. least |-> g[i]]
        OBVIOUS
      <4> HIDE DEF g
      <4> QED
        BY <3>3, <4>1, Zenon
    <3> HIDE DEF g, IsLoop
    <3> QED
      BY <2>3, <3>4
  <2> QED
    BY <2>4, <2>5
<1>6. IsLoop(about, size)
  <2>1. \E h : IsLoop(h, size)
    BY <1>2, <1>5
  <2> HIDE DEF IsLoop
  <2> QED
    BY <2>1, Zenon
<1>7. \A i \in 1 .. size : about[i] = IF i = 1 THEN first ELSE Next1(about[i - 1], i)
  <2> HIDE DEF about
  <2> QED
    BY <1>6
<1> HIDE DEF about
<1>8. off = {}
  <2>1. SUFFICES ASSUME off # {} PROVE FALSE
    OBVIOUS
  <2>2. PICK least \in off : \A x \in off : least <= x
    <3>1. off \in SUBSET Nat
      BY <1>2
    <3> HIDE DEF off
    <3> QED
      BY <2>1, <3>1, LeastNumber
  <2>3. least \in 1 .. size /\ ~IsList(about[least])
    BY <2>2
  <2>4. least # 1
    BY <1>3, <1>7, <2>3
  <2>5. least - 1 \in 1 .. size /\ ~ least <= least - 1
    BY <1>2, <2>3, <2>4
  <2>6. IsList(about[least - 1])
    BY <2>2, <2>5
  <2>7. about[least] = Next1(about[least - 1], least)
    BY <1>7, <2>3, <2>4
  <2> QED
    BY <1>4, <2>3, <2>6, <2>7
<1> QED
  <2>1. size \in 1 .. size
    BY <1>2
  <2> QED
    BY <1>1, <1>8, <2>1

\* How smooth a surface is, is read off its inner knots.
LEMMA ContinuityIs ==
  ASSUME NEW s, IsSurface(s), NEW d \in Dirs
  PROVE  /\ Continuity(s, d) \in Int
         /\ \A c \in Int : (c <= 2 /\ \A i \in 2 .. Size(s, d) : s.degree[d] - s.knots[d][i].mult >= c)
              => Continuity(s, d) >= c
<1> DEFINE k == s.knots[d]
           n == Size(s, d) + 1
           mults == {k[i].mult : i \in 2 .. n - 1}
<1>1. n \in Nat /\ n >= 2 /\ Len(k) = n /\ DOMAIN k = 1 .. n /\ \A i \in 1 .. n : k[i].mult \in Nat
  BY SizeOf DEF IsSurface, IsKnots
<1>2. s.degree[d] \in Nat
  BY DEF IsSurface
<1>3. CASE n = 2
  BY <1>1, <1>3 DEF Continuity
<1>4. CASE n # 2
  <2>1. Continuity(s, d) = s.degree[d] - Max(mults)
    BY <1>1, <1>4 DEF Continuity
  <2>2. mults \in SUBSET Nat /\ mults # {}
    <3>1. 2 \in 2 .. n - 1 /\ \A i \in 2 .. n - 1 : i \in 1 .. n
      BY <1>1, <1>4
    <3> QED
      BY <1>1, <3>1
  <2>3. IsFiniteSet(mults)
    <3>1. IsFiniteSet(2 .. n - 1)
      BY <1>1, FS_Interval
    <3> DEFINE S == 2 .. n - 1
               f == [i \in S |-> k[i].mult]
    <3>2. mults = {f[i] : i \in S}
      OBVIOUS
    <3>3. f \in [S -> {f[i] : i \in S}]
      OBVIOUS
    <3> HIDE DEF f, mults, S
    <3>4. f \in Surjection(S, mults)
      BY <3>2, <3>3 DEF Surjection
    <3> QED
      BY <3>1, <3>4, FS_Surjection DEF S
  <2>4. Max(mults) \in mults
    <3> HIDE DEF mults
    <3> QED
      BY <2>2, <2>3, MaxIn
  <2>5. PICK i \in 2 .. n - 1 : Max(mults) = k[i].mult
    BY <2>4
  <2>6. i \in 2 .. Size(s, d) /\ k[i].mult \in Nat
    <3>1. Size(s, d) \in Nat /\ i \in 2 .. Size(s, d) /\ i \in 1 .. n
      BY <1>1, SizeOf
    <3> QED
      BY <1>1, <3>1
  <2> HIDE DEF mults, k, n
  <2>7. Continuity(s, d) = s.degree[d] - k[i].mult
    BY <2>1, <2>5
  <2> QED
    BY <1>2, <2>6, <2>7 DEF k
<1> QED
  BY <1>3, <1>4

\* It depends on nothing but the knots and the degree in its direction.
LEMMA ContinuityKept ==
  ASSUME NEW s, NEW t, NEW d, t.knots[d] = s.knots[d], t.degree = s.degree
  PROVE  Continuity(t, d) = Continuity(s, d)
BY DEF Continuity

\* The greater and the less of two.
LEMMA OfTwo ==
  /\ \A a, b \in Nat : Max({a, b}) \in Nat
  /\ \A a, b \in Int : Min({a, b}) \in Int
<1>1. ASSUME NEW a \in Nat, NEW b \in Nat
      PROVE  Max({a, b}) \in Nat
  <2>1. \E x \in {a, b} : \A y \in {a, b} : x >= y
    OBVIOUS
  <2> QED
    BY <2>1 DEF Max
<1>2. ASSUME NEW a \in Int, NEW b \in Int
      PROVE  Min({a, b}) \in Int
  <2>1. \E x \in {a, b} : \A y \in {a, b} : x =< y
    OBVIOUS
  <2> QED
    BY <2>1 DEF Min
<1> QED
  BY <1>1, <1>2

\* What two surfaces are turned, refined and put together to.
ArePair(p) == IsSurface(p[1]) /\ IsSurface(p[2])

LEMMA TurnedAre ==
  ASSUME NEW s, IsSurface(s), NEW t, IsSurface(t), NEW d \in Dirs
  PROVE  ArePair(Turned(s, t, d))
<1> DEFINE e == Other(d)
           s1 == IF IsCornerOf(Corner(s, 0), t) THEN Reversed(s, e) ELSE s
           t1 == IF IsCornerOf(Corner(t, FarCorner[d]), s1) THEN Reversed(t, e) ELSE t
           t2 == IF Corner(s1, Twist[d][1]) = Corner(t1, Twist[d][2]) THEN Reversed(t1, d) ELSE t1
<1>1. e \in Dirs
  BY Others
<1> HIDE DEF e
<1>2. IsSurface(s1)
  BY <1>1, ReversedIs
<1> HIDE DEF s1
<1>3. IsSurface(t1)
  BY <1>1, ReversedIs
<1> HIDE DEF t1
<1>4. IsSurface(t2)
  BY <1>3, ReversedIs
<1>5. Turned(s, t, d) = <<s1, t2>>
  BY DEF Turned, s1, t1, e
<1> HIDE DEF t2
<1> QED
  BY <1>2, <1>4, <1>5 DEF ArePair

LEMMA CommonKnotsAre ==
  ASSUME NEW p, ArePair(p), NEW d \in Dirs
  PROVE  ArePair(CommonKnots(p, d))
<1> DEFINE deg == Max({p[1].degree[d], p[2].degree[d]})
           s   == IncreaseDegree(p[1], d, deg)
           t   == IncreaseDegree(p[2], d, deg)
           mid == [i \in DOMAIN s.knots[d] |-> (s.knots[d][i].at + t.knots[d][i].at) \div 2]
           t1  == Reparametrize(t, d, Begin(s, d), End(s, d))
           s1  == InsertKnots(s, d, t1.knots[d])
           t2  == InsertKnots(t1, d, s1.knots[d])
<1>1. deg \in Nat
  BY OfTwo DEF ArePair, IsSurface
<1>2. CommonKnots(p, d) = IF Size(s, d) = Size(t, d) THEN <<SetKnots(s, d, mid), SetKnots(t, d, mid)>>
                          ELSE <<s1, t2>>
  BY DEF CommonKnots
<1> HIDE DEF deg
<1>3. IsSurface(s) /\ IsSurface(t)
  BY <1>1, IncreaseDegreeIs DEF ArePair
<1> HIDE DEF s, t, mid
<1>4. IsSurface(SetKnots(s, d, mid)) /\ IsSurface(SetKnots(t, d, mid))
  BY <1>3, SetKnotsIs
<1>5. IsSurface(t1)
  BY <1>3, ReparametrizeIs
<1> HIDE DEF t1
<1>6. \A r : IsSurface(r) => /\ Len(r.knots[d]) \in Nat
                             /\ \A i \in 1 .. Len(r.knots[d]) : r.knots[d][i].mult \in Nat
  BY DEF IsSurface, IsKnots
<1>7. IsSurface(s1)
  BY <1>3, <1>5, <1>6, InsertKnotsIs
<1> HIDE DEF s1
<1>8. IsSurface(t2)
  BY <1>5, <1>6, <1>7, InsertKnotsIs
<1> HIDE DEF t2
<1> QED
  BY <1>2, <1>4, <1>7, <1>8 DEF ArePair

LEMMA ComposedIs ==
  ASSUME NEW patch, NEW nu \in Nat \ {0}, NEW nv \in Nat \ {0}, NEW smooth \in BOOLEAN,
         NEW degree, DOMAIN degree = Dirs, \A d \in Dirs : degree[d] \in Nat
  PROVE  IsSurface(Composed(patch, nu, nv, degree, smooth))
<1> DEFINE t == Composed(patch, nu, nv, degree, smooth)
           n == [u |-> nu, v |-> nv]
           Width(d, i) == LET q == patch[IF d = "u" THEN <<i, 1>> ELSE <<1, i>>] IN
                          Apart(q[<<0, 0>>], q[IF d = "u" THEN <<1, 0>> ELSE <<0, 1>>])
           At(d, i) == MapThenSumSet(LAMBDA j : Width(d, j), 1 .. i)
           Knot(d, i) == [at |-> At(d, i),
                          mult |-> IF i \in {0, n[d]} THEN degree[d] + 1 ELSE IF smooth THEN 1 ELSE degree[d]]
           Knots(d) == [i \in 1 .. n[d] + 1 |-> Knot(d, i - 1)]
<1>1. /\ DOMAIN t = {"knots", "degree", "patch"} /\ t.degree = degree
      /\ DOMAIN t.knots = {"u", "v"} /\ t.knots["u"] = Knots("u") /\ t.knots["v"] = Knots("v")
  BY DEF Composed
<1>2. \A d \in Dirs : n[d] \in Nat \ {0}
  BY DEF Dirs
<1>3. ASSUME NEW d \in Dirs
      PROVE  IsKnots(Knots(d))
  <2> HIDE DEF n, At
  <2>1. n[d] + 1 \in Nat /\ n[d] + 1 >= 2 /\ degree[d] \in Nat
    BY <1>2
  <2>2. \A i : Knot(d, i).mult \in Nat
    BY <2>1
  <2> HIDE DEF Knot
  <2> DEFINE l == Knots(d)
  <2>3. l = [i \in 1 .. n[d] + 1 |-> l[i]] /\ \A i \in 1 .. n[d] + 1 : l[i].mult \in Nat
    BY <2>2
  <2> HIDE DEF l
  <2>4. IsKnots(l)
    BY <2>1, <2>3, KnotsMade
  <2> QED
    BY <2>4 DEF l
<1> HIDE DEF Knots, t
<1>4. \A d \in Dirs : t.knots[d] = Knots(d)
  BY <1>1 DEF Dirs
<1>5. IsSurface(t)
  BY <1>1, <1>3, <1>4 DEF IsSurface, Dirs
<1> QED
  BY <1>5 DEF t

LEMMA TogetherIs ==
  ASSUME NEW p, ArePair(p), NEW d \in Dirs, NEW smooth \in BOOLEAN
  PROVE  IsSurface(Together(p, d, smooth))
<1> DEFINE e      == Other(d)
           n1     == Size(p[1], e)
           n      == [x \in Dirs |-> IF x = d THEN Size(p[1], d) ELSE n1 + Size(p[2], e)]
           patch  == [ij \in (1 .. n["u"]) \X (1 .. n["v"]) |->
                        IF ij[Place(e)] <= n1 THEN p[1].patch[ij]
                        ELSE p[2].patch[[ij EXCEPT ![Place(e)] = @ - n1]]]
           degree == [u |-> Max({p[1].degree["u"], p[2].degree["u"]}),
                      v |-> Max({p[1].degree["v"], p[2].degree["v"]})]
           nu == n["u"]
           nv == n["v"]
<1>1. Together(p, d, smooth) = Composed(patch, nu, nv, degree, smooth)
  BY DEF Together
<1>2. nu \in Nat \ {0} /\ nv \in Nat \ {0}
  <2>1. e \in Dirs
    BY Others
  <2>2. Size(p[1], d) \in Nat \ {0} /\ Size(p[1], e) \in Nat \ {0} /\ Size(p[2], e) \in Nat \ {0}
    BY <2>1, SizeOf DEF ArePair
  <2> HIDE DEF e
  <2> QED
    BY <2>2 DEF Dirs
<1>3. DOMAIN degree = Dirs /\ \A x \in Dirs : degree[x] \in Nat
  BY OfTwo DEF ArePair, IsSurface, Dirs
<1> HIDE DEF patch, nu, nv, degree, n
<1> QED
  BY <1>1, <1>2, <1>3, ComposedIs

LEMMA JoinedIs ==
  ASSUME NEW s, IsSurface(s), NEW t, IsSurface(t), NEW d \in Dirs, NEW smooth \in BOOLEAN
  PROVE  IsSurface(Joined(s, t, d, smooth)[1]) /\ Joined(s, t, d, smooth)[2] \in Int
<1> DEFINE turned == Turned(s, t, d)
           common == CommonKnots(turned, d)
           all    == Together(common, d, smooth)
           e      == Other(d)
           Ranged(last) == Reparametrize(Reparametrize(all, d, Begin(s, d), End(s, d)), e, Begin(s, e), last)
           least   == Min({Continuity(turned[1], d), Continuity(turned[2], d)})
<1>1. ArePair(turned)
  BY TurnedAre
<1> HIDE DEF turned
<1>2. ArePair(common)
  BY <1>1, CommonKnotsAre
<1> HIDE DEF common
<1>3. IsSurface(all)
  BY <1>2, TogetherIs
<1> HIDE DEF all
<1>4. \A last : IsSurface(Ranged(last))
  BY <1>3, ReparametrizeIs, Others
<1>5. \E last : Joined(s, t, d, smooth)[1] = Ranged(last)
  BY DEF Joined, InRangeOf, turned, common, all
<1>6. least \in Int
  BY <1>1, ContinuityIs, OfTwo DEF ArePair
<1>7. Joined(s, t, d, smooth)[2] = least
  BY DEF Joined, turned
<1> HIDE DEF Ranged, least
<1> QED
  BY <1>4, <1>5, <1>6, <1>7

-----------------------------------------------------------------------------
(***************************************************************************)
(* SurfTools: the invariant.  Behind the last surface the smoothing along  *)
(* u comes to its end before that along v begins, which leaves the knots   *)
(* along u alone.                                                          *)
(***************************************************************************)
JoinTypeOK ==
  /\ surfaces \in Inputs
  /\ made = None \/ IsSurface(made)
  /\ next \in Nat \ {0, 1} /\ next <= Len(surfaces) + 3
  /\ step \in Dirs \cup {"join", "done"}
  /\ cont \in Int
  /\ err \in {0, 1}

\* Without a B-spline to begin with no surface is ever looked at.
NothingMade == made = None => next = 2 /\ step \notin Dirs

IsSmooth(s, d) == s.degree[d] > FinalContinuity => Continuity(s, d) >= FinalContinuity

OneAfterTheOther ==
  /\ next = Len(surfaces) + 2 =>
       IF step \in Dirs THEN step = "u" /\ cont = FinalContinuity ELSE IsSmooth(made, "u")
  /\ next = Len(surfaces) + 3 =>
       /\ IsSmooth(made, "u")
       /\ IF step \in Dirs THEN step = "v" /\ cont = FinalContinuity ELSE IsSmooth(made, "v")

DoneAtLast == /\ err # 0 => step = "done"
              /\ step = "done" /\ err = 0 => next = Len(surfaces) + 3

JoinInv == JoinTypeOK /\ NothingMade /\ OneAfterTheOther /\ DoneAtLast

LEMMA InputsAre ==
  ASSUME NEW ss \in Inputs
  PROVE  /\ Len(ss) \in Nat \ {0, 1}
         /\ \A i \in 1 .. Len(ss) : ss[i] = NotABSpline \/ IsSurface(ss[i])
<1>1. Len(ss) \in Nat \ {0, 1}
  BY SurfToolsAssumption
<1>2. ASSUME NEW i \in 1 .. Len(ss), ss[i] # NotABSpline
      PROVE  IsSurface(ss[i])
  <2> DEFINE s == ss[i]
  <2>1. IsBSpline(s)
    BY <1>2, SurfToolsAssumption
  <2> HIDE DEF s
  <2>2. ASSUME NEW d \in Dirs
        PROVE  IsKnots(s.knots[d])
    <3> DEFINE k == s.knots[d]
               Knot == [at : Int, mult : Nat \ {0}]
    <3>1. k \in Seq(Knot) /\ Len(k) >= 2
      BY <2>1 DEF IsBSpline, Dirs
    <3>2. \A x \in Knot : x.mult \in Nat
      OBVIOUS
    <3> HIDE DEF k, Knot
    <3>3. \A j \in 1 .. Len(k) : k[j].mult \in Nat
      BY <3>1, <3>2
    <3> QED
      BY <3>1, <3>3 DEF IsKnots, k
  <2>3. IsSurface(s)
    BY <2>1, <2>2 DEF IsBSpline, IsSurface, Dirs
  <2> QED
    BY <2>3 DEF s
<1> QED
  BY <1>1, <1>2

LEMMA InitJoinInv == JoinInit => JoinInv
<1> SUFFICES ASSUME JoinInit PROVE JoinInv
  OBVIOUS
<1>1. Len(surfaces) \in Nat \ {0, 1} /\ (made = None \/ IsSurface(made))
  <2>1. surfaces \in Inputs
    BY DEF JoinInit
  <2>2. 1 \in 1 .. Len(surfaces)
    BY <2>1, InputsAre
  <2> QED
    BY <2>1, <2>2, InputsAre DEF JoinInit
<1> QED
  BY <1>1 DEF JoinInit, JoinInv, JoinTypeOK, NothingMade, OneAfterTheOther, DoneAtLast, Dirs

LEMMA JoinInvSuffices == JoinInv => SmoothAtLast
<1> SUFFICES ASSUME JoinInv, step = "done", err = 0, NEW d \in Dirs
             PROVE  IsSmooth(made, d)
  BY DEF SmoothAtLast, IsSmooth
<1>1. next = Len(surfaces) + 3 /\ step \notin Dirs
  BY DEF JoinInv, DoneAtLast, Dirs
<1>2. IsSmooth(made, "u") /\ IsSmooth(made, "v")
  BY <1>1 DEF JoinInv, OneAfterTheOther
<1> QED
  BY <1>2 DEF Dirs

-----------------------------------------------------------------------------
(***************************************************************************)
(* SurfTools: the steps.                                                   *)
(***************************************************************************)
LEMMA ReturnJoinInv ==
  ASSUME JoinInv, NEW e \in {0, 1}, Return(e), step = "join",
         e = 0 => next = Len(surfaces) + 3
  PROVE  JoinInv'
BY DEF JoinInv, JoinTypeOK, NothingMade, OneAfterTheOther, DoneAtLast, IsSmooth, Return, Dirs

LEMMA JoinStepJoinInv == JoinInv /\ Join => JoinInv'
<1> SUFFICES ASSUME JoinInv, Join PROVE JoinInv'
  OBVIOUS
<1> DEFINE p == FirstOf(EqualMiddles(made, surfaces[next]))
           t == ExchangedFor(surfaces[next], p)
           d == Direction(p[1])
<1>1. /\ step = "join" /\ next <= Len(surfaces) /\ made # None /\ surfaces[next] # NotABSpline
      /\ JoinAlong(t, d) /\ next' = next + 1 /\ surfaces' = surfaces /\ err' = err
  BY DEF Join, JoinAt
<1>2. surfaces \in Inputs /\ IsSurface(made) /\ next \in 1 .. Len(surfaces) /\ Len(surfaces) \in Nat
  BY <1>1, InputsAre DEF JoinInv, JoinTypeOK
<1>3. d \in Dirs
  BY DEF Direction, Dirs
<1> HIDE DEF d
<1>4. IsSurface(t)
  <2>1. IsSurface(surfaces[next])
    BY <1>1, <1>2, InputsAre
  <2> HIDE DEF p
  <2> QED
    BY <2>1, ExchangedIs DEF ExchangedFor
<1> HIDE DEF t
<1>5. PICK smooth \in BOOLEAN : Make(Joined(made, t, d, smooth), d)
  BY <1>1 DEF JoinAlong
<1> DEFINE joined == Joined(made, t, d, smooth)
<1>6. IsSurface(joined[1]) /\ joined[2] \in Int
  BY <1>2, <1>3, <1>4, JoinedIs
<1>7. Make(joined, d)
  BY <1>5
<1> HIDE DEF joined
<1>8. /\ IsSurface(made') /\ made' # None
      /\ step' \in Dirs \cup {"join"} /\ cont' \in Int
  <2>1. made' = joined[1]
    BY <1>7 DEF Make
  <2>2. made' # None
    BY <1>6, <2>1 DEF IsSurface, None
  <2>3. step' \in Dirs \cup {"join"} /\ cont' \in Int
    BY <1>1, <1>3, <1>6, <1>7 DEF Make, Smooth, JoinInv, JoinTypeOK
  <2> QED
    BY <1>6, <2>1, <2>2, <2>3
<1>9. next' # Len(surfaces') + 2 /\ next' # Len(surfaces') + 3 /\ next' \in Nat \ {0, 1}
  BY <1>1, <1>2
<1>10. err' = 0 /\ step' # "done"
  BY <1>1, <1>8 DEF JoinInv, DoneAtLast, Dirs
<1> QED
  BY <1>1, <1>2, <1>8, <1>9, <1>10
     DEF JoinInv, JoinTypeOK, NothingMade, OneAfterTheOther, DoneAtLast

\* A surface that is smooth enough already goes on to the next direction.
LEMMA SmoothAllJoinInv == JoinInv /\ SmoothAll => JoinInv'
<1> SUFFICES ASSUME JoinInv, SmoothAll PROVE JoinInv'
  OBVIOUS
<1> DEFINE n == Len(surfaces)
           d == IF next = n + 1 THEN "u" ELSE "v"
<1>1. /\ step = "join" /\ next \in n + 1 .. n + 2
      /\ IF Continuity(made, d) < FinalContinuity THEN Smooth(d, FinalContinuity)
         ELSE UNCHANGED <<step, cont, iter>>
      /\ next' = next + 1 /\ surfaces' = surfaces /\ made' = made /\ err' = err
  BY DEF SmoothAll
<1>2. n \in Nat /\ n >= 2
  <2>1. surfaces \in Inputs
    BY DEF JoinInv, JoinTypeOK
  <2>2. n \in Nat \ {0, 1}
    BY <2>1, InputsAre
  <2> HIDE DEF n
  <2> QED
    BY <2>2
<1>3. IsSurface(made) /\ made # None
  <2>1. made # None
    BY <1>1, <1>2 DEF JoinInv, NothingMade
  <2> QED
    BY <2>1 DEF JoinInv, JoinTypeOK
<1>4. d \in Dirs
  BY DEF Dirs
<1>5. Continuity(made, d) \in Int
  BY <1>3, <1>4, ContinuityIs
<1> HIDE DEF d
<1>6. \/ step' = d /\ cont' = FinalContinuity
      \/ step' = "join" /\ cont' = cont /\ IsSmooth(made, d)
  BY <1>1, <1>5 DEF Smooth, IsSmooth, FinalContinuity
<1>7. \A x : IsSmooth(made', x) <=> IsSmooth(made, x)
  BY <1>1 DEF IsSmooth, FinalContinuity
<1>8. JoinTypeOK' /\ NothingMade' /\ DoneAtLast'
  <2>1. step' \in Dirs \cup {"join"} /\ cont' \in Int
    BY <1>4, <1>6 DEF FinalContinuity, JoinInv, JoinTypeOK
  <2>2. err' = 0 /\ step' # "done"
    BY <1>1, <2>1 DEF JoinInv, DoneAtLast, Dirs
  <2>3. next' \in Nat \ {0, 1} /\ next' <= n + 3
    BY <1>1, <1>2
  <2> QED
    BY <1>1, <1>3, <2>1, <2>2, <2>3 DEF JoinInv, JoinTypeOK, NothingMade, DoneAtLast
<1>9. OneAfterTheOther'
  <2>1. CASE next = n + 1
    <3>1. next' = n + 2 /\ next' # n + 3
      BY <1>1, <1>2, <2>1
    <3>2. (step' = "u" /\ cont' = FinalContinuity) \/ (step' = "join" /\ IsSmooth(made, "u"))
      BY <1>6, <2>1 DEF d
    <3> QED
      BY <1>1, <1>7, <3>1, <3>2 DEF OneAfterTheOther, Dirs, FinalContinuity
  <2>2. CASE next = n + 2
    <3>1. next' = n + 3 /\ next' # n + 2
      BY <1>1, <1>2, <2>2
    <3>2. (step' = "v" /\ cont' = FinalContinuity) \/ (step' = "join" /\ IsSmooth(made, "v"))
      BY <1>2, <1>6, <2>2 DEF d
    <3>3. IsSmooth(made, "u")
      BY <1>1, <2>2 DEF JoinInv, OneAfterTheOther, Dirs
    <3> QED
      BY <1>1, <1>7, <3>1, <3>2, <3>3 DEF OneAfterTheOther, Dirs, FinalContinuity
  <2> QED
    BY <1>1, <1>2, <2>1, <2>2
<1> QED
  BY <1>8, <1>9 DEF JoinInv

\* Behind a round in which nothing is left that could not be removed, no inner
\* knot along the direction is of too high a multiplicity.
LEMMA SmoothingIs ==
  ASSUME JoinInv, SmoothingRound
  PROVE  /\ IsSurface(made') /\ made'.degree = made.degree
         /\ made'.knots[Other(step)] = made.knots[Other(step)]
         /\ step' \in {step, "join"}
         /\ step' = "join" /\ cont = FinalContinuity =>
              IsSmooth(made', step)
<1> DEFINE m == made.degree[step] - cont
           high == TooHigh(made, step, m)
           mult(failed) ==
             [i \in DOMAIN made.knots[step] |-> IF i \in high \ failed THEN m ELSE made.knots[step][i].mult]
           left(failed) == SetMults(made, step, mult(failed))
           at(failed) == KnotsAbout(made, step, failed)
           more(failed) == [i \in 1 .. Len(at(failed)) - 1 |-> [at |-> at(failed)[i + 1], mult |-> m]]
           n == Size(made, step)
<1>1. step \in Dirs /\ made # None /\ IsSurface(made) /\ cont \in Int /\ step # "join"
  BY DEF SmoothingRound, JoinInv, JoinTypeOK, NothingMade, Dirs
<1>2. m \in Int /\ made.degree[step] \in Nat
  BY <1>1 DEF IsSurface
<1>3. IF m < 1 THEN step' = "join" /\ made' = made
      ELSE \E failed \in SUBSET high :
             IF failed = {} THEN step' = "join" /\ made' = left(failed)
             ELSE made' = InsertKnots(left(failed), step, more(failed)) /\ step' = step
  BY DEF SmoothingRound
<1>4. /\ n \in Nat \ {0} /\ DOMAIN made.knots[step] = 1 .. n + 1
      /\ \A i \in 1 .. n + 1 : made.knots[step][i].mult \in Nat
  BY <1>1, SizeOf DEF IsSurface, IsKnots
<1>5. \A i \in 2 .. n : i \in high <=> made.knots[step][i].mult > m
  BY DEF TooHigh
<1>6. CASE m < 1
  <2>1. step' = "join" /\ made' = made
    BY <1>3, <1>6
  <2>2. cont = FinalContinuity => ~ made.degree[step] > FinalContinuity
    BY <1>2, <1>6 DEF FinalContinuity
  <2> QED
    BY <1>1, <2>1, <2>2 DEF IsSmooth
<1>7. CASE ~ m < 1
  <2>1. m \in Nat
    BY <1>2, <1>7
  <2>2. PICK failed \in SUBSET high :
          IF failed = {} THEN step' = "join" /\ made' = left(failed)
          ELSE made' = InsertKnots(left(failed), step, more(failed)) /\ step' = step
    BY <1>3, <1>7
  <2> HIDE DEF m, high, n
  <2>3. \A i \in 1 .. n + 1 : mult(failed)[i] \in Nat
    BY <1>4, <2>1
  <2>4. LET t == left(failed) IN
        /\ IsSurface(t) /\ t.degree = made.degree /\ t.knots[Other(step)] = made.knots[Other(step)]
        /\ Size(t, step) = n
        /\ \A i \in 1 .. n + 1 : t.knots[step][i].mult = mult(failed)[i]
    <3> HIDE DEF mult
    <3> QED
      BY <1>1, <2>3, SetMultsIs DEF n
  <2>5. CASE failed = {}
    <3>1. \A i \in 2 .. n : mult(failed)[i] <= m
      BY <1>4, <1>5, <2>1, <2>5
    <3> DEFINE t == left(failed)
    <3>2. /\ IsSurface(t) /\ t.degree = made.degree /\ t.knots[Other(step)] = made.knots[Other(step)]
          /\ Size(t, step) = n /\ \A i \in 2 .. n : t.knots[step][i].mult = mult(failed)[i]
      <4> HIDE DEF mult, left
      <4> QED
        BY <1>4, <2>4
    <3>3. \A i \in 2 .. n : mult(failed)[i] \in Nat
      BY <1>4, <2>3
    <3>4. step' = "join" /\ made' = t
      BY <2>2, <2>5
    <3> HIDE DEF t, mult
    <3>5. ASSUME cont = FinalContinuity
          PROVE  Continuity(t, step) >= FinalContinuity
      <4>1. made.degree[step] - m = FinalContinuity
        BY <1>2, <3>5 DEF m, FinalContinuity
      <4>2. \A i \in 2 .. n : t.degree[step] - t.knots[step][i].mult >= FinalContinuity
        BY <1>2, <2>1, <3>1, <3>2, <3>3, <4>1 DEF FinalContinuity
      <4> QED
        BY <1>1, <3>2, <4>2, ContinuityIs DEF FinalContinuity
    <3> QED
      BY <3>2, <3>4, <3>5 DEF IsSmooth
  <2>6. CASE failed # {}
    <3> DEFINE t == left(failed)
               knots == more(failed)
    <3>1. IsSurface(t) /\ t.degree = made.degree /\ t.knots[Other(step)] = made.knots[Other(step)]
      BY <2>4
    <3>2. made' = InsertKnots(t, step, knots) /\ step' = step
      BY <2>2, <2>6
    <3>3. Len(knots) \in Nat /\ \A i \in 1 .. Len(knots) : knots[i].mult \in Nat
      <4>1. IsList(at(failed))
        BY <1>1, KnotsAboutIs
      <4> HIDE DEF at
      <4>2. Len(at(failed)) - 1 \in Nat
        BY <4>1 DEF IsList
      <4>3. Len(knots) = Len(at(failed)) - 1
        BY <4>2
      <4> QED
        BY <2>1, <4>2, <4>3
    <3> HIDE DEF t, knots
    <3>4. IsSurface(made') /\ made'.degree = t.degree /\ made'.knots[Other(step)] = t.knots[Other(step)]
      BY <1>1, <3>1, <3>2, <3>3, InsertKnotsIs
    <3> QED
      BY <1>1, <3>1, <3>2, <3>4
  <2> QED
    BY <2>5, <2>6
<1> QED
  BY <1>6, <1>7

LEMMA SmoothingJoinInv == JoinInv /\ SmoothingRound => JoinInv'
<1> SUFFICES ASSUME JoinInv, SmoothingRound PROVE JoinInv'
  OBVIOUS
<1>1. /\ step \in Dirs
      /\ surfaces' = surfaces /\ next' = next /\ cont' = cont /\ err' = err
  BY DEF SmoothingRound
<1>2. /\ IsSurface(made') /\ made'.degree = made.degree
      /\ made'.knots[Other(step)] = made.knots[Other(step)]
      /\ step' \in {step, "join"}
  BY SmoothingIs
<1>3. step' = "join" /\ cont = FinalContinuity => IsSmooth(made', step)
  BY SmoothingIs DEF IsSmooth, FinalContinuity
<1>4. made' # None
  BY <1>2 DEF IsSurface, None
<1>5. JoinTypeOK' /\ NothingMade' /\ DoneAtLast'
  BY <1>1, <1>2, <1>4 DEF JoinInv, JoinTypeOK, NothingMade, DoneAtLast, Dirs
<1>6. next = Len(surfaces) + 3 => IsSmooth(made', "u")
  <2>1. SUFFICES ASSUME next = Len(surfaces) + 3 PROVE IsSmooth(made', "u")
    OBVIOUS
  <2>2. step = "v" /\ IsSmooth(made, "u")
    BY <1>1, <2>1 DEF JoinInv, OneAfterTheOther
  <2>3. made'.knots["u"] = made.knots["u"]
    BY <1>2, <2>2 DEF Other
  <2>4. Continuity(made', "u") = Continuity(made, "u")
    BY <1>2, <2>3, ContinuityKept
  <2> QED
    BY <1>2, <2>2, <2>4 DEF IsSmooth, FinalContinuity
<1>7. OneAfterTheOther'
  <2>1. Len(surfaces) \in Nat
    <3>1. surfaces \in Inputs
      BY DEF JoinInv, JoinTypeOK
    <3> QED
      BY <3>1, InputsAre
  <2>2. /\ next = Len(surfaces) + 2 => step = "u" /\ cont = FinalContinuity
        /\ next = Len(surfaces) + 3 => step = "v" /\ cont = FinalContinuity
    BY <1>1 DEF JoinInv, OneAfterTheOther
  <2>3. /\ next = Len(surfaces) + 2 =>
             IF step' \in Dirs THEN step' = "u" /\ cont' = FinalContinuity ELSE IsSmooth(made', "u")
        /\ next = Len(surfaces) + 3 =>
             IF step' \in Dirs THEN step' = "v" /\ cont' = FinalContinuity ELSE IsSmooth(made', "v")
    BY <1>1, <1>2, <1>3, <2>2 DEF Dirs
  <2> QED
    BY <1>1, <1>6, <2>3 DEF OneAfterTheOther, FinalContinuity
<1> QED
  BY <1>5, <1>7 DEF JoinInv

LEMMA NextJoinInv == JoinInv /\ [JoinNext]_joinVars => JoinInv'
<1> SUFFICES ASSUME JoinInv, [JoinNext]_joinVars PROVE JoinInv'
  OBVIOUS
<1>1. CASE UNCHANGED joinVars
  BY <1>1 DEF joinVars, JoinInv, JoinTypeOK, NothingMade, OneAfterTheOther, DoneAtLast, IsSmooth
<1>2. CASE Join
  BY <1>2, JoinStepJoinInv
<1>3. CASE CannotJoin
  BY <1>3, ReturnJoinInv DEF CannotJoin
<1>4. CASE SmoothAll
  BY <1>4, SmoothAllJoinInv
<1>5. CASE Finish
  <2>1. step = "join" /\ next > Len(surfaces) + 2 /\ Return(err)
    BY <1>5 DEF Finish
  <2>2. Len(surfaces) \in Nat
    <3>1. surfaces \in Inputs
      BY DEF JoinInv, JoinTypeOK
    <3> QED
      BY <3>1, InputsAre
  <2>3. next = Len(surfaces) + 3 /\ err \in {0, 1}
    BY <2>1, <2>2 DEF JoinInv, JoinTypeOK
  <2> QED
    BY <2>1, <2>3, ReturnJoinInv
<1>6. CASE SmoothingRound
  BY <1>6, SmoothingJoinInv
<1> QED
  BY <1>1, <1>2, <1>3, <1>4, <1>5, <1>6 DEF JoinNext

\* However many surfaces are joined, however their u and v lie, and whichever
\* knots cannot be removed in whichever round: a surface that is returned
\* without an error is C2 in both directions if its degree is greater than 2.
\* Smoothing along v does not undo what was smoothed along u.
THEOREM JoinedSurfacesAreSmooth == JoinSpec => []SmoothAtLast
<1>1. JoinInit => JoinInv
  BY InitJoinInv
<1>2. JoinInv /\ [JoinNext]_joinVars => JoinInv'
  BY NextJoinInv
<1>3. JoinInv => SmoothAtLast
  BY JoinInvSuffices
<1> QED
  BY <1>1, <1>2, <1>3, PTL DEF JoinSpec

-----------------------------------------------------------------------------
(***************************************************************************)
(* MakePatches: the boundaries of a patch.  An end that moves to a knot with *)
(* its point leaves no sliver of the curve before it, and the four curves  *)
(* round a cell are arranged whichever way they run.                       *)
(***************************************************************************)
\* A knot of those in at, within the tolerance, or t itself if there is none.
LEMMA NearKnotIs ==
  ASSUME NEW t \in Int, NEW knots \in Seq(Int), NEW at \in SUBSET DOMAIN knots
  PROVE  \/ \E i \in at : NearKnot(t, knots, at) = knots[i] /\ Distance(t, knots[i]) <= KnotTol
         \/ NearKnot(t, knots, at) = t /\ \A i \in at : ~(Distance(t, knots[i]) <= KnotTol)
<1> DEFINE near == {i \in at : Distance(t, knots[i]) <= KnotTol}
<1>1. CASE near = {}
  <2>1. NearKnot(t, knots, at) = t
    BY <1>1 DEF NearKnot
  <2> QED
    BY <1>1, <2>1
<1>2. CASE near # {}
  <2>1. near \in SUBSET Nat
    OBVIOUS
  <2>2. Min(near) \in near
    <3> HIDE DEF near
    <3> QED
      BY <1>2, <2>1, MinIn
  <2>3. NearKnot(t, knots, at) = knots[Min(near)]
    BY <1>2 DEF NearKnot
  <2> QED
    BY <2>2, <2>3
<1> QED
  BY <1>1, <1>2

\* What Inside keeps are knots, between f and l.
LEMMA InsideIs ==
  ASSUME NEW knots \in Seq(Int), NEW f, NEW l
  PROVE  Inside(knots, f, l) \in Seq({knots[i] : i \in {j \in DOMAIN knots : f < knots[j] /\ knots[j] < l}})
<1> DEFINE E == {knots[i] : i \in {j \in DOMAIN knots : f < knots[j] /\ knots[j] < l}}
           ss == [i \in DOMAIN knots |-> IF f < knots[i] /\ knots[i] < l THEN <<knots[i]>> ELSE <<>>]
<1>1. \A i \in DOMAIN knots : (IF f < knots[i] /\ knots[i] < l THEN <<knots[i]>> ELSE <<>>) \in Seq(E)
  <2> SUFFICES ASSUME NEW i \in DOMAIN knots
               PROVE  (IF f < knots[i] /\ knots[i] < l THEN <<knots[i]>> ELSE <<>>) \in Seq(E)
    OBVIOUS
  <2>1. <<>> \in Seq(E)
    OBVIOUS
  <2>2. ASSUME f < knots[i] /\ knots[i] < l PROVE <<knots[i]>> \in Seq(E)
    <3>1. knots[i] \in E
      BY <2>2
    <3> HIDE DEF E
    <3> QED
      BY <3>1
  <2> QED
    BY <2>1, <2>2
<1>2. PICK n \in Nat : DOMAIN knots = 1 .. n
  OBVIOUS
<1>3. ss \in Seq(Seq(E))
  <2> HIDE DEF E
  <2> QED
    BY <1>1, <1>2
<1>4. Inside(knots, f, l) = FlattenSeq(ss)
  BY DEF Inside
<1> HIDE DEF E, ss
<1>5. Inside(knots, f, l) \in Seq(E)
  BY <1>3, <1>4, FlattenIsSequence
<1> QED
  BY <1>5 DEF E

\* A list between a first and a last number.
Framed(k, f, u, l) == k = <<f>> \o u \o <<l>>

LEMMA FramedIs ==
  ASSUME NEW S, NEW mid \in Seq(S), NEW f \in S, NEW l \in S, NEW k, Framed(k, f, mid, l)
  PROVE  /\ k \in Seq(S) /\ Len(k) = Len(mid) + 2 /\ k[1] = f /\ k[Len(k)] = l
         /\ \A i \in 1 .. Len(mid) : k[i + 1] = mid[i]
<1>1. PICK n \in Nat : n = Len(mid)
  OBVIOUS
<1>2. PICK b : b = <<f>>
  OBVIOUS
<1>3. PICK c : c = <<l>>
  OBVIOUS
<1>4. b \in Seq(S) /\ Len(b) = 1 /\ b[1] = f /\ c \in Seq(S) /\ Len(c) = 1 /\ c[1] = l
  BY <1>2, <1>3
<1>7. PICK a : a = b \o mid
  OBVIOUS
<1>8. k = a \o c
  BY <1>2, <1>3, <1>7, Zenon DEF Framed
<1>9. a \in Seq(S)
  BY <1>4, <1>7
<1>10. Len(a) = n + 1 /\ a[1] = f /\ \A i \in 1 .. n : a[1 + i] = mid[i]
  <2>1. /\ Len(b \o mid) = Len(b) + Len(mid)
        /\ \A j \in 1 .. Len(b) : (b \o mid)[j] = b[j]
        /\ \A v \in 1 .. Len(mid) : (b \o mid)[Len(b) + v] = mid[v]
    <3>1. b \in Seq(S) /\ mid \in Seq(S)
      BY <1>4
    <3> QED
      BY <3>1, JoinTwo
  <2> QED
    BY <1>1, <1>4, <1>7, <2>1
<1>11. Len(k) = n + 2 /\ k[n + 2] = l /\ \A i \in 1 .. n + 1 : k[i] = a[i]
  <2>1. /\ Len(a \o c) = Len(a) + Len(c)
        /\ \A j \in 1 .. Len(a) : (a \o c)[j] = a[j]
        /\ \A v \in 1 .. Len(c) : (a \o c)[Len(a) + v] = c[v]
    <3>1. a \in Seq(S) /\ c \in Seq(S)
      BY <1>4, <1>9
    <3> QED
      BY <3>1, JoinTwo
  <2>2. (a \o c)[Len(a) + 1] = l
    BY <1>4, <2>1
  <2>3. Len(a) + 1 = n + 2
    BY <1>10
  <2>4. (a \o c)[n + 2] = l /\ Len(a \o c) = n + 2 /\ Len(a) = n + 1
    BY <1>4, <1>10, <2>1, <2>2, <2>3
  <2>5. \A j \in 1 .. n + 1 : (a \o c)[j] = a[j]
    BY <2>1, <2>4
  <2> QED
    BY <1>8, <2>4, <2>5
<1>5. k \in Seq(S)
  BY <1>4, <1>8, <1>9
<1>6. k[1] = f
  BY <1>10, <1>11
<1>12. \A i \in 1 .. n : k[i + 1] = mid[i]
  <2> SUFFICES ASSUME NEW i \in 1 .. n PROVE k[i + 1] = mid[i]
    OBVIOUS
  <2>1. i + 1 \in 1 .. n + 1 /\ 1 + i = i + 1
    OBVIOUS
  <2>2. k[i + 1] = a[i + 1]
    BY <1>11, <2>1
  <2>3. a[1 + i] = mid[i]
    BY <1>10
  <2> QED
    BY <2>1, <2>2, <2>3
<1> QED
  BY <1>1, <1>5, <1>6, <1>11, <1>12

\* Where an end has moved to a knot with its point, that knot is not inside any
\* more, and where it has not, no knot with its point is near.
LEMMA EndIsGood ==
  ASSUME NEW t \in Int, NEW knots \in Seq(Int), NEW at \in SUBSET DOMAIN knots, NEW inside,
         NearKnot(t, knots, at) \notin inside
  PROVE  IsGoodEnd(t, knots, at, NearKnot(t, knots, at), inside)
<1>1. PICK end : end = NearKnot(t, knots, at)
  OBVIOUS
<1>2. CASE \E i \in at : end = knots[i] /\ Distance(t, knots[i]) <= KnotTol
  <2>1. PICK i \in at : end = knots[i] /\ Distance(t, knots[i]) <= KnotTol
    BY <1>2
  <2>2. ASSUME NEW j \in at, knots[j] \in inside PROVE i # j /\ knots[i] = end
    BY <1>1, <2>1, <2>2
  <2>3. Distance(t, end) <= KnotTol
    BY <2>1
  <2> QED
    BY <1>1, <2>1, <2>2, <2>3, Zenon DEF IsGoodEnd
<1>3. CASE end = t /\ \A i \in at : ~(Distance(t, knots[i]) <= KnotTol)
  BY <1>1, <1>3, Zenon DEF IsGoodEnd
<1> QED
  BY <1>1, <1>2, <1>3, NearKnotIs

LEMMA NoSlivers == ASSUME NEW e, IsEdge(e) PROVE HasNoSlivers(e)
<1>1. PICK knots \in Seq(Int) : knots = e.knots
  BY DEF IsEdge
<1>2. PICK first \in Int, last \in Int : first = e.f /\ last = e.l
  BY DEF IsEdge
<1>3. PICK atF \in SUBSET DOMAIN knots, atL \in SUBSET DOMAIN knots : atF = e.atF /\ atL = e.atL
  BY <1>1 DEF IsEdge
<1>4. first + 2 * KnotTol < last /\ KnotTol \in Nat
  BY <1>2, MakePatchesAssumption DEF IsEdge
<1>5. PICK f : f = NearKnot(first, knots, atF)
  OBVIOUS
<1>6. PICK l : l = NearKnot(last, knots, atL)
  OBVIOUS
<1>7. f \in Int /\ f <= first + KnotTol
  <2>1. CASE \E i \in atF : f = knots[i] /\ Distance(first, knots[i]) <= KnotTol
    <3>1. PICK i \in atF : f = knots[i] /\ Distance(first, knots[i]) <= KnotTol
      BY <2>1
    <3>2. knots[i] \in Int
      OBVIOUS
    <3> QED
      BY <1>4, <3>1, <3>2 DEF Distance
  <2>2. CASE f = first
    BY <1>4, <2>2
  <2> QED
    BY <1>5, <2>1, <2>2, NearKnotIs
<1>8. l \in Int /\ last - KnotTol <= l
  <2>1. CASE \E i \in atL : l = knots[i] /\ Distance(last, knots[i]) <= KnotTol
    <3>1. PICK i \in atL : l = knots[i] /\ Distance(last, knots[i]) <= KnotTol
      BY <2>1
    <3>2. knots[i] \in Int
      OBVIOUS
    <3> QED
      BY <1>4, <3>1, <3>2 DEF Distance
  <2>2. CASE l = last
    BY <1>4, <2>2
  <2> QED
    BY <1>6, <2>1, <2>2, NearKnotIs
<1>9. f < l
  BY <1>4, <1>7, <1>8
<1> DEFINE E == {knots[i] : i \in {j \in DOMAIN knots : f < knots[j] /\ knots[j] < l}}
<1>10. ASSUME NEW x \in E PROVE x \in Int /\ x # f /\ x # l
  BY <1>7, <1>8
<1>11. PICK u : u = Inside(knots, f, l)
  OBVIOUS
<1>12. u \in Seq(E)
  BY <1>11, InsideIs
<1> HIDE DEF E
<1>13. u \in Seq(Int)
  BY <1>10, <1>12
<1>14. PICK k : k = <<f>> \o u \o <<l>>
  OBVIOUS
<1>15. Trimmed(e).knots = k
  BY <1>1, <1>2, <1>3, <1>5, <1>6, <1>11, <1>14 DEF Trimmed
<1>16. /\ k \in Seq(Int) /\ Len(k) = Len(u) + 2 /\ k[1] = f /\ k[Len(k)] = l
       /\ \A i \in 1 .. Len(u) : k[i + 1] = u[i]
  BY <1>7, <1>8, <1>13, <1>14, FramedIs DEF Framed
<1>17. PICK inside : inside = {k[i] : i \in 2 .. Len(k) - 1}
  OBVIOUS
<1>18. f \notin inside /\ l \notin inside
  <2>1. ASSUME NEW i \in 2 .. Len(k) - 1 PROVE k[i] # f /\ k[i] # l
    <3>1. PICK j \in 1 .. Len(u) : j + 1 = i
      <4>1. Len(u) \in Nat
        BY <1>13
      <4>2. i - 1 \in 1 .. Len(u) /\ (i - 1) + 1 = i
        BY <1>16, <4>1
      <4> QED
        BY <4>2
    <3>2. k[i] = u[j] /\ u[j] \in E
      BY <1>12, <1>16, <3>1
    <3> QED
      BY <1>10, <3>2
  <2> QED
    BY <1>17, <2>1
<1>19. IsGoodEnd(first, knots, atF, f, inside)
  BY <1>5, <1>18, EndIsGood
<1>20. IsGoodEnd(last, knots, atL, l, inside)
  BY <1>6, <1>18, EndIsGood
<1> QED
  BY <1>1, <1>2, <1>3, <1>9, <1>15, <1>16, <1>17, <1>19, <1>20, Zenon DEF HasNoSlivers

\* Where a curve begins and where it ends.
Ends(c) == {c.from, c.to}

\* Opposite boundaries stay where they are, and become alike.
AsCompatible(p, c, d) ==
  /\ Ends(p[1]) = Ends(c) /\ Ends(p[2]) = Ends(d) /\ p[1].from = c.from /\ p[2].from = d.from
  /\ p[1].degree = p[2].degree /\ p[1].knots = p[2].knots

\* The degree is raised by what the knots are, and nothing else is changed.
LEMMA RaisedIs ==
  ASSUME NEW c, NEW knots, NEW degree, NEW style
  PROVE  LET r == Raised(WithKnots(c, knots, degree), style) IN
         /\ Ends(r) = Ends(c) /\ r.from = c.from /\ r.knots = knots
         /\ r.degree = IF degree + Len(knots) - 1 >= MinPoles(style) THEN degree
                       ELSE degree + MinPoles(style) - (degree + Len(knots) - 1)
<1> DEFINE w == WithKnots(c, knots, degree)
           poles == degree + Len(knots) - 1
           r == Raised(w, style)
<1>1. w = [from |-> c.from, to |-> c.to, degree |-> degree, knots |-> knots]
  BY DEF WithKnots
<1>2. r = IF poles >= MinPoles(style) THEN w ELSE [w EXCEPT !.degree = @ + MinPoles(style) - poles]
  BY <1>1 DEF Raised
<1> HIDE DEF poles
<1>3. r = [from |-> c.from, to |-> c.to, knots |-> knots,
           degree |-> IF poles >= MinPoles(style) THEN degree ELSE degree + MinPoles(style) - poles]
  BY <1>1, <1>2
<1> HIDE DEF r, w
<1>4. /\ Ends(r) = Ends(c) /\ r.from = c.from /\ r.knots = knots
      /\ r.degree = IF poles >= MinPoles(style) THEN degree ELSE degree + MinPoles(style) - poles
  BY <1>3 DEF Ends
<1> QED
  BY <1>4 DEF r, w, poles

LEMMA CompatibleIs ==
  ASSUME NEW c, NEW d, NEW style
  PROVE  AsCompatible(MadeCompatible(c, d, style), c, d)
<1>1. ASSUME NEW knots, NEW degree
      PROVE  AsCompatible(<<Raised(WithKnots(c, knots, degree), style),
                            Raised(WithKnots(d, knots, degree), style)>>, c, d)
  <2>1. PICK r : r = Raised(WithKnots(c, knots, degree), style)
    OBVIOUS
  <2>2. PICK s : s = Raised(WithKnots(d, knots, degree), style)
    OBVIOUS
  <2>3. Ends(r) = Ends(c) /\ r.from = c.from /\ Ends(s) = Ends(d) /\ s.from = d.from
    BY <2>1, <2>2, RaisedIs
  <2>4. r.degree = s.degree /\ r.knots = s.knots
    BY <2>1, <2>2, RaisedIs
  <2>5. PICK p : p = <<r, s>>
    OBVIOUS
  <2>6. p[1] = r /\ p[2] = s
    BY <2>5
  <2>7. AsCompatible(p, c, d)
    BY <2>3, <2>4, <2>6, Zenon DEF AsCompatible
  <2> QED
    BY <2>1, <2>2, <2>5, <2>7, Zenon
<1>2. CASE SameDistribution(c, d)
  <2>1. PICK knots : knots = [i \in DOMAIN c.knots |-> (c.knots[i] + d.knots[i]) \div 2]
    OBVIOUS
  <2>2. c.degree = d.degree
    BY <1>2 DEF SameDistribution
  <2>3. Averaged(c, d) = <<WithKnots(c, knots, c.degree), WithKnots(d, knots, c.degree)>>
    BY <2>1, <2>2, Zenon DEF Averaged
  <2>4. PICK w : w = WithKnots(c, knots, c.degree)
    OBVIOUS
  <2>5. PICK x : x = WithKnots(d, knots, c.degree)
    OBVIOUS
  <2>6. MadeCompatible(c, d, style) = <<Raised(w, style), Raised(x, style)>>
    <3>1. PICK p : p = Averaged(c, d)
      OBVIOUS
    <3>2. p[1] = w /\ p[2] = x
      BY <2>3, <2>4, <2>5, <3>1
    <3>3. MadeCompatible(c, d, style) = <<Raised(p[1], style), Raised(p[2], style)>>
      BY <1>2, <3>1 DEF MadeCompatible
    <3> QED
      BY <3>2, <3>3, Zenon
  <2> QED
    BY <1>1, <2>4, <2>5, <2>6, Zenon
<1>3. CASE ~SameDistribution(c, d)
  <2>1. PICK knots : knots = SetToSortSeq(Relative(c) \cup Relative(d), <)
    OBVIOUS
  <2>2. PICK degree : degree = Max({c.degree, d.degree})
    OBVIOUS
  <2>3. Profiled(c, d) = <<WithKnots(c, knots, degree), WithKnots(d, knots, degree)>>
    BY <2>1, <2>2, Zenon DEF Profiled
  <2>4. PICK w : w = WithKnots(c, knots, degree)
    OBVIOUS
  <2>5. PICK x : x = WithKnots(d, knots, degree)
    OBVIOUS
  <2>6. MadeCompatible(c, d, style) = <<Raised(w, style), Raised(x, style)>>
    <3>1. PICK p : p = Profiled(c, d)
      OBVIOUS
    <3>2. p[1] = w /\ p[2] = x
      BY <2>3, <2>4, <2>5, <3>1
    <3>3. MadeCompatible(c, d, style) = <<Raised(p[1], style), Raised(p[2], style)>>
      BY <1>3, <3>1 DEF MadeCompatible
    <3> QED
      BY <3>2, <3>3, Zenon
  <2> QED
    BY <1>1, <2>4, <2>5, <2>6, Zenon
<1> QED
  BY <1>2, <1>3

\* Four curves round a frame.
IsRound(c) ==
  /\ \A i \in 1 .. 4 : c[i].from # c[i].to /\ Meet(c[i], c[(i % 4) + 1])
  /\ ~Meet(c[1], c[3]) /\ ~Meet(c[2], c[4])

\* s has the first and the third curve where they are, and one of the others at
\* the end of the first, the other from where the first begins.
GoesRound(s, c, i) ==
  /\ s[1] = c[1] /\ s[2] = c[i] /\ s[3] = c[3]
  /\ s[4].from = c[1].from /\ Ends(s[4]) = Ends(c[6 - i])

\* BuildSurface finds the boundary on either side, whichever way they run.
LEMMA ArrangedIs ==
  ASSUME NEW c, IsRound(c), Len(c) = 4
  PROVE  \E i \in {2, 4} : GoesRound(Arranged(c), c, i) /\ Arranged(c) # NoSurface
<1>1. /\ Ends(c[1]) \cap Ends(c[2]) # {} /\ Ends(c[4]) \cap Ends(c[1]) # {}
      /\ Ends(c[1]) \cap Ends(c[3]) = {} /\ Ends(c[2]) \cap Ends(c[4]) = {}
  <2>1. Meet(c[1], c[(1 % 4) + 1]) /\ Meet(c[4], c[(4 % 4) + 1])
    BY DEF IsRound
  <2>2. (1 % 4) + 1 = 2 /\ (4 % 4) + 1 = 1
    OBVIOUS
  <2>3. Meet(c[1], c[2]) /\ Meet(c[4], c[1])
    BY <2>1, <2>2
  <2> QED
    BY <2>3 DEF IsRound, Meet, Ends
<1>2. PICK p, q : p = c[1].from /\ q = c[1].to
  OBVIOUS
<1>3. Ends(c[1]) = {p, q} /\ p # q
  BY <1>2 DEF IsRound, Ends
<1>4. PICK i \in {2, 4} : /\ p \in Ends(c[6 - i]) /\ p \notin Ends(c[i]) /\ q \in Ends(c[i]) /\ q \notin Ends(c[6 - i])
  <2>1. CASE p \in Ends(c[4])
    <3>1. 6 - 2 = 4
      OBVIOUS
    <3>2. /\ p \in Ends(c[4]) /\ p \notin Ends(c[2]) /\ q \in Ends(c[2]) /\ q \notin Ends(c[4])
      BY <1>1, <1>3, <2>1
    <3> QED
      BY <3>1, <3>2
  <2>2. CASE p \notin Ends(c[4])
    <3>1. 6 - 4 = 2
      OBVIOUS
    <3>2. /\ p \in Ends(c[2]) /\ p \notin Ends(c[4]) /\ q \in Ends(c[4]) /\ q \notin Ends(c[2])
      BY <1>1, <1>3, <2>2
    <3> QED
      BY <3>1, <3>2
  <2> QED
    BY <2>1, <2>2
<1>5. PICK j \in {2, 4} : j = 6 - i /\ j # i
  BY <1>4
<1>6. Touching(c, 2 .. Len(c), p) = {j}
  <2>1. 2 .. Len(c) = {2, 3, 4}
    OBVIOUS
  <2>2. p \notin Ends(c[3])
    BY <1>1, <1>3
  <2>3. \A k : k \in Touching(c, 2 .. Len(c), p) <=> k \in {2, 3, 4} /\ p \in Ends(c[k])
    BY <2>1 DEF Touching, Ends
  <2> QED
    BY <1>4, <1>5, <2>2, <2>3
<1>7. Min({j}) = j /\ Min({i}) = i /\ Min({3}) = 3
  <2>1. ASSUME NEW k \in Nat PROVE Min({k}) = k
    <3>1. Min({k}) \in {k}
      BY MinIn
    <3> QED
      BY <3>1
  <2> QED
    BY <2>1
<1>8. Touching(c, (2 .. Len(c)) \ {j}, q) = {i}
  <2>1. (2 .. Len(c)) \ {j} = {i, 3}
    BY <1>5
  <2>2. q \notin Ends(c[3])
    BY <1>1, <1>3
  <2>3. \A k : k \in Touching(c, (2 .. Len(c)) \ {j}, q) <=> k \in {i, 3} /\ q \in Ends(c[k])
    BY <2>1 DEF Touching, Ends
  <2> QED
    BY <1>4, <1>5, <2>2, <2>3
<1>9. ((2 .. Len(c)) \ {j}) \ {i} = {3}
  BY <1>5
<1> DEFINE c4 == IF c[j].from = p THEN c[j] ELSE ReversedCurve(c[j])
<1>10. Arranged(c) = <<c[1], c[i], c[3], c4>>
  BY <1>2, <1>6, <1>7, <1>8, <1>9 DEF Arranged
<1>11. c4.from = p /\ Ends(c4) = Ends(c[j])
  <2>1. CASE c[j].from = p
    BY <2>1
  <2>2. CASE c[j].from # p
    <3>1. c[j].to = p
      BY <1>4, <1>5, <2>2 DEF Ends
    <3>2. c4.from = c[j].to /\ c4.to = c[j].from
      BY <2>2 DEF ReversedCurve
    <3> QED
      BY <3>1, <3>2 DEF Ends
  <2> QED
    BY <2>1, <2>2
<1> HIDE DEF c4
<1>12. PICK s : s = <<c[1], c[i], c[3], c4>>
  OBVIOUS
<1>13. s[1] = c[1] /\ s[2] = c[i] /\ s[3] = c[3] /\ s[4] = c4 /\ s # <<>>
  BY <1>12
<1>14. GoesRound(s, c, i)
  BY <1>2, <1>5, <1>11, <1>13 DEF GoesRound
<1> QED
  BY <1>10, <1>12, <1>13, <1>14, Zenon DEF NoSurface

LEMMA TrimmedEnds == ASSUME NEW e PROVE Trimmed(e).from = e.from /\ Trimmed(e).to = e.to
BY DEF Trimmed

LEMMA Meeting ==
  ASSUME NEW a, NEW b, NEW c, NEW d, Ends(a) = Ends(c), Ends(b) = Ends(d)
  PROVE  (Meet(a, b) <=> Meet(c, d)) /\ (Meet(a, b) <=> Meet(b, a))
BY DEF Meet, Ends

\* A cell always gets a surface, so that none is passed over.
LEMMA SurfaceFits ==
  ASSUME NEW frame, IsCell(frame.edges)
  PROVE  SurfaceOf(frame, "CoonsStyle") # NoSurface /\ FitsFrame(SurfaceOf(frame, "CoonsStyle"))
<1>1. PICK e : e = frame.edges
  OBVIOUS
<1>2. PICK c : c = [i \in DOMAIN e |-> Trimmed(e[i])]
  OBVIOUS
<1>3. PICK style : style = IF frame.continuity = "C2" THEN "CoonsStyle" ELSE "StretchStyle"
  OBVIOUS
<1>4. SurfaceOf(frame, "CoonsStyle") = BuildSurface(c, style)
  BY <1>1, <1>2, <1>3 DEF SurfaceOf
<1>5. DOMAIN e = 1 .. 4 /\ IsCell(e)
  BY <1>1 DEF IsCell
<1>6. \A i \in 1 .. 4 : c[i] = Trimmed(e[i])
  BY <1>2, <1>5
<1>7. Len(c) = 4
  <2> DEFINE S == {c[i] : i \in 1 .. 4}
  <2>0. PICK n \in Nat : n = 4
    OBVIOUS
  <2>1. c = [i \in 1 .. n |-> c[i]] /\ \A i \in 1 .. n : c[i] \in S
    BY <1>2, <1>5, <2>0
  <2> HIDE DEF S
  <2>2. c \in Seq(S)
    BY <2>1
  <2>3. Len(c) = n
    BY <2>1, <2>2
  <2> QED
    BY <2>0, <2>3
<1>8. \A i \in 1 .. 4 : c[i].from = e[i].from /\ c[i].to = e[i].to
  BY <1>6, TrimmedEnds
<1>9. IsRound(c)
  <2>1. ASSUME NEW i \in 1 .. 4 PROVE c[i].from # c[i].to /\ Meet(c[i], c[(i % 4) + 1])
    <3>1. PICK j \in 1 .. 4 : j = (i % 4) + 1
      OBVIOUS
    <3>2. e[i].from # e[i].to /\ Meet(e[i], e[j])
      BY <1>5, <3>1 DEF IsCell, IsEdge
    <3>3. Meet(c[i], c[j])
      BY <1>8, <3>2 DEF Meet
    <3> QED
      BY <1>8, <3>1, <3>2, <3>3
  <2>2. ~Meet(e[1], e[3]) /\ ~Meet(e[2], e[4])
    <3>1. ~Meet(e[1], e[1 + 2]) /\ ~Meet(e[2], e[2 + 2])
      BY <1>5 DEF IsCell
    <3> QED
      BY <3>1
  <2>3. ~Meet(c[1], c[3]) /\ ~Meet(c[2], c[4])
    BY <1>8, <2>2 DEF Meet
  <2> QED
    BY <2>1, <2>3 DEF IsRound
<1>10. PICK i \in {2, 4} : GoesRound(Arranged(c), c, i) /\ Arranged(c) # NoSurface
  BY <1>7, <1>9, ArrangedIs
<1>11. PICK a : a = Arranged(c)
  OBVIOUS
<1>12. PICK u : u = MadeCompatible(a[1], a[3], style)
  OBVIOUS
<1>13. PICK v : v = MadeCompatible(a[2], a[4], style)
  OBVIOUS
<1>14. BuildSurface(c, style) = <<u[1], v[1], u[2], v[2]>>
  BY <1>7, <1>10, <1>11, <1>12, <1>13 DEF BuildSurface
<1>15. AsCompatible(u, a[1], a[3]) /\ AsCompatible(v, a[2], a[4])
  BY <1>12, <1>13, CompatibleIs
<1>16. PICK s : s = <<u[1], v[1], u[2], v[2]>>
  OBVIOUS
<1>17. s[1] = u[1] /\ s[2] = v[1] /\ s[3] = u[2] /\ s[4] = v[2] /\ s # <<>>
  BY <1>16
<1>18. /\ Ends(s[1]) = Ends(c[1]) /\ Ends(s[2]) = Ends(c[i]) /\ Ends(s[3]) = Ends(c[3])
       /\ Ends(s[4]) = Ends(c[6 - i]) /\ s[1].from = c[1].from /\ s[4].from = c[1].from
       /\ s[1].degree = s[3].degree /\ s[1].knots = s[3].knots
       /\ s[2].degree = s[4].degree /\ s[2].knots = s[4].knots
  <2>1. GoesRound(a, c, i)
    BY <1>10, <1>11
  <2> QED
    BY <1>15, <1>17, <2>1 DEF AsCompatible, GoesRound
<1>19. Meet(c[1], c[2]) /\ Meet(c[2], c[3]) /\ Meet(c[3], c[4]) /\ Meet(c[4], c[1])
  <2>1. (1 % 4) + 1 = 2 /\ (2 % 4) + 1 = 3 /\ (3 % 4) + 1 = 4 /\ (4 % 4) + 1 = 1
    OBVIOUS
  <2>2. /\ Meet(c[1], c[(1 % 4) + 1]) /\ Meet(c[2], c[(2 % 4) + 1])
        /\ Meet(c[3], c[(3 % 4) + 1]) /\ Meet(c[4], c[(4 % 4) + 1])
    BY <1>9 DEF IsRound
  <2> QED
    BY <2>1, <2>2
<1>20. Meet(s[1], s[2]) /\ Meet(s[2], s[3]) /\ Meet(s[3], s[4]) /\ Meet(s[4], s[1])
  <2>1. CASE i = 2
    <3>1. 6 - i = 4
      BY <2>1
    <3>2. Ends(s[1]) = Ends(c[1]) /\ Ends(s[2]) = Ends(c[2]) /\ Ends(s[3]) = Ends(c[3]) /\ Ends(s[4]) = Ends(c[4])
      BY <1>18, <2>1, <3>1
    <3> QED
      BY <1>19, <3>2, Meeting
  <2>2. CASE i = 4
    <3>1. 6 - i = 2
      BY <2>2
    <3>2. Ends(s[1]) = Ends(c[1]) /\ Ends(s[2]) = Ends(c[4]) /\ Ends(s[3]) = Ends(c[3]) /\ Ends(s[4]) = Ends(c[2])
      BY <1>18, <2>2, <3>1
    <3> QED
      BY <1>19, <3>2 DEF Meet, Ends
  <2> QED
    BY <2>1, <2>2
<1>21. FitsFrame(s)
  <2>1. ASSUME NEW k \in 1 .. 4 PROVE Meet(s[k], s[(k % 4) + 1])
    <3>1. \/ k = 1 /\ (k % 4) + 1 = 2
          \/ k = 2 /\ (k % 4) + 1 = 3
          \/ k = 3 /\ (k % 4) + 1 = 4
          \/ k = 4 /\ (k % 4) + 1 = 1
      OBVIOUS
    <3> QED
      BY <1>20, <3>1
  <2>2. s[4].from = s[1].from
    BY <1>18
  <2>3. ASSUME NEW k \in 1 .. 2 PROVE s[k].degree = s[k + 2].degree /\ s[k].knots = s[k + 2].knots
    <3>1. (k = 1 /\ k + 2 = 3) \/ (k = 2 /\ k + 2 = 4)
      OBVIOUS
    <3> QED
      BY <1>18, <3>1
  <2> QED
    BY <2>1, <2>2, <2>3 DEF FitsFrame
<1> QED
  BY <1>4, <1>14, <1>16, <1>17, <1>21, Zenon DEF NoSurface

\* The face that a cell gets.
FaceOf(frame) == [cell |-> frame.edges, surface |-> SurfaceOf(frame, "CoonsStyle")]

LEMMA RowIs ==
  ASSUME NEW C, NEW row \in Seq(C), NEW F, \A f \in C : IsCell(f.edges) /\ FaceOf(f) \in F
  PROVE  /\ RowOf(row, "CoonsStyle") \in Seq(F) /\ Len(RowOf(row, "CoonsStyle")) = Len(row)
         /\ \A j \in 1 .. Len(row) : RowOf(row, "CoonsStyle")[j] = FaceOf(row[j])
<1>1. PICK n \in Nat : n = Len(row) /\ DOMAIN row = 1 .. n
  OBVIOUS
<1>2. ASSUME NEW f \in C PROVE Face(f, "CoonsStyle") = <<FaceOf(f)>>
  <2>1. SurfaceOf(f, "CoonsStyle") # NoSurface
    BY SurfaceFits
  <2> QED
    BY <2>1 DEF Face, FaceOf
<1>3. \A j \in 1 .. n : row[j] \in C
  BY <1>1
<1> DEFINE ss == [j \in DOMAIN row |-> Face(row[j], "CoonsStyle")]
<1>4. RowOf(row, "CoonsStyle") = FlattenSeq(ss)
  BY DEF RowOf
<1>5. DOMAIN ss = 1 .. n /\ ss = [j \in 1 .. n |-> ss[j]]
  BY <1>1
<1>6. ASSUME NEW j \in 1 .. n PROVE ss[j] \in Seq(F) /\ Len(ss[j]) = 1 /\ ss[j][1] = FaceOf(row[j])
  <2>1. ss[j] = <<FaceOf(row[j])>>
    BY <1>1, <1>2, <1>3
  <2>2. FaceOf(row[j]) \in F
    BY <1>3
  <2> HIDE DEF ss
  <2> QED
    BY <2>1, <2>2
<1> HIDE DEF ss
<1>7. ss \in Seq(Seq(F))
  BY <1>5, <1>6
<1>8. Len(ss) = n
  BY <1>5, <1>7
<1>9. PICK m \in Nat : m = 1
  OBVIOUS
<1>10. \A k \in 1 .. Len(ss) : Len(ss[k]) = m
  BY <1>6, <1>8, <1>9
<1>11. /\ Len(FlattenSeq(ss)) = Len(ss) * m
       /\ \A k \in 1 .. Len(ss) : \A v \in 1 .. m : FlattenSeq(ss)[(k - 1) * m + v] = ss[k][v]
  BY <1>7, <1>10, FlattenEven
<1>12. Len(FlattenSeq(ss)) = n
  BY <1>8, <1>9, <1>11
<1>13. ASSUME NEW j \in 1 .. n PROVE FlattenSeq(ss)[j] = FaceOf(row[j])
  <2>1. FlattenSeq(ss)[(j - 1) * m + 1] = ss[j][1]
    BY <1>8, <1>9, <1>11
  <2>2. (j - 1) * m + 1 = j
    BY <1>9
  <2> QED
    BY <1>6, <2>1, <2>2
<1>14. FlattenSeq(ss) \in Seq(F)
  BY <1>7, FlattenIsSequence
<1> QED
  BY <1>1, <1>4, <1>12, <1>13, <1>14

\* All rows together: each cell has its face, at the same place.
LEMMA PatchesFit ==
  ASSUME NEW n, IsNetwork(n), Status(n) = OK
  PROVE  Fit(Patches(n, "CoonsStyle"), FlattenSeq(n.frames))
<1>1. PICK ss : ss = n.frames
  OBVIOUS
<1>2. PICK C : C = UNION {ToSet(row) : row \in ToSet(ss)}
  OBVIOUS
<1>3. ss \in Seq(Seq(C))
  BY <1>1, <1>2 DEF IsNetwork
<1>4. \A f \in C : IsCell(f.edges)
  BY <1>1, <1>2 DEF IsNetwork
<1>5. PICK F : F = {FaceOf(f) : f \in C}
  OBVIOUS
<1>6. \A f \in C : IsCell(f.edges) /\ FaceOf(f) \in F
  BY <1>4, <1>5
<1> DEFINE tt == [i \in DOMAIN ss |-> RowOf(ss[i], "CoonsStyle")]
<1>7. Patches(n, "CoonsStyle") = FlattenSeq(tt)
  BY <1>1 DEF Patches
<1>8. PICK r \in Nat : r = Len(ss) /\ DOMAIN ss = 1 .. r
  BY <1>3
<1>9. tt = [i \in 1 .. r |-> tt[i]] /\ \A i \in 1 .. r : tt[i] = RowOf(ss[i], "CoonsStyle")
  BY <1>8
<1> HIDE DEF tt
<1>10. ASSUME NEW i \in 1 .. r
       PROVE  /\ tt[i] \in Seq(F) /\ Len(ss[i]) = Len(tt[i])
              /\ \A j \in 1 .. Len(ss[i]) : tt[i][j] = FaceOf(ss[i][j]) /\ ss[i][j] \in C
  <2>1. PICK row \in Seq(C) : row = ss[i]
    BY <1>3, <1>8
  <2>2. /\ RowOf(row, "CoonsStyle") \in Seq(F) /\ Len(RowOf(row, "CoonsStyle")) = Len(row)
        /\ \A j \in 1 .. Len(row) : RowOf(row, "CoonsStyle")[j] = FaceOf(row[j])
    BY <1>6, <2>1, RowIs
  <2>3. tt[i] = RowOf(row, "CoonsStyle")
    BY <1>9, <2>1
  <2>4. \A j \in 1 .. Len(row) : row[j] \in C
    BY <2>1
  <2> QED
    BY <2>1, <2>2, <2>3, <2>4, Zenon
<1>11. tt \in Seq(Seq(F)) /\ Len(tt) = r
  <2>1. \A i \in 1 .. r : tt[i] \in Seq(F)
    BY <1>10
  <2>2. tt \in Seq(Seq(F))
    BY <1>8, <1>9, <2>1
  <2> QED
    BY <1>9, <2>2
<1>12. InStep(FlattenSeq(ss), ss, FlattenSeq(tt), tt)
  <2>1. Len(ss) = Len(tt) /\ \A k \in 1 .. Len(ss) : Len(ss[k]) = Len(tt[k])
    BY <1>8, <1>10, <1>11
  <2> QED
    BY <1>3, <1>11, <2>1, FlattenInStep
<1>13. PICK cells : cells = FlattenSeq(ss)
  OBVIOUS
<1>14. cells \in Seq(C)
  BY <1>3, <1>13, FlattenIsSequence
<1>15. PICK fs : fs = FlattenSeq(tt)
  OBVIOUS
<1>16. ASSUME NEW j \in DOMAIN cells
       PROVE  fs[j] = FaceOf(cells[j]) /\ IsCell(cells[j].edges)
  <2>1. j \in 1 .. Len(cells)
    BY <1>14
  <2>2. \E k \in 1 .. Len(ss) : \E v \in 1 .. Len(ss[k]) : cells[j] = ss[k][v] /\ fs[j] = tt[k][v]
    BY <1>12, <1>13, <1>15, <2>1, Zenon DEF InStep
  <2>3. PICK k \in 1 .. r : \E v \in 1 .. Len(ss[k]) : cells[j] = ss[k][v] /\ fs[j] = tt[k][v]
    BY <1>8, <2>2
  <2>4. PICK v \in 1 .. Len(ss[k]) : cells[j] = ss[k][v] /\ fs[j] = tt[k][v]
    BY <2>3
  <2>5. tt[k][v] = FaceOf(ss[k][v]) /\ ss[k][v] \in C
    BY <1>10
  <2> QED
    BY <1>4, <2>4, <2>5, Zenon
<1>17. Len(fs) = Len(cells)
  BY <1>12, <1>13, <1>15 DEF InStep
<1>18. ASSUME NEW j \in DOMAIN cells
       PROVE  /\ fs[j].cell = cells[j].edges
              /\ FitsFrame(fs[j].surface)
              /\ \A i \in 1 .. 4 : HasNoSlivers(cells[j].edges[i])
  <2>1. fs[j] = FaceOf(cells[j]) /\ IsCell(cells[j].edges)
    BY <1>16
  <2>2. fs[j].cell = cells[j].edges /\ fs[j].surface = SurfaceOf(cells[j], "CoonsStyle")
    BY <2>1 DEF FaceOf
  <2>3. FitsFrame(SurfaceOf(cells[j], "CoonsStyle"))
    BY <2>1, SurfaceFits
  <2>4. ASSUME NEW i \in 1 .. 4 PROVE HasNoSlivers(cells[j].edges[i])
    <3>1. IsEdge(cells[j].edges[i])
      BY <2>1 DEF IsCell
    <3> QED
      BY <3>1, NoSlivers
  <2> QED
    BY <2>2, <2>3, <2>4, Zenon
<1>19. Fit(fs, cells)
  BY <1>17, <1>18, Zenon DEF Fit
<1> QED
  BY <1>1, <1>7, <1>13, <1>15, <1>19, Zenon

-----------------------------------------------------------------------------
(***************************************************************************)
(* InterpolateWires: the faces.  Of each edge the cuts make as many strips as *)
(* there are intervals, and of each strip as many pieces as there are kinks. *)
(***************************************************************************)
\* The edges of a profile are those whose kinks are known.
LEMMA EdgesOf == ASSUME NEW w \in Wires PROVE EdgeMap(w) \in Seq(DOMAIN KinksOf)
<1> DEFINE E == DOMAIN KinksOf
           ss == [i \in DOMAIN w.edges |->
                    IF \E j \in 1 .. i - 1 : w.edges[j] = w.edges[i] THEN <<>> ELSE <<w.edges[i]>>]
<1>1. EdgeMap(w) = FlattenSeq(ss)
  BY DEF EdgeMap
<1>2. PICK edges \in Seq(E) : edges = w.edges
  BY InterpolateWiresAssumption
<1>3. PICK n \in Nat : DOMAIN edges = 1 .. n
  BY <1>2
<1>4. ss = [i \in 1 .. n |-> ss[i]] /\ \A i \in 1 .. n : ss[i] = <<>> \/ ss[i] = <<edges[i]>>
  BY <1>2, <1>3
<1> HIDE DEF ss, E
<1>5. ASSUME NEW i \in 1 .. n PROVE ss[i] \in Seq(E)
  <2>1. edges[i] \in E
    BY <1>2, <1>3
  <2>2. <<>> \in Seq(E) /\ <<edges[i]>> \in Seq(E)
    BY <2>1
  <2> QED
    BY <1>4, <2>2
<1>6. ss \in Seq(Seq(E))
  BY <1>4, <1>5
<1>7. EdgeMap(w) \in Seq(E)
  BY <1>1, <1>6, FlattenIsSequence
<1> QED
  BY <1>7 DEF E

\* Every edge that is skinned has curves with as many kinks as they have.
LEMMA KinksAreFinite ==
  ASSUME wires \in Seq(Wires), NEW i \in Nat \ {0}, HasEdge(i)
  PROVE  IsFiniteSet(Kinks(i)) /\ Cardinality(Kinks(i)) \in Nat
<1> DEFINE KinksIn(w) == KinksOf[EdgeMap(w)[i]]
           parts == {KinksIn(w) : w \in ToSet(wires)}
<1>1. PICK n \in Nat : n = Len(wires) /\ DOMAIN wires = 1 .. n
  OBVIOUS
<1>2. IsFiniteSet(1 .. n)
  BY FS_Interval
<1> DEFINE f == [k \in 1 .. n |-> KinksIn(wires[k])]
<1>3. f \in Surjection(1 .. n, parts)
  <2>1. f \in [1 .. n -> parts]
    BY <1>1 DEF ToSet
  <2>2. ASSUME NEW p \in parts PROVE \E k \in 1 .. n : f[k] = p
    BY <1>1 DEF ToSet
  <2> HIDE DEF f, parts
  <2> QED
    BY <2>1, <2>2 DEF Surjection
<1>4. IsFiniteSet(parts)
  <2> HIDE DEF f, parts
  <2> QED
    BY <1>2, <1>3, FS_Surjection
<1>5. ASSUME NEW p \in parts PROVE IsFiniteSet(p)
  <2>1. PICK w \in ToSet(wires) : p = KinksOf[EdgeMap(w)[i]]
    OBVIOUS
  <2>2. w \in Wires
    BY DEF ToSet
  <2>3. EdgeMap(w) \in Seq(DOMAIN KinksOf)
    BY <2>2, EdgesOf
  <2>4. i <= Len(EdgeMap(w))
    BY DEF HasEdge
  <2>5. EdgeMap(w)[i] \in DOMAIN KinksOf
    BY <2>3, <2>4
  <2> QED
    BY <2>1, <2>5, InterpolateWiresAssumption
<1>6. IsFiniteSet(UNION parts)
  <2> HIDE DEF parts
  <2> QED
    BY <1>4, <1>5, FS_UNION
<1>7. Kinks(i) = UNION parts
  BY DEF Kinks
<1> HIDE DEF parts
<1> QED
  BY <1>6, <1>7, FS_CardinalityType

\* A row and a column have a place in a list of n times m.
LEMMA PlaceAt ==
  ASSUME NEW n \in Nat \ {0}, NEW m \in Nat, NEW a \in 0 .. m - 1, NEW b \in 0 .. n - 1
  PROVE  a * n + b + 1 \in 1 .. n * m
<1>1. (a + 1) * n <= m * n
  <2> DEFINE d == m - (a + 1)
  <2>1. d \in Nat /\ m = (a + 1) + d
    OBVIOUS
  <2> HIDE DEF d
  <2>2. m * n = (a + 1) * n + d * n /\ d * n \in Nat /\ (a + 1) * n \in Nat
    BY <2>1
  <2> QED
    BY <2>2
<1>2. (a + 1) * n = a * n + n /\ a * n \in Nat /\ m * n = n * m
  OBVIOUS
<1> QED
  BY <1>1, <1>2

\* What the cuts make of the skinned edges.
AsSkinned(i) == [edge |-> i, kinks |-> Kinks(i)]
AsStrip(i, v) == [edge |-> i, v |-> v, kinks |-> Kinks(i)]
AsPiece(i, v, k) == [edge |-> i, v |-> v, piece |-> k]

Skinned(fs, n) == fs = [i \in 1 .. n |-> AsSkinned(i)]

\* The strips, interval by interval and in it edge by edge.
Strips(r, n, m) ==
  DOMAIN r = 1 .. n * m /\ \A a \in 0 .. m - 1, b \in 0 .. n - 1 : r[a * n + b + 1] = AsStrip(b + 1, a + 1)

LEMMA StripsAre ==
  ASSUME NEW n \in Nat \ {0}, NEW m \in Nat, n = NbEdgesPerProfile, m = NbIntervals,
         NEW fs, Skinned(fs, n)
  PROVE  Strips(ResortFaces(CutShellAtUVParameters(fs)), n, m)
<1> DEFINE ss == [j \in DOMAIN fs |->
                    [v \in 1 .. NbIntervals |-> [edge |-> fs[j].edge, v |-> v, kinks |-> fs[j].kinks]]]
           E == {AsStrip(i, v) : i \in 1 .. n, v \in 1 .. m}
<1>1. CutShellAtUVParameters(fs) = FlattenSeq(ss)
  BY DEF CutShellAtUVParameters
<1>2. ASSUME NEW i \in 1 .. n PROVE ss[i] = [v \in 1 .. m |-> AsStrip(i, v)]
  <2>1. fs[i].edge = i /\ fs[i].kinks = Kinks(i) /\ i \in DOMAIN fs
    BY DEF Skinned, AsSkinned
  <2> QED
    BY <2>1 DEF AsStrip
<1>3. ss = [i \in 1 .. n |-> ss[i]]
  BY DEF Skinned
<1>4. \A i \in 1 .. n, v \in 1 .. m : AsStrip(i, v) \in E
  OBVIOUS
<1> HIDE DEF ss, E
<1>5. ASSUME NEW i \in 1 .. n PROVE ss[i] \in Seq(E) /\ Len(ss[i]) = m
  <2>1. \A v \in 1 .. m : AsStrip(i, v) \in E
    BY <1>4
  <2>2. PICK w : w = ss[i]
    OBVIOUS
  <2>3. w = [v \in 1 .. m |-> AsStrip(i, v)]
    BY <1>2, <2>2, Zenon
  <2>4. w \in Seq(E)
    BY <2>1, <2>3
  <2>5. Len(w) = m
    BY <2>3, <2>4
  <2> QED
    BY <2>2, <2>4, <2>5, Zenon
<1>6. ss \in Seq(Seq(E))
  BY <1>3, <1>5
<1>7. Len(ss) = n
  BY <1>3, <1>6
<1>8. PICK u : u = FlattenSeq(ss)
  OBVIOUS
<1>9. u \in Seq(E)
  BY <1>6, <1>8, FlattenIsSequence
<1>10. /\ Len(u) = n * m
       /\ \A k \in 1 .. n : \A v \in 1 .. m : u[(k - 1) * m + v] = ss[k][v]
  <2>1. \A k \in 1 .. Len(ss) : Len(ss[k]) = m
    BY <1>5, <1>7
  <2>2. /\ Len(FlattenSeq(ss)) = Len(ss) * m
        /\ \A k \in 1 .. Len(ss) : \A v \in 1 .. m : FlattenSeq(ss)[(k - 1) * m + v] = ss[k][v]
    BY <1>6, <2>1, FlattenEven
  <2> QED
    BY <1>7, <1>8, <2>2
<1>11. PICK r : r = ResortFaces(u)
  OBVIOUS
<1>12. r = [x \in 1 .. n * m |-> u[((x - 1) % n) * m + (x - 1) \div n + 1]]
  <2>1. DOMAIN u = 1 .. n * m
    BY <1>9, <1>10
  <2> QED
    BY <1>11, <2>1 DEF ResortFaces
<1>13. ASSUME NEW a \in 0 .. m - 1, NEW b \in 0 .. n - 1
       PROVE  r[a * n + b + 1] = AsStrip(b + 1, a + 1)
  <2>1. PICK x : x = a * n + b + 1
    OBVIOUS
  <2>2. x \in 1 .. n * m
    BY <2>1, PlaceAt
  <2>3. (x - 1) % n = b /\ (x - 1) \div n = a
    BY <2>1
  <2>4. r[x] = u[((x - 1) % n) * m + (x - 1) \div n + 1]
    BY <1>12, <2>2, Zenon
  <2>5. r[x] = u[b * m + a + 1]
    BY <2>3, <2>4
  <2>6. PICK k \in 1 .. n, v \in 1 .. m : k = b + 1 /\ v = a + 1
    <3>1. b + 1 \in 1 .. n /\ a + 1 \in 1 .. m
      OBVIOUS
    <3> QED
      BY <3>1
  <2>7. (k - 1) * m + v = b * m + a + 1
    <3>1. k - 1 = b
      BY <2>6
    <3>2. b * m \in Nat
      OBVIOUS
    <3> QED
      BY <2>6, <3>1, <3>2
  <2>8. u[(k - 1) * m + v] = ss[k][v]
    BY <1>10, Zenon
  <2>9. ss[k][v] = AsStrip(k, v)
    BY <1>2
  <2> QED
    BY <2>1, <2>5, <2>6, <2>7, <2>8, <2>9, Zenon
<1>14. DOMAIN r = 1 .. n * m
  BY <1>12
<1>15. Strips(r, n, m)
  BY <1>13, <1>14, Zenon DEF Strips
<1> QED
  BY <1>1, <1>8, <1>11, <1>15, Zenon

\* The place behind another one is in the next column, or in the next row.
LEMMA NextPlace ==
  ASSUME NEW n \in Nat \ {0}, NEW a \in Nat, NEW c \in Nat, NEW b \in 0 .. n - 1, NEW d \in 0 .. n - 1,
         c * n + d = a * n + b + 1
  PROVE  a < c \/ (a = c /\ b < d)
<1>1. CASE c < a
  <2> DEFINE e == a - c - 1
  <2>1. e \in Nat /\ a = c + 1 + e
    BY <1>1
  <2> HIDE DEF e
  <2>2. a * n = c * n + n + e * n /\ e * n \in Nat /\ c * n \in Nat
    BY <2>1
  <2> QED
    BY <2>2
<1>2. CASE a = c
  <2>1. a * n \in Nat /\ c * n = a * n
    BY <1>2
  <2> QED
    BY <1>2, <2>1
<1> QED
  BY <1>1, <1>2

\* The pieces of each edge, in so many intervals.
Sizes(size, n) ==
  size \in [1 .. n -> Nat \ {0}] /\ \A i \in 1 .. n : size[i] = Cardinality(Kinks(i)) + 1

InPieces(fs, size, n, m) ==
  /\ \A i \in 1 .. n : \A k \in 1 .. size[i] : \A v \in 1 .. m :
       \E j \in DOMAIN fs : fs[j] = AsPiece(i, v, k)
  /\ \A j \in 1 .. Len(fs) - 1 : Before(fs[j], fs[j + 1])

\* Whatever number of pieces each strip is cut to, they stay in the order of the strips.
LEMMA PiecesFollow ==
  ASSUME NEW n \in Nat \ {0}, NEW m \in Nat, NEW r, Strips(r, n, m), NEW size, Sizes(size, n)
  PROVE  InPieces(CutShellAtKinks(r), size, n, m)
<1>0. size \in [1 .. n -> Nat \ {0}] /\ \A i \in 1 .. n : size[i] = Cardinality(Kinks(i)) + 1
  BY Zenon DEF Sizes
<1>a. PICK fs : fs = CutShellAtKinks(r)
  OBVIOUS
<1> DEFINE ss == [x \in DOMAIN r |->
                    [k \in 1 .. Cardinality(r[x].kinks) + 1 |->
                       [edge |-> r[x].edge, v |-> r[x].v, piece |-> k]]]
           E == {AsPiece(i, v, k) : i \in Nat, v \in Nat, k \in Nat}
<1>1. fs = FlattenSeq(ss)
  BY <1>a DEF CutShellAtKinks
<1>2. PICK last \in Nat : last = n * m
  OBVIOUS
<1>3. ss = [x \in 1 .. last |-> ss[x]]
  BY <1>2 DEF Strips
<1>4. ASSUME NEW a \in 0 .. m - 1, NEW b \in 0 .. n - 1, NEW x, x = a * n + b + 1
      PROVE  x \in 1 .. last /\ ss[x] = [k \in 1 .. size[b + 1] |-> AsPiece(b + 1, a + 1, k)]
  <2>1. x \in 1 .. last
    BY <1>2, <1>4, PlaceAt
  <2>2. r[x] = AsStrip(b + 1, a + 1)
    BY <1>4, Zenon DEF Strips
  <2>3. r[x].edge = b + 1 /\ r[x].v = a + 1 /\ r[x].kinks = Kinks(b + 1)
    BY <2>2 DEF AsStrip
  <2>4. b + 1 \in 1 .. n
    OBVIOUS
  <2>5. Cardinality(Kinks(b + 1)) + 1 = size[b + 1]
    BY <1>0, <2>4
  <2>6. x \in DOMAIN r
    BY <1>2, <2>1 DEF Strips
  <2> QED
    BY <2>1, <2>3, <2>5, <2>6 DEF AsPiece
<1>5. \A i \in Nat, v \in Nat, k \in Nat : AsPiece(i, v, k) \in E
  OBVIOUS
<1> HIDE DEF ss, E
<1>6. ASSUME NEW x \in 1 .. last
      PROVE  \E a \in 0 .. m - 1, b \in 0 .. n - 1 :
               /\ x = a * n + b + 1 /\ ss[x] \in Seq(E) /\ Len(ss[x]) = size[b + 1] /\ size[b + 1] \in Nat \ {0}
               /\ \A k \in 1 .. size[b + 1] : ss[x][k] = AsPiece(b + 1, a + 1, k)
  <2>0. x \in 1 .. m * n
    BY <1>2
  <2>1. PICK a \in 0 .. m - 1, b \in 0 .. n - 1 : x = a * n + b + 1
    BY <2>0, RowAndColumn, Zenon
  <2>2. ss[x] = [k \in 1 .. size[b + 1] |-> AsPiece(b + 1, a + 1, k)]
    BY <1>4, <2>1
  <2>3. PICK i \in 1 .. n : i = b + 1
    OBVIOUS
  <2>4. PICK v \in Nat : v = a + 1
    OBVIOUS
  <2>5. PICK l \in Nat \ {0} : l = size[i]
    BY <1>0
  <2>6. ss[x] = [k \in 1 .. l |-> AsPiece(i, v, k)]
    BY <2>2, <2>3, <2>4, <2>5, Zenon
  <2>7. \A k \in 1 .. l : AsPiece(i, v, k) \in E
    BY <1>5
  <2>8. ss[x] \in Seq(E)
    BY <2>6, <2>7
  <2>9. Len(ss[x]) = l /\ \A k \in 1 .. l : ss[x][k] = AsPiece(i, v, k)
    BY <2>6, <2>8
  <2>10. size[b + 1] = l
    BY <2>3, <2>5, Zenon
  <2> QED
    BY <2>1, <2>3, <2>4, <2>8, <2>9, <2>10, Zenon
<1>7. ss \in Seq(Seq(E)) /\ Len(ss) = last
  <2>1. \A x \in 1 .. last : ss[x] \in Seq(E)
    BY <1>6
  <2>2. ss \in Seq(Seq(E))
    BY <1>3, <2>1
  <2> QED
    BY <1>3, <2>2
<1>8. PICK start : Starts(start, fs, ss) /\ Holds(start, fs, ss)
  BY <1>1, <1>7, FlattenStarts
<1>9. /\ start \in [0 .. last -> Nat] /\ start[last] = Len(fs)
      /\ \A x \in 1 .. last : start[x] = start[x - 1] + Len(ss[x]) /\ start[x] <= Len(fs)
      /\ \A x \in 1 .. last : \A k \in 1 .. Len(ss[x]) : fs[start[x - 1] + k] = ss[x][k]
      /\ \A j \in 1 .. Len(fs) : \E x \in 1 .. last : \E k \in 1 .. Len(ss[x]) : j = start[x - 1] + k
  BY <1>7, <1>8, Zenon DEF Starts, Holds
<1>10. fs \in Seq(E)
  BY <1>1, <1>7, FlattenIsSequence
<1>11. ASSUME NEW i \in 1 .. n, NEW k \in 1 .. size[i], NEW v \in 1 .. m
       PROVE  \E j \in DOMAIN fs : fs[j] = AsPiece(i, v, k)
  <2>1. PICK a \in 0 .. m - 1, b \in 0 .. n - 1 : a + 1 = v /\ b + 1 = i
    <3>1. v - 1 \in 0 .. m - 1 /\ i - 1 \in 0 .. n - 1 /\ (v - 1) + 1 = v /\ (i - 1) + 1 = i
      OBVIOUS
    <3> QED
      BY <3>1
  <2>2. PICK x : x = a * n + b + 1
    OBVIOUS
  <2>3. x \in 1 .. last /\ ss[x] = [l \in 1 .. size[i] |-> AsPiece(i, v, l)]
    <3>1. x \in 1 .. last /\ ss[x] = [l \in 1 .. size[b + 1] |-> AsPiece(b + 1, a + 1, l)]
      BY <1>4, <2>2
    <3> QED
      BY <2>1, <3>1, Zenon
  <2>4. ss[x] \in Seq(E)
    BY <1>6, <2>3
  <2>5. PICK l \in Nat : l = size[i]
    BY <1>0
  <2>6. Len(ss[x]) = size[i]
    BY <2>3, <2>4, <2>5
  <2>7. fs[start[x - 1] + k] = ss[x][k] /\ start[x] = start[x - 1] + size[i] /\ start[x] <= Len(fs)
    BY <1>9, <2>3, <2>6, Zenon
  <2>8. ss[x][k] = AsPiece(i, v, k)
    BY <2>3
  <2>9. start[x - 1] \in Nat
    <3>1. x - 1 \in 0 .. last
      BY <2>3
    <3> QED
      BY <1>9, <3>1
  <2>10. start[x - 1] + k \in DOMAIN fs
    <3>1. start[x - 1] + k \in 1 .. Len(fs)
      BY <2>5, <2>7, <2>9, <1>10
    <3> QED
      BY <1>10, <3>1
  <2> QED
    BY <2>7, <2>8, <2>10, Zenon
<1>12. ASSUME NEW j \in 1 .. Len(fs) - 1 PROVE Before(fs[j], fs[j + 1])
  <2>0. j \in 1 .. Len(fs) /\ j + 1 \in 1 .. Len(fs) /\ Len(fs) \in Nat
    BY <1>10
  <2>1. PICK x \in 1 .. last : \E k \in 1 .. Len(ss[x]) : j = start[x - 1] + k
    BY <1>9, <2>0, Zenon
  <2>2. PICK k \in 1 .. Len(ss[x]) : j = start[x - 1] + k
    BY <2>1
  <2>3. PICK a \in 0 .. m - 1, b \in 0 .. n - 1 :
               /\ x = a * n + b + 1 /\ ss[x] \in Seq(E) /\ Len(ss[x]) = size[b + 1] /\ size[b + 1] \in Nat \ {0}
               /\ \A l \in 1 .. size[b + 1] : ss[x][l] = AsPiece(b + 1, a + 1, l)
    BY <1>6
  <2>4. PICK s \in Nat : s = start[x - 1]
    <3>1. x - 1 \in 0 .. last
      OBVIOUS
    <3> QED
      BY <1>9, <3>1
  <2>5. PICK l \in Nat : l = Len(ss[x])
    BY <2>3
  <2>6. fs[j] = AsPiece(b + 1, a + 1, k)
    <3>1. fs[start[x - 1] + k] = ss[x][k]
      BY <1>9, Zenon
    <3> QED
      BY <2>2, <2>3, <3>1, Zenon
  <2>7. CASE k < l
    <3>1. PICK q \in 1 .. Len(ss[x]) : q = k + 1
      <4>1. k + 1 \in 1 .. Len(ss[x])
        BY <2>5, <2>7
      <4> QED
        BY <4>1
    <3>2. fs[start[x - 1] + q] = ss[x][q]
      BY <1>9, Zenon
    <3>3. start[x - 1] + q = j + 1
      <4>1. k \in Nat /\ j = s + k /\ s + q = s + (k + 1)
        BY <2>2, <2>4, <2>5, <3>1
      <4>2. s + (k + 1) = (s + k) + 1
        <5>1. \A e, f \in Nat : e + (f + 1) = (e + f) + 1
          OBVIOUS
        <5> QED
          BY <4>1, <5>1, Zenon
      <4> QED
        BY <2>4, <4>1, <4>2, Zenon
    <3>4. fs[j + 1] = AsPiece(b + 1, a + 1, q)
      BY <2>3, <3>2, <3>3, Zenon
    <3>5. k < q
      BY <2>5, <3>1
    <3> QED
      BY <2>6, <3>4, <3>5 DEF Before, AsPiece
  <2>8. CASE ~(k < l)
    <3>1. k = l /\ j = s + l /\ j = start[x]
      <4>1. start[x] = start[x - 1] + Len(ss[x])
        BY <1>9, Zenon
      <4> QED
        BY <2>2, <2>4, <2>5, <2>8, <4>1
    <3>2. x # last
      <4>1. start[last] = Len(fs)
        BY <1>9
      <4> QED
        BY <2>0, <3>1, <4>1
    <3>3. PICK y \in 1 .. last : y = x + 1 /\ y - 1 = x
      <4>1. x + 1 \in 1 .. last /\ (x + 1) - 1 = x
        BY <3>2
      <4> QED
        BY <4>1
    <3>4. PICK c \in 0 .. m - 1, d \in 0 .. n - 1 :
               /\ y = c * n + d + 1 /\ ss[y] \in Seq(E) /\ Len(ss[y]) = size[d + 1] /\ size[d + 1] \in Nat \ {0}
               /\ \A i \in 1 .. size[d + 1] : ss[y][i] = AsPiece(d + 1, c + 1, i)
      BY <1>6
    <3>5. 1 \in 1 .. size[d + 1] /\ 1 \in 1 .. Len(ss[y])
      <4>1. PICK z \in Nat \ {0} : z = size[d + 1]
        BY <3>4
      <4> QED
        BY <3>4, <4>1
    <3>6. fs[start[y - 1] + 1] = ss[y][1]
      BY <1>9, <3>5, Zenon
    <3>7. start[y - 1] + 1 = j + 1
      BY <3>1, <3>3, Zenon
    <3>8. fs[j + 1] = AsPiece(d + 1, c + 1, 1)
      BY <3>4, <3>5, <3>6, <3>7, Zenon
    <3>9. a < c \/ (a = c /\ b < d)
      <4>1. c * n + d = a * n + b + 1
        <5>1. c * n \in Nat /\ a * n \in Nat
          OBVIOUS
        <5> QED
          BY <2>3, <3>3, <3>4, <5>1
      <4>2. a \in Nat /\ c \in Nat
        OBVIOUS
      <4> QED
        BY <4>1, <4>2, NextPlace
    <3>10. a + 1 < c + 1 \/ (a + 1 = c + 1 /\ b + 1 < d + 1)
      BY <3>9
    <3> QED
      BY <2>6, <3>8, <3>10 DEF Before, AsPiece
  <2> QED
    BY <2>7, <2>8
<1>13. InPieces(fs, size, n, m)
  BY <1>11, <1>12, Zenon DEF InPieces
<1> QED
  BY <1>a, <1>13, Zenon

\* SkinEdge adds the face of the next edge.
LEMMA SkinnedOneMore ==
  ASSUME NEW n \in Nat, NEW fs, Skinned(fs, n)
  PROVE  Skinned(Append(fs, AsSkinned(n + 1)), n + 1)
<1> DEFINE S == {AsSkinned(i) : i \in Nat}
           t == Append(fs, AsSkinned(n + 1))
<1>1. \A i \in Nat : AsSkinned(i) \in S
  OBVIOUS
<1> HIDE DEF S
<1>2. fs \in Seq(S) /\ Len(fs) = n /\ \A i \in 1 .. n : fs[i] = AsSkinned(i)
  <2>1. fs = [i \in 1 .. n |-> AsSkinned(i)]
    BY DEF Skinned
  <2>2. \A i \in 1 .. n : AsSkinned(i) \in S
    BY <1>1
  <2>3. fs \in Seq(S)
    BY <2>1, <2>2
  <2> QED
    BY <2>1, <2>3
<1>3. PICK e \in S : e = AsSkinned(n + 1)
  BY <1>1
<1>4. /\ t \in Seq(S) /\ Len(t) = n + 1 /\ t[n + 1] = e
      /\ \A i \in 1 .. n : t[i] = fs[i]
  <2>1. t = Append(fs, e)
    BY <1>3
  <2> HIDE DEF t
  <2> QED
    BY <1>2, <2>1
<1> HIDE DEF t
<1>5. t = [i \in 1 .. n + 1 |-> t[i]]
  BY <1>4
<1>6. \A i \in 1 .. n + 1 : t[i] = AsSkinned(i)
  BY <1>2, <1>3, <1>4
<1>7. t = [i \in 1 .. n + 1 |-> AsSkinned(i)]
  BY <1>5, <1>6
<1> QED
  BY <1>7 DEF Skinned, t

\* Of all edges of the profiles the cuts make faces that follow them.
LEMMA CutFollows ==
  ASSUME wires \in Seq(Wires), NEW n \in Nat, n = NbEdgesPerProfile, Skinned(faces, n),
         \A i \in 1 .. n : HasEdge(i),
         n > 0 => vparams = Len(wires) /\ Len(wires) > 1
  PROVE  Follow(CutShellAtKinks(ResortFaces(CutShellAtUVParameters(faces))), wires)
<1>1. PICK fs : fs = CutShellAtKinks(ResortFaces(CutShellAtUVParameters(faces)))
  OBVIOUS
<1>2. Len(EdgeMap(wires[1])) = n
  BY DEF NbEdgesPerProfile
<1>3. CASE n = 0
  <2>1. faces = <<>>
    BY <1>3 DEF Skinned
  <2>2. PICK E : E = Nat
    OBVIOUS
  <2>3. ASSUME NEW s, s = <<>> PROVE FlattenSeq(s) = <<>>
    <3>1. s \in Seq(Seq(E)) /\ Len(s) = 0
      BY <2>3
    <3>2. PICK f : Joins(f, s, E) /\ FlattenSeq(s) = f[Len(s)]
      BY <3>1, FlattenJoins
    <3> QED
      BY <3>1, <3>2, Zenon DEF Joins
  <2>4. CutShellAtUVParameters(faces) = <<>>
    <3>1. [k \in DOMAIN faces |->
            [v \in 1 .. NbIntervals |-> [edge |-> faces[k].edge, v |-> v, kinks |-> faces[k].kinks]]] = <<>>
      BY <2>1
    <3> QED
      BY <2>3, <3>1 DEF CutShellAtUVParameters
  <2>5. PICK u : u = CutShellAtUVParameters(faces)
    OBVIOUS
  <2>6. ResortFaces(u) = <<>>
    BY <2>4, <2>5 DEF ResortFaces
  <2>7. PICK r : r = ResortFaces(u)
    OBVIOUS
  <2>8. CutShellAtKinks(r) = <<>>
    <3>1. [k \in DOMAIN r |->
            [p \in 1 .. Cardinality(r[k].kinks) + 1 |-> [edge |-> r[k].edge, v |-> r[k].v, piece |-> p]]] = <<>>
      BY <2>6, <2>7
    <3> QED
      BY <2>3, <3>1 DEF CutShellAtKinks
  <2>9. fs = <<>>
    BY <1>1, <2>5, <2>7, <2>8
  <2>10. 1 .. Len(EdgeMap(wires[1])) = {} /\ 1 .. Len(fs) - 1 = {}
    BY <1>2, <1>3, <2>9
  <2>11. Follow(fs, wires)
    BY <2>10, Zenon DEF Follow
  <2> QED
    BY <1>1, <2>11, Zenon
<1>4. CASE n > 0
  <2>1. PICK m \in Nat : m = Len(wires) - 1 /\ m = NbIntervals
    <3>1. Len(wires) \in Nat
      OBVIOUS
    <3> QED
      BY <1>4, <3>1 DEF NbIntervals
  <2>2. PICK r : r = ResortFaces(CutShellAtUVParameters(faces))
    OBVIOUS
  <2>3. n \in Nat \ {0}
    BY <1>4
  <2>4. Strips(r, n, m)
    BY <2>1, <2>2, <2>3, StripsAre
  <2>5. PICK size : size = [i \in 1 .. n |-> Cardinality(Kinks(i)) + 1]
    OBVIOUS
  <2>6. size \in [1 .. n -> Nat \ {0}] /\ \A i \in 1 .. n : size[i] = Cardinality(Kinks(i)) + 1
    <3>1. ASSUME NEW i \in 1 .. n PROVE Cardinality(Kinks(i)) + 1 \in Nat \ {0}
      <4>1. Cardinality(Kinks(i)) \in Nat
        BY KinksAreFinite
      <4> QED
        BY <4>1
    <3> QED
      BY <2>5, <3>1
  <2>b. InPieces(CutShellAtKinks(r), size, n, m)
    <3>1. Sizes(size, n)
      BY <2>6 DEF Sizes
    <3> QED
      BY <2>1, <2>3, <2>4, <3>1, PiecesFollow
  <2>7. fs = CutShellAtKinks(r)
    BY <1>1, <2>2
  <2>8. /\ \A i \in 1 .. n : \A k \in 1 .. size[i] : \A v \in 1 .. m :
             \E j \in DOMAIN fs : fs[j] = AsPiece(i, v, k)
        /\ \A j \in 1 .. Len(fs) - 1 : Before(fs[j], fs[j + 1])
    BY <2>b, <2>7, Zenon DEF InPieces
  <2>9. ASSUME NEW i \in 1 .. n PROVE NbPieces(i, wires) = size[i]
    BY <2>6 DEF NbPieces, Kinks
  <2>10. ASSUME NEW i \in 1 .. Len(EdgeMap(wires[1])), NEW k \in 1 .. NbPieces(i, wires),
                NEW v \in 1 .. Len(wires) - 1
         PROVE  \E j \in DOMAIN fs : fs[j] = [edge |-> i, v |-> v, piece |-> k]
    <3>1. i \in 1 .. n /\ v \in 1 .. m
      BY <1>2, <2>1
    <3>2. k \in 1 .. size[i]
      BY <2>9, <3>1
    <3> QED
      BY <2>8, <3>1, <3>2, Zenon DEF AsPiece
  <2>11. Follow(fs, wires)
    BY <2>8, <2>10, Zenon DEF Follow
  <2> QED
    BY <1>1, <2>11, Zenon
<1> QED
  BY <1>3, <1>4

-----------------------------------------------------------------------------
\* While the edges are skinned, one after the other, and before the faces are
\* closed, the faces are those of the wires or of the network.
SkinnedSoFar ==
  /\ edge \in Nat \ {0} /\ edge <= NbEdgesPerProfile + 1 /\ Skinned(faces, edge - 1)
  /\ \A i \in 1 .. edge - 1 : HasEdge(i)
  /\ edge > 1 => vparams = Len(wires) /\ Len(wires) > 1

Skinning == pc = "skin" => ~guided /\ wires # <<>> /\ network = <<>> /\ SkinnedSoFar

Closing ==
  pc = "close" =>
    IF guided THEN network # <<>> /\ Fit(faces, FlattenSeq(network.frames))
    ELSE network = <<>> /\ Follow(faces, wires)

LoftSteps == (~guided => wires \in Seq(Wires)) /\ Skinning /\ Closing

MadeAsMeant == FacesFollowTheProfiles /\ PatchesFitTheirFrames

\* A call is only in the middle of its work as long as there is no result: what
\* is found then, also where it throws, is not a result to be kept.
WorksOnlyBefore == hasPerformed => pc = "idle"

FacesInv == WorksOnlyBefore /\ LoftSteps /\ MadeAsMeant

LEMMA MadeKept ==
  ASSUME MadeAsMeant, UNCHANGED <<hasPerformed, result>> PROVE MadeAsMeant'
BY Zenon DEF MadeAsMeant, FacesFollowTheProfiles, PatchesFitTheirFrames, Performed, Null

LEMMA NoLoftMade == ~Performed => MadeAsMeant
BY DEF MadeAsMeant, FacesFollowTheProfiles, PatchesFitTheirFrames

\* The profiles have edges to count.
LEMMA EdgesCounted ==
  ASSUME wires \in Seq(Wires), wires # <<>> PROVE NbEdgesPerProfile \in Nat
<1>1. wires[1] \in Wires
  OBVIOUS
<1>2. EdgeMap(wires[1]) \in Seq(DOMAIN KinksOf)
  BY <1>1, EdgesOf
<1> QED
  BY <1>2 DEF NbEdgesPerProfile

LEMMA SameWires ==
  ASSUME UNCHANGED wires
  PROVE  /\ NbEdgesPerProfile' = NbEdgesPerProfile
         /\ \A i : HasEdge(i)' = HasEdge(i) /\ Kinks(i)' = Kinks(i)
BY Zenon DEF NbEdgesPerProfile, HasEdge, Kinks

LEMMA SkinEdgeSteps == FacesInv /\ SkinEdge => SkinnedSoFar'
<1> SUFFICES ASSUME FacesInv, SkinEdge PROVE SkinnedSoFar'
  OBVIOUS
<1>1. /\ pc = "skin" /\ edge <= NbEdgesPerProfile /\ HasEdge(edge) /\ Len(wires) > 1
      /\ faces' = Append(faces, AsSkinned(edge)) /\ edge' = edge + 1
      /\ vparams' = Len(wires) /\ wires' = wires
  BY DEF SkinEdge, CanSkin, AsSkinned
<1>2. ~guided /\ wires \in Seq(Wires) /\ wires # <<>> /\ SkinnedSoFar
  BY <1>1 DEF FacesInv, LoftSteps, Skinning
<1>3. NbEdgesPerProfile \in Nat
  BY <1>2, EdgesCounted
<1>4. PICK n \in Nat : edge = n + 1 /\ edge - 1 = n
  <2>1. edge - 1 \in Nat /\ edge = (edge - 1) + 1
    BY <1>2 DEF SkinnedSoFar
  <2> QED
    BY <2>1
<1>5. Skinned(faces, n) /\ \A i \in 1 .. n : HasEdge(i)
  BY <1>2, <1>4 DEF SkinnedSoFar
<1>6. Skinned(faces', n + 1)
  <2>1. Skinned(Append(faces, AsSkinned(n + 1)), n + 1)
    BY <1>5, SkinnedOneMore
  <2> QED
    BY <1>1, <1>4, <2>1
<1>7. Skinned(faces, edge - 1)'
  <2>1. edge' - 1 = n + 1
    BY <1>1, <1>4
  <2>2. \A i : AsSkinned(i)' = AsSkinned(i)
    BY <1>1, SameWires DEF AsSkinned
  <2>3. faces' = [i \in 1 .. n + 1 |-> AsSkinned(i)]
    BY <1>6 DEF Skinned
  <2>4. faces' = [i \in 1 .. n + 1 |-> AsSkinned(i)']
    BY <2>2, <2>3
  <2>5. faces' = [i \in 1 .. edge' - 1 |-> AsSkinned(i)']
    BY <2>1, <2>4
  <2> QED
    BY <2>5 DEF Skinned
<1>8. \A i \in 1 .. edge' - 1 : HasEdge(i)'
  <2>1. ASSUME NEW i \in 1 .. edge' - 1 PROVE HasEdge(i)
    BY <1>1, <1>4, <1>5
  <2> QED
    BY <1>1, <2>1, SameWires
<1>9. edge' \in Nat \ {0} /\ edge' <= NbEdgesPerProfile' + 1
  BY <1>1, <1>3, <1>4, SameWires
<1>10. vparams' = Len(wires') /\ Len(wires') > 1
  BY <1>1
<1> QED
  BY <1>7, <1>8, <1>9, <1>10 DEF SkinnedSoFar

LEMMA CutSteps == FacesInv /\ Cut => Follow(faces, wires)'
<1> SUFFICES ASSUME FacesInv, Cut PROVE Follow(faces, wires)'
  OBVIOUS
<1>1. /\ pc = "skin" /\ edge > NbEdgesPerProfile /\ wires' = wires
      /\ faces' = CutShellAtKinks(ResortFaces(CutShellAtUVParameters(faces)))
  BY DEF Cut
<1>2. wires \in Seq(Wires) /\ wires # <<>> /\ SkinnedSoFar
  BY <1>1 DEF FacesInv, LoftSteps, Skinning
<1>3. NbEdgesPerProfile \in Nat
  BY <1>2, EdgesCounted
<1>4. edge - 1 = NbEdgesPerProfile
  BY <1>1, <1>2, <1>3 DEF SkinnedSoFar
<1>5. PICK n \in Nat : n = NbEdgesPerProfile
  BY <1>3
<1>6. Skinned(faces, n) /\ (\A i \in 1 .. n : HasEdge(i))
  BY <1>2, <1>4, <1>5 DEF SkinnedSoFar
<1>7. n > 0 => vparams = Len(wires) /\ Len(wires) > 1
  BY <1>2, <1>4, <1>5 DEF SkinnedSoFar
<1>8. Follow(CutShellAtKinks(ResortFaces(CutShellAtUVParameters(faces))), wires)
  BY <1>2, <1>5, <1>6, <1>7, CutFollows
<1>9. Follow(faces', wires')
  BY <1>1, <1>8, Zenon
<1> QED
  BY <1>9

LEMMA NextFaces == FacesInv /\ [Next]_vars => FacesInv'
<1> SUFFICES ASSUME FacesInv, [Next]_vars PROVE FacesInv'
  OBVIOUS
<1> USE DEF Idle, settings, call
<1>1. CASE UNCHANGED vars
  <2>1. /\ UNCHANGED <<hasPerformed, result>>
        /\ UNCHANGED <<pc, guided, wires, network, faces, edge, vparams>>
    BY <1>1 DEF vars
  <2>2. MadeAsMeant'
    BY <2>1, MadeKept DEF FacesInv
  <2>3. SkinnedSoFar' <=> SkinnedSoFar
    BY <2>1, Zenon DEF SkinnedSoFar, NbEdgesPerProfile, HasEdge, Skinned, AsSkinned, Kinks
  <2>4. Skinning' /\ Closing' /\ (~guided => wires \in Seq(Wires))' /\ WorksOnlyBefore'
    <3>1. Skinning'
      BY <2>1, <2>3 DEF FacesInv, LoftSteps, Skinning
    <3>2. Closing'
      BY <2>1, Zenon DEF FacesInv, LoftSteps, Closing
    <3>3. (~guided => wires \in Seq(Wires))' /\ WorksOnlyBefore'
      BY <2>1 DEF FacesInv, LoftSteps, WorksOnlyBefore
    <3> QED
      BY <3>1, <3>2, <3>3
  <2> QED
    BY <2>2, <2>4 DEF FacesInv, LoftSteps
<1>2. CASE addWire \/ addGuides \/ setMakeSolid \/ setMakeSmooth
  <2>1. pc' = "idle" /\ UNCHANGED <<hasPerformed, result>>
    BY <1>2 DEF addWire, addGuides, setMakeSolid, setMakeSmooth, MayAdd
  <2>2. (~guided => wires \in Seq(Wires))'
    <3>1. CASE addWire
      <4>1. guided' = guided
        BY <3>1 DEF addWire
      <4>2. ASSUME ~guided PROVE wires' \in Seq(Wires)
        <5>1. PICK n \in 1 .. 2 : \E w \in [1 .. n -> Wires] : wires' = wires \o w
          BY <3>1 DEF addWire
        <5>2. PICK w \in [1 .. n -> Wires] : wires' = wires \o w
          BY <5>1
        <5>3. w \in Seq(Wires) /\ wires \in Seq(Wires)
          BY <4>2 DEF FacesInv, LoftSteps
        <5> QED
          BY <5>2, <5>3
      <4> QED
        BY <4>1, <4>2
    <3>2. CASE addGuides
      BY <3>2 DEF addGuides
    <3>3. CASE setMakeSolid \/ setMakeSmooth
      BY <3>3 DEF setMakeSolid, setMakeSmooth, FacesInv, LoftSteps
    <3> QED
      BY <1>2, <3>1, <3>2, <3>3
  <2>3. MadeAsMeant'
    BY <2>1, MadeKept DEF FacesInv
  <2> QED
    BY <2>1, <2>2, <2>3 DEF FacesInv, LoftSteps, Skinning, Closing, WorksOnlyBefore
<1>3. CASE makeLoftWithGuides
  <2>1. guided' /\ ~hasPerformed /\ network' \in Networks /\ faces' = Patches(network', "CoonsStyle")
    BY <1>3 DEF makeLoftWithGuides
  <2>2. CASE Status(network') = OK
    <3>1. pc' = "close" /\ UNCHANGED <<hasPerformed, result>>
      BY <1>3, <2>2 DEF makeLoftWithGuides
    <3>2. IsNetwork(network')
      BY <2>1, InterpolateWiresAssumption
    <3>3. PICK n : n = network'
      OBVIOUS
    <3>4. Fit(Patches(n, "CoonsStyle"), FlattenSeq(n.frames))
      BY <2>2, <3>2, <3>3, PatchesFit
    <3>5. Fit(faces', FlattenSeq((network').frames))
      BY <2>1, <3>3, <3>4, Zenon
    <3>6. network' # <<>>
      <4>1. DOMAIN network' # {}
        BY <3>2 DEF IsNetwork
      <4> QED
        BY <4>1
    <3>7. Closing'
      BY <2>1, <3>5, <3>6 DEF Closing
    <3>8. MadeAsMeant'
      BY <3>1, MadeKept DEF FacesInv
    <3> QED
      BY <2>1, <3>1, <3>7, <3>8 DEF FacesInv, LoftSteps, Skinning, WorksOnlyBefore
  <2>3. CASE Status(network') # OK
    <3>1. pc' = "idle" /\ result' = Null
      BY <1>3, <2>3 DEF makeLoftWithGuides
    <3>2. ~Performed'
      BY <3>1 DEF Performed, Null
    <3>3. MadeAsMeant'
      BY <3>2 DEF MadeAsMeant, FacesFollowTheProfiles, PatchesFitTheirFrames
    <3> QED
      BY <2>1, <3>1, <3>3 DEF FacesInv, LoftSteps, Skinning, Closing, WorksOnlyBefore
  <2> QED
    BY <2>2, <2>3
<1>4. CASE makeLoftWithoutGuides
  <2>1. /\ ~hasPerformed /\ wires # <<>> /\ ~guided /\ guided' = guided /\ wires' = wires
        /\ UNCHANGED <<vparams, hasPerformed, result>>
    BY <1>4 DEF makeLoftWithoutGuides, Throw
  <2>2. MadeAsMeant'
    BY <2>1, MadeKept DEF FacesInv
  <2>3. wires \in Seq(Wires)
    BY <2>1 DEF FacesInv, LoftSteps
  <2>4. Skinning' /\ pc' # "close"
    <3>1. CASE AllSame
      <4>1. pc' = "skin" /\ edge' = 1 /\ faces' = <<>> /\ network' = <<>>
        BY <1>4, <3>1 DEF makeLoftWithoutGuides
      <4>2. NbEdgesPerProfile' \in Nat
        BY <2>1, <2>3, EdgesCounted, SameWires
      <4>3. Skinned(faces, edge - 1)'
        BY <4>1 DEF Skinned
      <4>4. SkinnedSoFar'
        <5>1. edge' \in Nat \ {0} /\ edge' <= NbEdgesPerProfile' + 1
          <6>1. PICK n \in Nat : n = NbEdgesPerProfile'
            BY <4>2
          <6>a. n \in Nat
            BY <6>1
          <6>b. edge' = 1
            BY <4>1
          <6>c. 1 <= n + 1
            BY <6>a
          <6>d. 1 \in Nat \ {0}
            OBVIOUS
          <6>2. edge' \in Nat \ {0} /\ edge' <= n + 1
            BY <6>b, <6>c, <6>d, Zenon
          <6> QED
            BY <6>1, <6>2, Zenon
        <5>2. \A i \in 1 .. edge' - 1 : HasEdge(i)'
          BY <4>1
        <5>3. ~(edge' > 1)
          BY <4>1
        <5> QED
          BY <4>3, <5>1, <5>2, <5>3 DEF SkinnedSoFar
      <4> QED
        BY <2>1, <4>1, <4>4 DEF Skinning
    <3>2. CASE ~AllSame
      BY <1>4, <3>2 DEF makeLoftWithoutGuides, Throw, Skinning
    <3> QED
      BY <3>1, <3>2
  <2> QED
    BY <2>1, <2>2, <2>3, <2>4 DEF FacesInv, LoftSteps, Closing, WorksOnlyBefore
<1>5. CASE SkinEdge
  <2>1. /\ pc' = "skin" /\ ~guided /\ ~guided' /\ wires' = wires /\ wires # <<>> /\ network' = <<>>
        /\ UNCHANGED <<hasPerformed, result>> /\ ~hasPerformed
    BY <1>5 DEF SkinEdge, FacesInv, LoftSteps, Skinning, WorksOnlyBefore
  <2>2. SkinnedSoFar'
    BY <1>5, SkinEdgeSteps
  <2>3. MadeAsMeant'
    BY <2>1, MadeKept DEF FacesInv
  <2> QED
    BY <2>1, <2>2, <2>3 DEF FacesInv, LoftSteps, Skinning, Closing, WorksOnlyBefore
<1>6. CASE SkinThrows
  <2>1. pc' = "idle" /\ UNCHANGED <<wires, guided, hasPerformed, result>>
    BY <1>6 DEF SkinThrows, Throw
  <2>2. MadeAsMeant'
    BY <2>1, MadeKept DEF FacesInv
  <2> QED
    BY <2>1, <2>2 DEF FacesInv, LoftSteps, Skinning, Closing, WorksOnlyBefore
<1>7. CASE Cut
  <2>1. /\ pc' = "close" /\ ~guided /\ ~guided' /\ wires' = wires /\ network' = <<>>
        /\ UNCHANGED <<hasPerformed, result>> /\ ~hasPerformed
    BY <1>7 DEF Cut, FacesInv, LoftSteps, Skinning, WorksOnlyBefore
  <2>2. Follow(faces, wires)'
    BY <1>7, CutSteps
  <2>3. MadeAsMeant'
    BY <2>1, MadeKept DEF FacesInv
  <2>4. Closing'
    BY <2>1, <2>2 DEF Closing
  <2> QED
    BY <2>1, <2>3, <2>4 DEF FacesInv, LoftSteps, Skinning, WorksOnlyBefore
<1>8. CASE CloseShape
  <2>1. /\ pc = "close" /\ pc' = "idle" /\ UNCHANGED <<wires, guided>>
        /\ result'.faces = faces /\ result'.of = wires /\ result'.network = network
    BY <1>8 DEF CloseShape
  <2>2. IF guided THEN network # <<>> /\ Fit(faces, FlattenSeq(network.frames))
        ELSE network = <<>> /\ Follow(faces, wires)
    BY <2>1, Zenon DEF FacesInv, LoftSteps, Closing
  <2>3. FacesFollowTheProfiles'
    <3>1. result'.network = <<>> => Follow(result'.faces, result'.of)
      BY <2>1, <2>2, Zenon
    <3> QED
      BY <3>1, Zenon DEF FacesFollowTheProfiles
  <2>4. PatchesFitTheirFrames'
    <3>1. result'.network # <<>> => Fit(result'.faces, FlattenSeq(result'.network.frames))
      BY <2>1, <2>2, Zenon
    <3> QED
      BY <3>1, Zenon DEF PatchesFitTheirFrames
  <2> QED
    BY <2>1, <2>3, <2>4 DEF FacesInv, LoftSteps, Skinning, Closing, WorksOnlyBefore, MadeAsMeant
<1>9. CASE CloseThrows
  <2>1. ~hasPerformed' /\ pc' = "idle" /\ UNCHANGED <<wires, guided>>
    BY <1>9 DEF CloseThrows, Throw, FacesInv, WorksOnlyBefore
  <2>2. ~Performed'
    BY <2>1 DEF Performed
  <2>3. MadeAsMeant'
    BY <2>2 DEF MadeAsMeant, FacesFollowTheProfiles, PatchesFitTheirFrames
  <2> QED
    BY <2>1, <2>3 DEF FacesInv, LoftSteps, Skinning, Closing, WorksOnlyBefore
<1> QED
  BY <1>1, <1>2, <1>3, <1>4, <1>5, <1>6, <1>7, <1>8, <1>9 DEF Next

LEMMA InitFaces == Init => FacesInv
<1> SUFFICES ASSUME Init PROVE FacesInv
  OBVIOUS
<1>1. pc = "idle" /\ ~hasPerformed
  BY DEF Init
<1>2. wires \in Seq(Wires)
  <2>1. wires = <<>> \/ \E w \in Wires : wires = <<w>>
    BY DEF Init
  <2>2. <<>> \in Seq(Wires) /\ \A w \in Wires : <<w>> \in Seq(Wires)
    OBVIOUS
  <2> QED
    BY <2>1, <2>2
<1>3. MadeAsMeant
  BY <1>1, NoLoftMade DEF Performed
<1> QED
  BY <1>1, <1>2, <1>3 DEF FacesInv, LoftSteps, Skinning, Closing, WorksOnlyBefore

\* Without guides a loft has a face for each edge of the profiles, each interval
\* between two and each piece between kinks, in the order of the coons patches:
\* however many profiles and edges there are, whatever kinks these have, and also
\* if calls before threw and profiles were added since.
THEOREM LoftsFollowTheProfiles == Spec => []FacesFollowTheProfiles
<1>1. FacesInv => FacesFollowTheProfiles
  BY DEF FacesInv, MadeAsMeant
<1> QED
  BY <1>1, InitFaces, NextFaces, PTL DEF Spec

\* With guides each cell of any network has its patch, in the order of the cells:
\* opposite boundaries have the same degree and knots, the first and the last
\* begin at the same corner, and no knot with the point of an end is left beside
\* the end.  A knot that is near and has another point stays, as in the code.
THEOREM PatchesFillTheFrames == Spec => []PatchesFitTheirFrames
<1>1. FacesInv => PatchesFitTheirFrames
  BY DEF FacesInv, MadeAsMeant
<1> QED
  BY <1>1, InitFaces, NextFaces, PTL DEF Spec
=============================================================================
