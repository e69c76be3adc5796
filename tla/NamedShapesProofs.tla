-------------------------- MODULE NamedShapesProofs --------------------------
(***************************************************************************)
(* Through any calls a face keeps the name of the solid it is a part of:   *)
(* for every board, every number of solids, calls and operands.            *)
(***************************************************************************)
EXTENDS NamedShapes, OrderLemmas

-----------------------------------------------------------------------------
(***************************************************************************)
(* Lists of the members of sets.                                           *)
(***************************************************************************)
\* What is left of a finite set without one of its members is smaller.
LEMMA FewerWithout ==
  ASSUME NEW S, IsFiniteSet(S), NEW T \in SUBSET S, NEW x \in T
  PROVE  /\ Cardinality(T) \in 0 .. Cardinality(S) /\ Cardinality(S) \in Nat
         /\ T \ {x} \in SUBSET S /\ Cardinality(T \ {x}) < Cardinality(T)
<1>1. IsFiniteSet(T) /\ Cardinality(T) <= Cardinality(S)
  BY FS_Subset
<1>2. Cardinality(T) \in Nat /\ Cardinality(S) \in Nat
  BY <1>1, FS_CardinalityType
<1>3. Cardinality(T \ {x}) = Cardinality(T) - 1
  BY <1>1, FS_RemoveElement
<1> QED
  BY <1>1, <1>2, <1>3

\* A finite set can be listed, and nothing else is in the list.
LEMMA ListedOfMembers == ASSUME NEW S, IsFiniteSet(S) PROVE Listed(S) \in Seq(S)
<1> DEFINE All == SUBSET S
           n == Cardinality(S)
           Lists == Seq(S)
           rank == [T \in All |-> Cardinality(T)]
           Take(T) == CHOOSE x \in T : TRUE
           F == [g \in [All -> Lists] |-> [T \in All |->
                   IF T = {} THEN <<>> ELSE LET x == CHOOSE x \in T : TRUE IN Append(g[T \ {x}], x)]]
           Runs(f) == f = [T \in All |->
                   IF T = {} THEN <<>> ELSE LET x == CHOOSE x \in T : TRUE IN Append(f[T \ {x}], x)]
           list == CHOOSE f : Runs(f)
<1>1. \A T \in All : T # {} => Take(T) \in T
  OBVIOUS
<1>2. n \in Nat /\ rank \in [All -> 0 .. n] /\ Lists # {}
  <2>1. <<>> \in Lists
    OBVIOUS
  <2>2. n \in Nat
    BY FS_CardinalityType
  <2>3. ASSUME NEW T \in All PROVE Cardinality(T) \in 0 .. n
    <3>1. IsFiniteSet(T) /\ Cardinality(T) <= n
      BY FS_Subset
    <3>2. Cardinality(T) \in Nat
      BY <3>1, FS_CardinalityType
    <3> QED
      BY <2>2, <3>1, <3>2
  <2> QED
    BY <2>1, <2>2, <2>3
<1>3. F \in [[All -> Lists] -> [All -> Lists]]
  <2> SUFFICES ASSUME NEW g \in [All -> Lists], NEW T \in All, T # {}
               PROVE  Append(g[T \ {Take(T)}], Take(T)) \in Lists
    OBVIOUS
  <2>1. Take(T) \in S /\ T \ {Take(T)} \in All
    BY <1>1
  <2> HIDE DEF Take
  <2>2. g[T \ {Take(T)}] \in Seq(S)
    BY <2>1
  <2> QED
    BY <2>1, <2>2
<1>4. ASSUME NEW T \in All, NEW g \in [All -> Lists], NEW h \in [All -> Lists],
             \A U \in All : rank[U] < rank[T] => g[U] = h[U]
      PROVE  F[g][T] = F[h][T]
  <2>1. T # {} => T \ {Take(T)} \in All /\ Cardinality(T \ {Take(T)}) < Cardinality(T)
    <3> HIDE DEF Take
    <3> QED
      BY <1>1, FewerWithout
  <2>2. T # {} => g[T \ {Take(T)}] = h[T \ {Take(T)}]
    <3> HIDE DEF Take
    <3> QED
      BY <1>4, <2>1
  <2> HIDE DEF Lists
  <2> QED
    BY <2>2
<1>5. PICK f \in [All -> Lists] : F[f] = f
  <2> HIDE DEF All, F, rank, Lists, n
  <2>1. Recursion(F, All, Lists, rank, n)
    BY <1>2, <1>3, <1>4 DEF Recursion
  <2>2. HasSolution(F, All, Lists)
    BY <2>1, RecursionRuns
  <2> QED
    BY <2>2 DEF HasSolution
<1>6. Runs(f)
  BY <1>5
<1>7. Runs(list)
  <2> HIDE DEF Runs
  <2> QED
    BY <1>6
<1>8. Listed(S) = list[S]
  BY DEF Listed
<1> HIDE DEF list
<1> DEFINE Known == {k \in 0 .. n : \A T \in All : Cardinality(T) <= k => list[T] \in Lists}
<1>9. ASSUME NEW T \in All, \A U \in All : Cardinality(U) < Cardinality(T) => list[U] \in Lists
      PROVE  list[T] \in Lists
  <2>1. CASE T = {}
    <3>1. list[T] = <<>>
      BY <1>7, <2>1
    <3> QED
      BY <3>1
  <2>2. CASE T # {}
    <3>1. list[T] = Append(list[T \ {Take(T)}], Take(T))
      BY <1>7, <2>2
    <3>2. Take(T) \in T
      BY <1>1, <2>2
    <3> HIDE DEF Take
    <3>3. T \ {Take(T)} \in All /\ Cardinality(T \ {Take(T)}) < Cardinality(T)
      BY <3>2, FewerWithout
    <3>4. list[T \ {Take(T)}] \in Seq(S) /\ Take(T) \in S
      BY <1>9, <3>2, <3>3
    <3> QED
      BY <3>1, <3>4
  <2> QED
    BY <2>1, <2>2
<1>10. \A T \in All : Cardinality(T) \in 0 .. n
  BY <1>2
<1>11. 0 \in Known
  <2>1. ASSUME NEW T \in All, Cardinality(T) <= 0 PROVE list[T] \in Lists
    <3>1. \A U \in All : ~ Cardinality(U) < Cardinality(T)
      BY <1>10, <2>1
    <3> HIDE DEF All, Lists
    <3> QED
      BY <1>9, <3>1
  <2> HIDE DEF Lists, All
  <2> QED
    BY <1>2, <2>1
<1>12. ASSUME NEW k \in 0 .. n - 1, k \in Known PROVE k + 1 \in Known
  <2>1. ASSUME NEW T \in All, Cardinality(T) <= k + 1 PROVE list[T] \in Lists
    <3>1. \A U \in All : Cardinality(U) < Cardinality(T) => list[U] \in Lists
      <4> SUFFICES ASSUME NEW U \in All, Cardinality(U) < Cardinality(T) PROVE list[U] \in Lists
        OBVIOUS
      <4>1. Cardinality(U) <= k
        BY <1>2, <1>10, <2>1
      <4> QED
        BY <1>12, <4>1
    <3> HIDE DEF All, Lists
    <3> QED
      BY <1>9, <2>1, <3>1
  <2> HIDE DEF Lists, All
  <2> QED
    BY <1>2, <2>1
<1>13. 0 .. n \subseteq Known
  <2> HIDE DEF Known, n
  <2> QED
    BY <1>2, <1>11, <1>12, Climb, Zenon
<1>14. S \in All /\ n \in Known /\ n <= n
  BY <1>2, <1>13
<1> QED
  BY <1>8, <1>14

\* Those members of a sequence that are in a set are members of both.
LEMMA ThoseAreMembers ==
  ASSUME NEW E, NEW seq \in Seq(E), NEW S
  PROVE  Those(seq, S) \in Seq(S \cap ToSet(seq))
<1> DEFINE T == S \cap ToSet(seq)
           ss == [i \in DOMAIN seq |-> IF seq[i] \in S THEN <<seq[i]>> ELSE <<>>]
<1>1. ASSUME NEW i \in DOMAIN seq PROVE ss[i] \in Seq(T)
  <2>1. seq[i] \in ToSet(seq)
    BY DEF ToSet
  <2>2. PICK x : x = seq[i]
    OBVIOUS
  <2>3. CASE x \in S
    <3>1. x \in T /\ ss[i] = <<x>>
      BY <2>1, <2>2, <2>3
    <3> HIDE DEF ss, T
    <3>2. <<x>> \in Seq(T)
      BY <3>1
    <3> QED
      BY <3>1, <3>2
  <2>4. CASE x \notin S
    <3>1. ss[i] = <<>>
      BY <2>2, <2>4
    <3> QED
      BY <3>1
  <2> QED
    BY <2>3, <2>4
<1>2. DOMAIN seq = 1 .. Len(seq) /\ Len(seq) \in Nat /\ DOMAIN ss = DOMAIN seq /\ ss = [i \in DOMAIN seq |-> ss[i]]
  OBVIOUS
<1> HIDE DEF ss, T
<1>3. ss \in Seq(Seq(T))
  BY <1>1, <1>2
<1>4. FlattenSeq(ss) \in Seq(T)
  BY <1>3, FlattenIsSequence
<1> QED
  BY <1>4 DEF ss, T, Those

\* What is in a joined sequence is in one of the sequences joined.
LEMMA FlattenFrom ==
  ASSUME NEW E, NEW ss \in Seq(Seq(E)), NEW x \in ToSet(FlattenSeq(ss))
  PROVE  \E i \in DOMAIN ss : x \in ToSet(ss[i])
<1> DEFINE U == UNION {ToSet(ss[i]) : i \in DOMAIN ss}
<1>1. ASSUME NEW i \in DOMAIN ss PROVE ss[i] \in Seq(U)
  <2>1. ss[i] \in Seq(E)
    OBVIOUS
  <2>2. ss[i] \in Seq(ToSet(ss[i]))
    BY <2>1, SequenceOfItsOwn
  <2>3. ToSet(ss[i]) \subseteq U
    OBVIOUS
  <2> HIDE DEF U
  <2> QED
    BY <2>2, <2>3
<1>2. DOMAIN ss = 1 .. Len(ss) /\ Len(ss) \in Nat /\ ss = [i \in DOMAIN ss |-> ss[i]]
  OBVIOUS
<1>3. FlattenSeq(ss) \in Seq(U)
  <2> HIDE DEF U
  <2>1. ss \in Seq(Seq(U))
    BY <1>1, <1>2
  <2> QED
    BY <2>1, FlattenIsSequence
<1>4. x \in U
  <2> HIDE DEF U
  <2> QED
    BY <1>3 DEF ToSet
<1> QED
  BY <1>4

-----------------------------------------------------------------------------
(***************************************************************************)
(* Faces: their walls are walls of the board, and pieces have fewer.       *)
(***************************************************************************)
IsFace(f) == f = [of |-> f.of, walls |-> f.walls] /\ f.walls \in SUBSET Wall

LEMMA WallsAreFinite == IsFiniteSet(Wall)
<1> DEFINE Xs == 0 .. 2 * Width
           Ys == 0 .. 2 * Height
<1>1. 2 * Width \in Int /\ 2 * Height \in Int
  BY BoardAssumption
<1>2. IsFiniteSet(Xs) /\ IsFiniteSet(Ys)
  BY <1>1, FS_Interval
<1>3. IsFiniteSet(Xs \X Ys)
  BY <1>2, FS_Product
<1>4. Wall \subseteq Xs \X Ys
  BY DEF Wall, Coordinate
<1> HIDE DEF Xs, Ys
<1> QED
  BY <1>3, <1>4, FS_Subset

\* There are finitely many faces of finitely many identities.
LEMMA FacesAreFinite ==
  ASSUME NEW O, IsFiniteSet(O) PROVE IsFiniteSet([of : O, walls : SUBSET Wall])
<1> DEFINE W == SUBSET Wall
           P == O \X W
           Q == [of : O, walls : W]
           f == [p \in P |-> [of |-> p[1], walls |-> p[2]]]
<1>1. IsFiniteSet(P)
  <2>1. IsFiniteSet(W)
    BY WallsAreFinite, FS_SUBSET
  <2> HIDE DEF W
  <2> QED
    BY <2>1, FS_Product
<1>2. f \in [P -> Q]
  OBVIOUS
<1>3. ASSUME NEW q \in Q PROVE \E p \in P : f[p] = q
  <2>1. <<q.of, q.walls>> \in P /\ f[<<q.of, q.walls>>] = q
    OBVIOUS
  <2> QED
    BY <2>1
<1>4. f \in Surjection(P, Q)
  <2> HIDE DEF f, P, Q
  <2> QED
    BY <1>2, <1>3 DEF Surjection
<1> HIDE DEF f, P, Q
<1>5. IsFiniteSet(Q)
  BY <1>1, <1>4, FS_Surjection
<1> QED
  BY <1>5 DEF Q

LEMMA ImagesAreFaces ==
  ASSUME NEW f, IsFace(f), NEW W, NEW g \in Images(f, W)
  PROVE  IsFace(g) /\ g.walls \subseteq f.walls /\ g.of = f.of
<1>1. PICK p \in Pieces(f.walls, W) : g = [of |-> f.of, walls |-> p]
  BY DEF Images
<1>2. p \subseteq f.walls
  BY <1>1 DEF Pieces
<1> QED
  BY <1>1, <1>2 DEF IsFace

LEMMA ImagesAreFinite ==
  ASSUME NEW f, IsFace(f), NEW W PROVE IsFiniteSet(Images(f, W))
<1>1. IsFiniteSet([of : {f.of}, walls : SUBSET Wall])
  <2>1. IsFiniteSet({f.of})
    BY FS_Singleton
  <2> QED
    BY <2>1, FacesAreFinite
<1>2. ASSUME NEW g \in Images(f, W) PROVE g \in [of : {f.of}, walls : SUBSET Wall]
  <2>1. IsFace(g) /\ g.of = f.of
    BY ImagesAreFaces
  <2> QED
    BY <2>1 DEF IsFace
<1> QED
  BY <1>1, <1>2, FS_Subset

\* Sewing makes faces anew, of the same walls.
LEMMA SewnFaceIsAFace ==
  ASSUME NEW f, IsFace(f), NEW fs PROVE IsFace(SewnFace(fs, f)) /\ SewnFace(fs, f).walls = f.walls
<1>1. PICK o, w : f = [of |-> o, walls |-> w]
  BY DEF IsFace
<1>2. w \in SUBSET Wall
  BY <1>1 DEF IsFace
<1>3. [f EXCEPT !.of = <<"sewn", @>>] = [of |-> <<"sewn", o>>, walls |-> w]
  BY <1>1
<1>4. SewnFace(fs, f) = [of |-> <<"sewn", o>>, walls |-> w] \/ SewnFace(fs, f) = [of |-> o, walls |-> w]
  <2> HIDE DEF IsFace
  <2> QED
    BY <1>1, <1>3, Zenon DEF SewnFace
<1> QED
  BY <1>1, <1>2, <1>4 DEF IsFace

\* The four sides of a solid.
LEMMA SidesAreFaces ==
  ASSUME NEW name, NEW S
  PROVE  Sides(name, S) \in Seq(ToSet(Sides(name, S))) /\ \A f \in ToSet(Sides(name, S)) : IsFace(f)
<1>1. Boundary(S) \subseteq Wall
  BY DEF Boundary
<1>2. PICK B : B = Boundary(S)
  OBVIOUS
<1>3. \E a, b, c, d \in SUBSET B : Sides(name, S) =
        <<[of |-> Append(name, 1), walls |-> a], [of |-> Append(name, 2), walls |-> b],
          [of |-> Append(name, 3), walls |-> c], [of |-> Append(name, 4), walls |-> d]>>
  BY <1>2 DEF Sides
<1>4. PICK a, b, c, d \in SUBSET B : Sides(name, S) =
        <<[of |-> Append(name, 1), walls |-> a], [of |-> Append(name, 2), walls |-> b],
          [of |-> Append(name, 3), walls |-> c], [of |-> Append(name, 4), walls |-> d]>>
  BY <1>3
<1>5. PICK p, q, r, t : p = Append(name, 1) /\ q = Append(name, 2) /\ r = Append(name, 3) /\ t = Append(name, 4)
  OBVIOUS
<1> DEFINE fs == <<[of |-> p, walls |-> a], [of |-> q, walls |-> b], [of |-> r, walls |-> c], [of |-> t, walls |-> d]>>
<1>6. Sides(name, S) = fs
  BY <1>4, <1>5
<1>7. ToSet(fs) = {fs[1], fs[2], fs[3], fs[4]}
  BY DEF ToSet
<1>8. fs \in Seq(ToSet(fs))
  BY <1>7
<1>9. ASSUME NEW f \in ToSet(fs) PROVE IsFace(f)
  BY <1>1, <1>2, <1>7 DEF IsFace
<1> QED
  BY <1>6, <1>8, <1>9

-----------------------------------------------------------------------------
(***************************************************************************)
(* Traits: what a face has of the solid it is a part of.  S are the solids *)
(* of the scene.                                                           *)
(***************************************************************************)
\* A solid and its copies.
Ids(n) == {<<"object", n>>, <<"copy", n>>}

PartOf(walls, n, S) == \E f \in ToSet(Sides(Name(n), S[n])) : walls \subseteq f.walls

\* The traits tell where the face comes from.
Marked(t, walls, S) ==
  \E n \in DOMAIN S : t.name = Name(n) /\ t.origin \in Ids(n) /\ PartOf(walls, n, S)

\* The face is one of a solid or of a copy, which have no origin.
Own(t, id, walls, S) ==
  \E n \in DOMAIN S : t.name = Name(n) /\ t.origin = NoOrigin /\ id \in Ids(n) /\ PartOf(walls, n, S)

IsTraits(t) == t = [name |-> t.name, origin |-> t.origin]

IsNamed(s) ==
  /\ s = [id |-> s.id, shape |-> s.shape, name |-> s.name, traits |-> s.traits]
  /\ s.shape \in Seq(ToSet(s.shape)) /\ \A f \in ToSet(s.shape) : IsFace(f)
  /\ s.traits = [i \in DOMAIN s.shape |-> s.traits[i]] /\ \A i \in DOMAIN s.shape : IsTraits(s.traits[i])

MarkedAt(s, i, S) == Marked(s.traits[i], s.shape[i].walls, S)

OwnAt(s, i, S) == Own(s.traits[i], s.id, s.shape[i].walls, S)

\* What the operations take, and what they make.
Operand(s, S) == IsNamed(s) /\ \A i \in DOMAIN s.shape : MarkedAt(s, i, S) \/ OwnAt(s, i, S)

Settled(s, S) == IsNamed(s) /\ \A i \in DOMAIN s.shape : MarkedAt(s, i, S)

LEMMA SettledIsOperand == ASSUME NEW s, NEW S, Settled(s, S) PROVE Operand(s, S)
BY DEF Settled, Operand

\* Less of a part is a part.
LEMMA PartOfAPart ==
  ASSUME NEW u, NEW w, u \subseteq w, NEW n, NEW S, PartOf(w, n, S) PROVE PartOf(u, n, S)
BY DEF PartOf

LEMMA FaceAt == ASSUME NEW s, IsNamed(s), NEW i \in DOMAIN s.shape PROVE s.shape[i] \in ToSet(s.shape) /\ IsFace(s.shape[i])
BY DEF IsNamed, ToSet

\* What SetDerivedFromShape writes says where the face comes from.
LEMMA DerivedIsMarked ==
  ASSUME NEW S, NEW s, Operand(s, S), NEW i \in DOMAIN s.shape, NEW walls, walls \subseteq s.shape[i].walls
  PROVE  IsTraits(SetDerivedFromShape(s, i)) /\ Marked(SetDerivedFromShape(s, i), walls, S)
<1>1. PICK a, o : s.traits[i] = [name |-> a, origin |-> o]
  BY DEF Operand, IsNamed, IsTraits
<1>2. PICK n \in DOMAIN S : /\ a = Name(n) /\ PartOf(s.shape[i].walls, n, S)
                            /\ o \in Ids(n) \/ (o = NoOrigin /\ s.id \in Ids(n))
  BY <1>1 DEF Operand, MarkedAt, OwnAt, Marked, Own
<1>3. PartOf(walls, n, S)
  BY <1>2, PartOfAPart
<1>4. \A id \in Ids(n) : id # NoOrigin
  BY DEF Ids, NoOrigin
<1>5. PICK id : id = s.id
  OBVIOUS
<1>6. [s.traits[i] EXCEPT !.origin = s.id] = [name |-> a, origin |-> id]
  BY <1>1, <1>5
<1>7. SetDerivedFromShape(s, i) = IF o = NoOrigin THEN [name |-> a, origin |-> id] ELSE [name |-> a, origin |-> o]
  BY <1>1, <1>6 DEF SetDerivedFromShape
<1>8. PICK m \in Ids(n) : SetDerivedFromShape(s, i) = [name |-> a, origin |-> m]
  BY <1>2, <1>4, <1>5, <1>7
<1> HIDE DEF Ids
<1>9. IsTraits(SetDerivedFromShape(s, i))
  BY <1>8 DEF IsTraits
<1> QED
  BY <1>2, <1>3, <1>8, <1>9 DEF Marked

-----------------------------------------------------------------------------
(***************************************************************************)
(* SetTraits.                                                              *)
(***************************************************************************)
\* The faces of the target are parts of those of the source they come from.
Narrows(from, source) == \A f \in ToSet(source.shape) : \A g \in from[f] : g.walls \subseteq f.walls

\* r is the target with the faces of H marked, and what was marked before.
Gets(r, target, H, S) ==
  /\ IsNamed(r) /\ r.id = target.id /\ r.shape = target.shape
  /\ \A i \in DOMAIN target.shape : MarkedAt(target, i, S) \/ target.shape[i] \in H => MarkedAt(r, i, S)

Hits(from, source) == UNION {from[f] : f \in ToSet(source.shape)}

LEMMA TraitsFromMark ==
  ASSUME NEW S, NEW target, IsNamed(target), NEW source, Operand(source, S), NEW from, Narrows(from, source),
         NEW j \in DOMAIN target.shape
  PROVE  /\ IsTraits(TraitsFrom(target, source, from, j))
         /\ MarkedAt(target, j, S) \/ target.shape[j] \in Hits(from, source)
              => Marked(TraitsFrom(target, source, from, j), target.shape[j].walls, S)
<1> DEFINE origins == {i \in DOMAIN source.shape : j \in DOMAIN target.shape /\ target.shape[j] \in from[source.shape[i]]}
           last == CHOOSE i \in origins : \A k \in origins : k <= i
           t == TraitsFrom(target, source, from, j)
           f == target.shape[j]
<1>1. t = IF origins = {} THEN target.traits[j] ELSE SetDerivedFromShape(source, last)
  BY DEF TraitsFrom
<1>2. Len(source.shape) \in Nat /\ origins \in SUBSET (0 .. Len(source.shape))
  BY DEF Operand, IsNamed
<1>3. CASE origins = {}
  <2>1. f \notin Hits(from, source)
    <3> SUFFICES ASSUME NEW g \in ToSet(source.shape), f \in from[g] PROVE FALSE
      BY DEF Hits
    <3>1. PICK i \in DOMAIN source.shape : g = source.shape[i]
      BY DEF ToSet
    <3>2. i \in origins
      BY <3>1
    <3> QED
      BY <1>3, <3>2
  <2>2. t = target.traits[j]
    BY <1>1, <1>3
  <2>3. IsTraits(target.traits[j])
    BY DEF IsNamed
  <2> QED
    BY <2>1, <2>2, <2>3, Zenon DEF MarkedAt
<1>4. CASE origins # {}
  <2>1. last \in origins
    <3> HIDE DEF origins
    <3> QED
      BY <1>2, <1>4, GreatestNumber
  <2>2. PICK i \in DOMAIN source.shape : i = last /\ f \in from[source.shape[i]]
    BY <2>1
  <2>3. source.shape[i] \in ToSet(source.shape)
    BY DEF ToSet
  <2>4. f.walls \subseteq source.shape[i].walls
    BY <2>2, <2>3, Zenon DEF Narrows
  <2>5. t = SetDerivedFromShape(source, i)
    BY <1>1, <1>4, <2>2
  <2>6. IsTraits(t) /\ Marked(t, f.walls, S)
    <3> HIDE DEF t, f
    <3> QED
      BY <2>4, <2>5, DerivedIsMarked, Zenon
  <2> QED
    BY <2>6, Zenon
<1> QED
  BY <1>3, <1>4

LEMMA SetTraitsGets ==
  ASSUME NEW S, NEW target, IsNamed(target), NEW source, Operand(source, S), NEW from, Narrows(from, source)
  PROVE  Gets(SetTraits(target, source, from), target, Hits(from, source), S)
<1> DEFINE New(j) == TraitsFrom(target, source, from, j)
           r == SetTraits(target, source, from)
<1>1. PICK id, fs, name, ts : target = [id |-> id, shape |-> fs, name |-> name, traits |-> ts]
  BY DEF IsNamed
<1>2. DOMAIN ts = DOMAIN fs
  BY <1>1 DEF IsNamed
<1>3. r = [id |-> id, shape |-> fs, name |-> name, traits |-> [j \in DOMAIN fs |-> New(j)]]
  BY <1>1, <1>2 DEF SetTraits
<1>5. ASSUME NEW j \in DOMAIN fs
      PROVE  IsTraits(New(j)) /\ (MarkedAt(target, j, S) \/ fs[j] \in Hits(from, source) => Marked(New(j), fs[j].walls, S))
  <2>1. fs = target.shape
    BY <1>1
  <2> QED
    BY <2>1, TraitsFromMark
<1> HIDE DEF New
<1>6. PICK us : us = [j \in DOMAIN fs |-> New(j)]
  OBVIOUS
<1>7. r = [id |-> id, shape |-> fs, name |-> name, traits |-> us]
  BY <1>3, <1>6
<1>8. \A j \in DOMAIN fs : us[j] = New(j)
  BY <1>6
<1>9. us = [j \in DOMAIN fs |-> us[j]]
  BY <1>6
<1>10. fs \in Seq(ToSet(fs)) /\ \A f \in ToSet(fs) : IsFace(f)
  BY <1>1 DEF IsNamed
<1> HIDE DEF r
<1>11. IsNamed(r)
  BY <1>5, <1>7, <1>8, <1>9, <1>10, Zenon DEF IsNamed
<1>12. \A j \in DOMAIN fs : MarkedAt(target, j, S) \/ fs[j] \in Hits(from, source) => MarkedAt(r, j, S)
  <2> SUFFICES ASSUME NEW j \in DOMAIN fs, MarkedAt(target, j, S) \/ fs[j] \in Hits(from, source)
               PROVE  MarkedAt(r, j, S)
    OBVIOUS
  <2>1. target.traits = ts /\ target.shape = fs /\ r.traits = us /\ r.shape = fs
    BY <1>1, <1>7
  <2>3. Marked(us[j], fs[j].walls, S)
    BY <1>5, <1>8, Zenon
  <2> QED
    BY <2>1, <2>3, Zenon DEF MarkedAt
<1>13. r.id = target.id /\ r.shape = target.shape /\ target.shape = fs
  BY <1>1, <1>7
<1>14. Gets(r, target, Hits(from, source), S)
  BY <1>11, <1>12, <1>13 DEF Gets
<1> QED
  BY <1>14 DEF r

LEMMA GetsMore ==
  ASSUME NEW S, NEW r, NEW u, NEW t, NEW G, NEW H, Gets(u, t, G, S), Gets(r, u, H, S)
  PROVE  Gets(r, t, G \cup H, S)
<1>1. r.id = t.id /\ r.shape = t.shape /\ IsNamed(r) /\ u.shape = t.shape
  BY DEF Gets
<1>2. ASSUME NEW i \in DOMAIN t.shape, MarkedAt(t, i, S) \/ t.shape[i] \in G \cup H
      PROVE  MarkedAt(r, i, S)
  BY <1>1, <1>2 DEF Gets
<1> QED
  BY <1>1, <1>2 DEF Gets

LEMMA GetsLess ==
  ASSUME NEW S, NEW r, NEW t, NEW G, NEW H, Gets(r, t, G, S), H \subseteq G PROVE Gets(r, t, H, S)
BY DEF Gets

LEMMA CoveredIsSettled ==
  ASSUME NEW S, NEW r, NEW t, NEW H, Gets(r, t, H, S), ToSet(t.shape) \subseteq H
  PROVE  Settled(r, S) /\ r.id = t.id
<1>1. r.shape = t.shape /\ IsNamed(r) /\ r.id = t.id
  BY DEF Gets
<1>2. \A i \in DOMAIN t.shape : t.shape[i] \in H
  BY DEF ToSet
<1> QED
  BY <1>1, <1>2 DEF Gets, Settled

LEMMA AppendNamesGets ==
  ASSUME NEW S, NEW source, Operand(source, S), NEW target, IsNamed(target)
  PROVE  Gets(AppendNamesToShape(source, target), target, ToSet(source.shape), S)
<1> DEFINE from == [f \in ToSet(source.shape) |-> {f}]
<1>1. Narrows(from, source)
  BY DEF Narrows
<1>2. Hits(from, source) = ToSet(source.shape)
  BY DEF Hits
<1>3. AppendNamesToShape(source, target) = SetTraits(target, source, from)
  BY DEF AppendNamesToShape
<1> HIDE DEF from
<1>4. Gets(SetTraits(target, source, from), target, Hits(from, source), S)
  BY <1>1, SetTraitsGets
<1> QED
  BY <1>2, <1>3, <1>4

LEMMA MapNamesGets ==
  ASSUME NEW S, NEW source, Operand(source, S), NEW result, IsNamed(result), NEW modified, Narrows(modified, source)
  PROVE  Gets(MapFaceNamesAfterBOP(modified, source, result), result,
              Hits(modified, source) \cup ToSet(source.shape), S)
<1>1. PICK u : u = SetTraits(result, source, modified)
  OBVIOUS
<1>2. Gets(u, result, Hits(modified, source), S)
  BY <1>1, SetTraitsGets
<1>3. IsNamed(u)
  BY <1>2 DEF Gets
<1>4. Gets(AppendNamesToShape(source, u), u, ToSet(source.shape), S)
  BY <1>3, AppendNamesGets
<1>5. MapFaceNamesAfterBOP(modified, source, result) = AppendNamesToShape(source, u)
  BY <1>1 DEF MapFaceNamesAfterBOP
<1> QED
  BY <1>2, <1>4, <1>5, GetsMore

-----------------------------------------------------------------------------
(***************************************************************************)
(* Sewing.                                                                 *)
(***************************************************************************)
IsFaces(fs) == fs \in Seq(ToSet(fs)) /\ \A f \in ToSet(fs) : IsFace(f)

SewnFaces(sewn, fs) == {sewn[f] : f \in ToSet(fs)}

\* Sewing keeps the walls of each face.
KeepsWalls(sewn, fs) == \A f \in ToSet(fs) : IsFace(sewn[f]) /\ sewn[f].walls = f.walls

LEMMA FacesOfSequence ==
  ASSUME NEW E, NEW fs \in Seq(E), \A f \in ToSet(fs) : IsFace(f) PROVE IsFaces(fs)
BY SequenceOfItsOwn DEF IsFaces

LEMMA NewShapeIsNamed ==
  ASSUME NEW id, NEW fs, IsFaces(fs), NEW name
  PROVE  IsNamed(NewShape(id, fs, name)) /\ NewShape(id, fs, name).shape = fs /\ NewShape(id, fs, name).id = id
<1> DEFINE ts == [i \in DOMAIN fs |-> NewTraits(name)]
           r == [id |-> id, shape |-> fs, name |-> name, traits |-> ts]
<1>1. NewShape(id, fs, name) = r
  BY DEF NewShape
<1>2. \A i \in DOMAIN fs : IsTraits(ts[i])
  BY DEF NewTraits, IsTraits
<1>3. ts = [i \in DOMAIN fs |-> ts[i]]
  OBVIOUS
<1> HIDE DEF ts
<1>4. IsNamed(r)
  BY <1>2, <1>3 DEF IsNamed, IsFaces
<1> QED
  BY <1>1, <1>4

LEMMA SewingKeepsWalls ==
  ASSUME NEW fs, IsFaces(fs) PROVE KeepsWalls(ModifiedBySewing(fs), fs)
<1>1. ASSUME NEW f \in ToSet(fs)
      PROVE  ModifiedBySewing(fs)[f] = SewnFace(fs, f) /\ IsFace(SewnFace(fs, f)) /\ SewnFace(fs, f).walls = f.walls
  BY SewnFaceIsAFace DEF IsFaces, ModifiedBySewing
<1> QED
  BY <1>1 DEF KeepsWalls

\* What sewing returns: the sewn faces, as many as there were.
LEMMA SewnAreFaces ==
  ASSUME NEW fs, IsFaces(fs)
  PROVE  IsFaces(Sewn(fs)) /\ DOMAIN Sewn(fs) = DOMAIN fs /\ ToSet(Sewn(fs)) = SewnFaces(ModifiedBySewing(fs), fs)
<1> DEFINE gs == [i \in DOMAIN fs |-> SewnFace(fs, fs[i])]
           hs == Sewn(fs)
           E == SewnFaces(ModifiedBySewing(fs), fs)
<1>1. Len(fs) \in Nat /\ DOMAIN fs = 1 .. Len(fs)
  BY DEF IsFaces
<1>2. PICK n \in Nat : n = Len(fs) /\ DOMAIN fs = 1 .. n
  BY <1>1
<1>3. gs = [i \in 1 .. n |-> SewnFace(fs, fs[i])] /\ Len(gs) = n
  BY <1>2
<1>4. hs = [i \in 1 .. n |-> gs[(n - i) + 1]]
  <2> HIDE DEF gs
  <2> QED
    BY <1>3 DEF Sewn, Reverse, gs
<1>5. ASSUME NEW i \in 1 .. n PROVE gs[i] \in E /\ gs[i] = SewnFace(fs, fs[i])
  <2>1. fs[i] \in ToSet(fs) /\ gs[i] = SewnFace(fs, fs[i])
    BY <1>2, <1>3 DEF ToSet
  <2>2. ModifiedBySewing(fs)[fs[i]] = SewnFace(fs, fs[i])
    BY <2>1 DEF ModifiedBySewing
  <2> QED
    BY <2>1, <2>2 DEF SewnFaces
<1>6. ASSUME NEW i \in 1 .. n PROVE hs[i] \in E
  <2>1. (n - i) + 1 \in 1 .. n /\ hs[i] = gs[(n - i) + 1]
    BY <1>4
  <2> HIDE DEF hs, gs, E
  <2> QED
    BY <1>5, <2>1
<1>7. DOMAIN hs = 1 .. n /\ hs = [i \in 1 .. n |-> hs[i]]
  BY <1>4
<1>8. ASSUME NEW e \in E PROVE e \in ToSet(hs)
  <2>1. PICK f \in ToSet(fs) : e = SewnFace(fs, f)
    BY DEF SewnFaces, ModifiedBySewing
  <2>2. PICK i \in 1 .. n : f = fs[i]
    BY <1>2 DEF ToSet
  <2>3. e = gs[i]
    BY <1>5, <2>1, <2>2
  <2>4. (n - i) + 1 \in 1 .. n /\ (n - ((n - i) + 1)) + 1 = i
    BY <1>2
  <2>5. hs[(n - i) + 1] = e
    <3> HIDE DEF gs
    <3> QED
      BY <1>4, <2>3, <2>4
  <2> HIDE DEF hs
  <2> QED
    BY <1>7, <2>4, <2>5 DEF ToSet
<1>9. ASSUME NEW e \in E PROVE IsFace(e)
  BY SewingKeepsWalls DEF KeepsWalls, SewnFaces
<1> HIDE DEF hs, E
<1>10. ToSet(hs) = E
  BY <1>6, <1>7, <1>8 DEF ToSet
<1>11. hs \in Seq(E)
  BY <1>6, <1>7
<1>12. IsFaces(hs)
  BY <1>9, <1>10, <1>11 DEF IsFaces
<1> QED
  BY <1>2, <1>7, <1>10, <1>12 DEF hs, E

\* A part with its faces sewn is a part still.
LEMMA SewnPart ==
  ASSUME NEW S, NEW part, Operand(part, S), NEW sewn, KeepsWalls(sewn, part.shape)
  PROVE  LET tmp == SetShape([part EXCEPT !.id = <<"copy", @[2]>>], [i \in DOMAIN part.shape |-> sewn[part.shape[i]]])
         IN  Operand(tmp, S) /\ ToSet(tmp.shape) = SewnFaces(sewn, part.shape)
<1>1. PICK id, fs, name, ts : part = [id |-> id, shape |-> fs, name |-> name, traits |-> ts]
  BY DEF Operand, IsNamed
<1>2. PICK gs : gs = [i \in DOMAIN part.shape |-> sewn[part.shape[i]]]
  OBVIOUS
<1>3. PICK new : new = <<"copy", id[2]>>
  OBVIOUS
<1> DEFINE tmp == SetShape([part EXCEPT !.id = <<"copy", @[2]>>], gs)
<1>4. tmp = [id |-> new, shape |-> gs, name |-> name, traits |-> ts]
  <2>1. part.id = id
    BY <1>1
  <2>2. [part EXCEPT !.id = <<"copy", @[2]>>] = [part EXCEPT !.id = new]
    BY <1>3, <2>1, Zenon
  <2>3. [part EXCEPT !.id = new] = [id |-> new, shape |-> fs, name |-> name, traits |-> ts]
    BY <1>1
  <2>4. SetShape([id |-> new, shape |-> fs, name |-> name, traits |-> ts], gs)
          = [id |-> new, shape |-> gs, name |-> name, traits |-> ts]
    BY DEF SetShape
  <2> QED
    BY <2>2, <2>3, <2>4, Zenon
<1>5. IsNamed(part) /\ fs \in Seq(ToSet(fs)) /\ ts = [i \in DOMAIN fs |-> ts[i]] /\ \A i \in DOMAIN fs : IsTraits(ts[i])
  BY <1>1 DEF Operand, IsNamed
<1>6. gs = [i \in DOMAIN fs |-> sewn[fs[i]]]
  BY <1>1, <1>2
<1>7. ToSet(gs) = SewnFaces(sewn, fs)
  <2>1. \A i \in DOMAIN fs : gs[i] = sewn[fs[i]]
    BY <1>6
  <2>2. DOMAIN gs = DOMAIN fs
    BY <1>6
  <2> QED
    BY <2>1, <2>2 DEF ToSet, SewnFaces
<1>8. ASSUME NEW i \in DOMAIN fs PROVE IsFace(gs[i]) /\ gs[i].walls = fs[i].walls /\ gs[i] \in ToSet(gs)
  <2>1. fs[i] \in ToSet(fs) /\ gs[i] = sewn[fs[i]] /\ DOMAIN gs = DOMAIN fs
    BY <1>6 DEF ToSet
  <2> QED
    BY <1>1, <2>1 DEF KeepsWalls, ToSet
<1>9. DOMAIN gs = DOMAIN fs /\ gs \in Seq(ToSet(gs))
  <2>1. DOMAIN fs = 1 .. Len(fs) /\ Len(fs) \in Nat
    BY <1>5
  <2>2. DOMAIN gs = DOMAIN fs /\ gs = [i \in DOMAIN fs |-> gs[i]]
    BY <1>6
  <2> QED
    BY <1>8, <2>1, <2>2
<1>10. \A f \in ToSet(gs) : IsFace(f)
  BY <1>8, <1>9 DEF ToSet
<1> HIDE DEF tmp
<1>11. IsNamed(tmp)
  BY <1>4, <1>5, <1>9, <1>10, Zenon DEF IsNamed
<1>12. ASSUME NEW i \in DOMAIN gs PROVE MarkedAt(tmp, i, S) \/ OwnAt(tmp, i, S)
  <2>1. i \in DOMAIN fs /\ gs[i].walls = fs[i].walls
    BY <1>8, <1>9
  <2>2. CASE MarkedAt(part, i, S)
    BY <1>1, <1>4, <2>1, <2>2 DEF MarkedAt
  <2>3. CASE OwnAt(part, i, S)
    <3>1. PICK n \in DOMAIN S : ts[i].name = Name(n) /\ ts[i].origin = NoOrigin /\ id \in Ids(n) /\ PartOf(fs[i].walls, n, S)
      BY <1>1, <2>3 DEF OwnAt, Own
    <3>2. new \in Ids(n)
      BY <1>3, <3>1 DEF Ids
    <3>3. Own(ts[i], new, fs[i].walls, S)
      BY <3>1, <3>2 DEF Own
    <3> QED
      BY <1>4, <2>1, <3>3 DEF OwnAt
  <2>4. MarkedAt(part, i, S) \/ OwnAt(part, i, S)
    BY <1>1, <2>1 DEF Operand
  <2> QED
    BY <2>2, <2>3, <2>4
<1>13. tmp.shape = gs
  BY <1>4
<1>14. Operand(tmp, S) /\ ToSet(tmp.shape) = SewnFaces(sewn, part.shape)
  BY <1>1, <1>7, <1>11, <1>12, <1>13 DEF Operand
<1> QED
  BY <1>2, <1>14 DEF tmp

LEMMA MapPartGets ==
  ASSUME NEW S, NEW part, Operand(part, S), NEW sewn, KeepsWalls(sewn, part.shape), NEW result, IsNamed(result)
  PROVE  Gets(MapPart(sewn, part, result), result, SewnFaces(sewn, part.shape), S)
<1>1. PICK tmp : /\ tmp = SetShape([part EXCEPT !.id = <<"copy", @[2]>>],
                                   [i \in DOMAIN part.shape |-> sewn[part.shape[i]]])
                 /\ Operand(tmp, S) /\ ToSet(tmp.shape) = SewnFaces(sewn, part.shape)
  BY SewnPart, Zenon
<1>2. MapPart(sewn, part, result) = MapFaceNamesAfterBOP(Unmodified(tmp), tmp, result)
  BY <1>1 DEF MapPart
<1>3. Narrows(Unmodified(tmp), tmp)
  BY DEF Narrows, Unmodified
<1>4. Gets(MapPart(sewn, part, result), result, Hits(Unmodified(tmp), tmp) \cup ToSet(tmp.shape), S)
  BY <1>1, <1>2, <1>3, MapNamesGets, Zenon
<1> QED
  BY <1>1, <1>4, GetsLess

\* A sewn shape is settled: sewing finds every one of its faces again.
LEMMA ShellifyIsSettled ==
  ASSUME NEW S, NEW s, Operand(s, S) PROVE Settled(Shellify(s), S) /\ Shellify(s).id = s.id
<1>1. PICK id, fs, name, ts : s = [id |-> id, shape |-> fs, name |-> name, traits |-> ts]
  BY DEF Operand, IsNamed
<1>2. IsFaces(fs) /\ ts = [i \in DOMAIN fs |-> ts[i]] /\ \A i \in DOMAIN fs : IsTraits(ts[i])
  BY <1>1 DEF Operand, IsNamed, IsFaces
<1>3. PICK gs, sewn : gs = Sewn(fs) /\ sewn = ModifiedBySewing(fs)
  OBVIOUS
<1>4. IsFaces(gs) /\ DOMAIN gs = DOMAIN fs /\ ToSet(gs) = SewnFaces(sewn, fs)
  BY <1>2, <1>3, SewnAreFaces
<1>5. KeepsWalls(sewn, s.shape)
  BY <1>1, <1>2, <1>3, SewingKeepsWalls
<1>6. PICK r : r = SetShape(s, gs)
  OBVIOUS
<1>7. r = [id |-> id, shape |-> gs, name |-> name, traits |-> ts]
  BY <1>1, <1>6 DEF SetShape
<1>8. IsNamed(r) /\ ToSet(r.shape) = SewnFaces(sewn, s.shape)
  <2>1. IsNamed(r)
    BY <1>2, <1>4, <1>7, Zenon DEF IsNamed, IsFaces
  <2> QED
    BY <1>1, <1>4, <1>7, <2>1
<1>9. Gets(MapPart(sewn, s, r), r, SewnFaces(sewn, s.shape), S)
  BY <1>5, <1>8, MapPartGets, Zenon
<1>10. Settled(MapPart(sewn, s, r), S) /\ MapPart(sewn, s, r).id = r.id
  BY <1>8, <1>9, CoveredIsSettled
<1>12. r.id = s.id
  BY <1>1, <1>7
<1>11. Shellify(s) = MapPart(sewn, s, r)
  BY <1>1, <1>3, <1>6 DEF Shellify
<1> QED
  BY <1>10, <1>11, <1>12

-----------------------------------------------------------------------------
(***************************************************************************)
(* Trimming.                                                               *)
(***************************************************************************)
LEMMA StaysSettled ==
  ASSUME NEW S, NEW u, Settled(u, S), NEW r, NEW H, Gets(r, u, H, S) PROVE Settled(r, S) /\ r.id = u.id
BY DEF Settled, Gets

\* What a face can become: itself and its pieces.
Becomes(fs, W) == ToSet(fs) \cup UNION {Images(f, W) : f \in ToSet(fs)}

LEMMA BecomesFaces ==
  ASSUME NEW fs, IsFaces(fs), NEW W, NEW g \in Becomes(fs, W) PROVE IsFace(g)
<1>1. CASE g \in ToSet(fs)
  BY <1>1 DEF IsFaces
<1>2. ASSUME NEW f \in ToSet(fs), g \in Images(f, W) PROVE IsFace(g)
  BY <1>2, ImagesAreFaces DEF IsFaces
<1> QED
  BY <1>1, <1>2 DEF Becomes

LEMMA KeptFaces ==
  ASSUME NEW fs, IsFaces(fs), NEW split, NEW W, NEW op
  PROVE  IsFaces(FacesNotInShape(fs, split, W, op)) /\ ToSet(FacesNotInShape(fs, split, W, op)) \subseteq Becomes(fs, split)
<1> DEFINE kept(f) == Keep(op, Place(W, Middle(f.walls)))
           pieces(f) == Listed({g \in Images(f, split) : kept(g)})
           isSplit(f) == Images(f, split) # {f}
           ss == [i \in DOMAIN fs |-> IF isSplit(fs[i]) THEN pieces(fs[i]) ELSE <<>>]
           others == Those(fs, {f \in ToSet(fs) : ~ isSplit(f) /\ kept(f)})
           E == Becomes(fs, split)
<1>1. ASSUME NEW i \in DOMAIN fs PROVE ss[i] \in Seq(E)
  <2>1. PICK f \in ToSet(fs) : f = fs[i] /\ IsFace(f)
    BY DEF IsFaces, ToSet
  <2>2. PICK T : T = {g \in Images(f, split) : kept(g)}
    OBVIOUS
  <2>3. T \in SUBSET Images(f, split)
    BY <2>2
  <2>4. IsFiniteSet(T)
    BY <2>1, <2>3, ImagesAreFinite, FS_Subset
  <2>5. Listed(T) \in Seq(T)
    BY <2>4, ListedOfMembers
  <2>6. T \subseteq E
    BY <2>1, <2>3 DEF Becomes
  <2>7. Listed(T) \in Seq(E)
    <3> HIDE DEF E
    <3> QED
      BY <2>5, <2>6
  <2>8. ss[i] = IF isSplit(f) THEN Listed(T) ELSE <<>>
    BY <2>1, <2>2
  <2>9. <<>> \in Seq(E)
    OBVIOUS
  <2> HIDE DEF ss, E, isSplit
  <2> QED
    BY <2>7, <2>8, <2>9
<1>2. DOMAIN fs = 1 .. Len(fs) /\ Len(fs) \in Nat /\ ss = [i \in DOMAIN fs |-> ss[i]]
  BY DEF IsFaces
<1>3. FlattenSeq(ss) \in Seq(E)
  <2> HIDE DEF ss, E
  <2>1. ss \in Seq(Seq(E))
    BY <1>1, <1>2
  <2> QED
    BY <2>1, FlattenIsSequence
<1>4. others \in Seq(E)
  <2>1. PICK T : T = {f \in ToSet(fs) : ~ isSplit(f) /\ kept(f)}
    OBVIOUS
  <2>2. Those(fs, T) \in Seq(T \cap ToSet(fs))
    BY ThoseAreMembers DEF IsFaces
  <2>3. T \cap ToSet(fs) \subseteq E
    BY DEF Becomes
  <2>4. Those(fs, T) \in Seq(E)
    <3> HIDE DEF E
    <3> QED
      BY <2>2, <2>3
  <2> QED
    BY <2>1, <2>4, Zenon
<1>5. FacesNotInShape(fs, split, W, op) = FlattenSeq(ss) \o others
  BY DEF FacesNotInShape
<1> HIDE DEF ss, others
<1>6. \A g \in E : IsFace(g)
  BY BecomesFaces
<1> HIDE DEF E
<1>7. PICK r : r = FlattenSeq(ss) \o others
  OBVIOUS
<1>8. r \in Seq(E)
  BY <1>3, <1>4, <1>7
<1>9. ToSet(r) \subseteq E
  BY <1>8 DEF ToSet
<1>10. IsFaces(r)
  BY <1>6, <1>8, <1>9, FacesOfSequence
<1> QED
  BY <1>5, <1>7, <1>9, <1>10 DEF E

LEMMA SplitsNarrow ==
  ASSUME NEW S, NEW s, Operand(s, S), NEW W
  PROVE  Narrows(Splits(s, W), s) /\ Becomes(s.shape, W) \subseteq Hits(Splits(s, W), s) \cup ToSet(s.shape)
<1>1. ASSUME NEW f \in ToSet(s.shape) PROVE Splits(s, W)[f] = Images(f, W) \ {f} /\ IsFace(f)
  BY DEF Splits, Operand, IsNamed
<1>2. Narrows(Splits(s, W), s)
  BY <1>1, ImagesAreFaces DEF Narrows
<1>3. ASSUME NEW f \in ToSet(s.shape), NEW g \in Images(f, W) PROVE g \in Hits(Splits(s, W), s) \cup ToSet(s.shape)
  BY <1>1 DEF Hits
<1> QED
  BY <1>2, <1>3 DEF Becomes

LEMMA SplitTrimIsSettled ==
  ASSUME NEW S, NEW source, Operand(source, S), NEW tool, Operand(tool, S), NEW split, NEW op, NEW id
  PROVE  Settled(SplitTrim(source, tool, split, op, id), S) /\ SplitTrim(source, tool, split, op, id).id = id
<1>1. PICK fs : fs = FacesNotInShape(source.shape, split, Surface(tool.shape), op)
  OBVIOUS
<1>2. IsFaces(fs) /\ ToSet(fs) \subseteq Becomes(source.shape, split)
  <2>1. IsFaces(source.shape)
    BY DEF Operand, IsNamed, IsFaces
  <2> QED
    BY <1>1, <2>1, KeptFaces
<1>3. PICK made : made = NewShape(id, fs, source.name)
  OBVIOUS
<1>4. IsNamed(made) /\ made.shape = fs /\ made.id = id
  BY <1>2, <1>3, NewShapeIsNamed
<1>5. PICK u : u = MapFaceNamesAfterBOP(Splits(source, split), source, made)
  OBVIOUS
<1>6. Settled(u, S) /\ u.id = id
  <2>1. Narrows(Splits(source, split), source)
    BY SplitsNarrow
  <2>2. Gets(u, made, Hits(Splits(source, split), source) \cup ToSet(source.shape), S)
    BY <1>4, <1>5, <2>1, MapNamesGets, Zenon
  <2>3. ToSet(made.shape) \subseteq Hits(Splits(source, split), source) \cup ToSet(source.shape)
    BY <1>2, <1>4, SplitsNarrow
  <2>4. Settled(u, S) /\ u.id = made.id
    BY <2>2, <2>3, CoveredIsSettled, Zenon
  <2> QED
    BY <1>4, <2>4
<1>7. PICK W : W = Surface(source.shape)
  OBVIOUS
<1>8. PICK r : r = MapFaceNamesAfterBOP(Splits(tool, W), tool, u)
  OBVIOUS
<1>9. Settled(r, S) /\ r.id = id
  <2>1. Narrows(Splits(tool, W), tool)
    BY SplitsNarrow
  <2>2. IsNamed(u)
    BY <1>6 DEF Settled
  <2>3. Gets(r, u, Hits(Splits(tool, W), tool) \cup ToSet(tool.shape), S)
    BY <1>8, <2>1, <2>2, MapNamesGets, Zenon
  <2>4. Settled(r, S) /\ r.id = u.id
    BY <1>6, <2>3, StaysSettled, Zenon
  <2> QED
    BY <1>6, <2>4
<1>10. Settled(Shellify(r), S) /\ Shellify(r).id = r.id
  BY <1>9, SettledIsOperand, ShellifyIsSettled
<1>11. SplitTrim(source, tool, split, op, id) = Shellify(r)
  BY <1>1, <1>3, <1>5, <1>7, <1>8 DEF SplitTrim
<1> QED
  BY <1>9, <1>10, <1>11

-----------------------------------------------------------------------------
(***************************************************************************)
(* Merging.                                                                *)
(***************************************************************************)
LEMMA RestOfFaces ==
  ASSUME NEW fs, IsFaces(fs), NEW gs PROVE WithoutCommon(fs, gs) \in Seq(ToSet(fs))
<1> DEFINE T == {f \in ToSet(fs) : \A g \in ToSet(gs) : ~ SameFace(f, g)}
<1>1. Those(fs, T) \in Seq(T \cap ToSet(fs))
  BY ThoseAreMembers DEF IsFaces
<1>2. T \cap ToSet(fs) \subseteq ToSet(fs)
  OBVIOUS
<1>3. WithoutCommon(fs, gs) = Those(fs, T)
  BY DEF WithoutCommon
<1> HIDE DEF T
<1> QED
  BY <1>1, <1>2, <1>3

\* A shape whose faces come from two operands is settled.
LEMMA TwoSourcesSettle ==
  ASSUME NEW S, NEW s1, Operand(s1, S), NEW s2, Operand(s2, S), NEW m1, Narrows(m1, s1), NEW m2, Narrows(m2, s2),
         NEW made, IsNamed(made),
         ToSet(made.shape) \subseteq (Hits(m1, s1) \cup ToSet(s1.shape)) \cup (Hits(m2, s2) \cup ToSet(s2.shape))
  PROVE  /\ Settled(MapFaceNamesAfterBOP(m2, s2, MapFaceNamesAfterBOP(m1, s1, made)), S)
         /\ MapFaceNamesAfterBOP(m2, s2, MapFaceNamesAfterBOP(m1, s1, made)).id = made.id
<1>1. PICK G1, G2 : G1 = Hits(m1, s1) \cup ToSet(s1.shape) /\ G2 = Hits(m2, s2) \cup ToSet(s2.shape)
  OBVIOUS
<1>2. PICK u : u = MapFaceNamesAfterBOP(m1, s1, made)
  OBVIOUS
<1>3. PICK r : r = MapFaceNamesAfterBOP(m2, s2, u)
  OBVIOUS
<1>4. Gets(u, made, G1, S)
  BY <1>1, <1>2, MapNamesGets
<1>5. IsNamed(u)
  BY <1>4 DEF Gets
<1>6. Gets(r, u, G2, S)
  BY <1>1, <1>3, <1>5, MapNamesGets
<1>7. Gets(r, made, G1 \cup G2, S)
  BY <1>4, <1>6, GetsMore
<1>8. ToSet(made.shape) \subseteq G1 \cup G2
  BY <1>1
<1>9. Settled(r, S) /\ r.id = made.id
  BY <1>7, <1>8, CoveredIsSettled
<1> QED
  BY <1>2, <1>3, <1>9

LEMMA MergedIsSettled ==
  ASSUME NEW S, NEW s1, Operand(s1, S), NEW s2, Operand(s2, S), NEW id
  PROVE  Settled(Merged(s1, s2, id), S) /\ Merged(s1, s2, id).id = id
<1>1. PICK fs : fs = WithoutCommon(s1.shape, s2.shape) \o WithoutCommon(s2.shape, s1.shape)
  OBVIOUS
<1>2. IsFaces(s1.shape) /\ IsFaces(s2.shape)
  BY DEF Operand, IsNamed, IsFaces
<1>3. IsFaces(fs) /\ ToSet(fs) \subseteq ToSet(s1.shape) \cup ToSet(s2.shape)
  <2> DEFINE E == ToSet(s1.shape) \cup ToSet(s2.shape)
  <2>1. PICK a, b : a = WithoutCommon(s1.shape, s2.shape) /\ b = WithoutCommon(s2.shape, s1.shape)
    OBVIOUS
  <2>2. a \in Seq(ToSet(s1.shape)) /\ b \in Seq(ToSet(s2.shape))
    BY <1>2, <2>1, RestOfFaces
  <2>3. ToSet(s1.shape) \subseteq E /\ ToSet(s2.shape) \subseteq E /\ \A f \in E : IsFace(f)
    BY <1>2 DEF IsFaces
  <2> HIDE DEF E
  <2>4. a \in Seq(E) /\ b \in Seq(E)
    BY <2>2, <2>3
  <2>5. fs \in Seq(E)
    BY <1>1, <2>1, <2>4
  <2>6. ToSet(fs) \subseteq E
    BY <2>5 DEF ToSet
  <2>7. IsFaces(fs)
    BY <2>3, <2>5, <2>6, FacesOfSequence
  <2> QED
    BY <2>6, <2>7 DEF E
<1>4. PICK sewn : sewn = ModifiedBySewing(fs) /\ KeepsWalls(sewn, fs)
  BY <1>3, SewingKeepsWalls
<1>5. PICK made : made = NewShape(id, Sewn(fs), <<"SEW_FUSE">>)
  OBVIOUS
<1>6. IsNamed(made) /\ ToSet(made.shape) = SewnFaces(sewn, fs) /\ made.id = id
  BY <1>3, <1>4, <1>5, SewnAreFaces, NewShapeIsNamed
<1> DEFINE modified(s) == [f \in ToSet(s.shape) |-> IF f \in ToSet(fs) THEN {sewn[f]} ELSE {}]
<1>7. ASSUME NEW s PROVE Narrows(modified(s), s)
  BY <1>4 DEF Narrows, KeepsWalls
<1>8. ASSUME NEW s, NEW f \in ToSet(s.shape), f \in ToSet(fs) PROVE sewn[f] \in Hits(modified(s), s)
  BY <1>8 DEF Hits
<1>9. PICK m1, m2 : m1 = modified(s1) /\ m2 = modified(s2)
  OBVIOUS
<1>10. Narrows(m1, s1) /\ Narrows(m2, s2)
  BY <1>7, <1>9
<1>11. /\ \A f \in ToSet(s1.shape) : f \in ToSet(fs) => sewn[f] \in Hits(m1, s1)
       /\ \A f \in ToSet(s2.shape) : f \in ToSet(fs) => sewn[f] \in Hits(m2, s2)
  BY <1>8, <1>9
<1>12. Merged(s1, s2, id) = MapFaceNamesAfterBOP(m2, s2, MapFaceNamesAfterBOP(m1, s1, made))
  <2>1. MapFaceNamesAfterBOP(m2, s2, MapFaceNamesAfterBOP(m1, s1, made))
          = MapFaceNamesAfterBOP(modified(s2), s2, MapFaceNamesAfterBOP(modified(s1), s1, NewShape(id, Sewn(fs), <<"SEW_FUSE">>)))
    BY <1>5, <1>9, Zenon
  <2> QED
    BY <1>1, <1>4, <2>1 DEF Merged
<1> HIDE DEF modified
<1>13. ToSet(made.shape) \subseteq (Hits(m1, s1) \cup ToSet(s1.shape)) \cup (Hits(m2, s2) \cup ToSet(s2.shape))
  <2> SUFFICES ASSUME NEW g \in ToSet(made.shape) PROVE g \in Hits(m1, s1) \cup Hits(m2, s2)
    OBVIOUS
  <2>1. PICK f \in ToSet(fs) : g = sewn[f]
    BY <1>6 DEF SewnFaces
  <2> QED
    BY <1>3, <1>11, <2>1
<1> QED
  BY <1>6, <1>10, <1>12, <1>13, TwoSourcesSettle

-----------------------------------------------------------------------------
(***************************************************************************)
(* The common part.                                                        *)
(***************************************************************************)
LEMMA BecomesIsFinite ==
  ASSUME NEW fs, IsFaces(fs), NEW W PROVE IsFiniteSet(Becomes(fs, W))
<1>1. IsFiniteSet(ToSet(fs))
  <2>1. DOMAIN fs = 1 .. Len(fs) /\ Len(fs) \in Int
    BY DEF IsFaces
  <2>2. IsFiniteSet(DOMAIN fs)
    BY <2>1, FS_Interval
  <2>3. fs \in Surjection(DOMAIN fs, ToSet(fs))
    BY DEF Surjection, ToSet, IsFaces
  <2> QED
    BY <2>2, <2>3, FS_Surjection
<1>2. IsFiniteSet(UNION {Images(f, W) : f \in ToSet(fs)})
  <2> DEFINE Sets == {Images(f, W) : f \in ToSet(fs)}
             F == [f \in ToSet(fs) |-> Images(f, W)]
  <2>1. F \in Surjection(ToSet(fs), Sets)
    <3>1. F \in [ToSet(fs) -> Sets]
      OBVIOUS
    <3>2. \A T \in Sets : \E f \in ToSet(fs) : F[f] = T
      OBVIOUS
    <3> HIDE DEF F, Sets
    <3> QED
      BY <3>1, <3>2 DEF Surjection
  <2>2. IsFiniteSet(Sets)
    <3> HIDE DEF F, Sets
    <3> QED
      BY <1>1, <2>1, FS_Surjection
  <2>3. \A T \in Sets : IsFiniteSet(T)
    BY ImagesAreFinite DEF IsFaces
  <2> HIDE DEF Sets
  <2>4. IsFiniteSet(UNION Sets)
    BY <2>2, <2>3, FS_UNION
  <2> QED
    BY <2>4 DEF Sets
<1> QED
  BY <1>1, <1>2, FS_Union DEF Becomes

LEMMA CommonFacesAreParts ==
  ASSUME NEW s, IsFaces(s.shape), NEW t, IsFaces(t.shape)
  PROVE  /\ IsFaces(CommonFaces(s, t))
         /\ \A g \in ToSet(CommonFaces(s, t)) : \E f \in ToSet(s.shape) \cup ToSet(t.shape) : g.walls \subseteq f.walls
<1> DEFINE V == Surface(s.shape)
           W == Surface(t.shape)
           inside(fs, X) == UNION {{g \in Images(f, X) : Place(X, Middle(g.walls)) = "IN"} : f \in ToSet(fs)}
           shared == UNION {{g \in Images(f, W) :
                          g.walls \subseteq W /\ g.walls \subseteq Boundary(Enclosed(V) \cap Enclosed(W))} :
                         f \in ToSet(s.shape)}
           all == inside(s.shape, W) \cup inside(t.shape, V) \cup shared
           E == Becomes(s.shape, W) \cup Becomes(t.shape, V)
<1>1. CommonFaces(s, t) = Listed(all)
  BY DEF CommonFaces
<1>2. all \subseteq E
  BY DEF Becomes
<1>3. IsFiniteSet(E)
  <2>1. IsFiniteSet(Becomes(s.shape, W)) /\ IsFiniteSet(Becomes(t.shape, V))
    BY BecomesIsFinite
  <2> QED
    BY <2>1, FS_Union
<1>4. \A g \in E : IsFace(g)
  BY BecomesFaces
<1>5. ASSUME NEW g \in E PROVE \E f \in ToSet(s.shape) \cup ToSet(t.shape) : g.walls \subseteq f.walls
  <2>1. CASE g \in ToSet(s.shape) \cup ToSet(t.shape)
    BY <2>1
  <2>2. ASSUME NEW X, NEW f \in ToSet(s.shape) \cup ToSet(t.shape), g \in Images(f, X) PROVE g.walls \subseteq f.walls
    <3>1. IsFace(f)
      BY DEF IsFaces
    <3> QED
      BY <2>2, <3>1, ImagesAreFaces
  <2>3. (\E f \in ToSet(s.shape) : g \in Images(f, W)) \/ (\E f \in ToSet(t.shape) : g \in Images(f, V)) 
          \/ g \in ToSet(s.shape) \cup ToSet(t.shape)
    BY DEF Becomes
  <2> QED
    BY <2>1, <2>2, <2>3
<1> HIDE DEF E, all
<1>6. IsFiniteSet(all)
  BY <1>2, <1>3, FS_Subset
<1>7. PICK fs : fs = Listed(all)
  OBVIOUS
<1>8. fs \in Seq(all)
  BY <1>6, <1>7, ListedOfMembers
<1>9. ToSet(fs) \subseteq E
  BY <1>2, <1>8 DEF ToSet
<1>10. IsFaces(fs)
  BY <1>4, <1>8, <1>9, FacesOfSequence
<1> QED
  BY <1>1, <1>5, <1>7, <1>9, <1>10

LEMMA CommonIsSettled ==
  ASSUME NEW S, NEW s, Operand(s, S), NEW t, Operand(t, S), NEW id
  PROVE  Settled(Common(s, t, id), S) /\ Common(s, t, id).id = id
<1>1. PICK fs : fs = CommonFaces(s, t)
  OBVIOUS
<1>2. IsFaces(fs) /\ \A g \in ToSet(fs) : \E f \in ToSet(s.shape) \cup ToSet(t.shape) : g.walls \subseteq f.walls
  <2>1. IsFaces(s.shape) /\ IsFaces(t.shape)
    BY DEF Operand, IsNamed, IsFaces
  <2> QED
    BY <1>1, <2>1, CommonFacesAreParts
<1>3. PICK first, made : first = NewShape(id, fs, s.name) /\ made = [first EXCEPT !.name = <<"blubb">>]
  OBVIOUS
<1>4. IsNamed(first) /\ first.shape = fs /\ first.id = id
  BY <1>2, <1>3, NewShapeIsNamed
<1>5. IsNamed(made) /\ made.shape = fs /\ made.id = id
  <2>1. PICK i, h, n, ts : first = [id |-> i, shape |-> h, name |-> n, traits |-> ts]
    BY <1>4 DEF IsNamed
  <2>2. made = [id |-> i, shape |-> h, name |-> <<"blubb">>, traits |-> ts]
    BY <1>3, <2>1
  <2>3. h = fs /\ h \in Seq(ToSet(h)) /\ (\A f \in ToSet(h) : IsFace(f)) /\ ts = [k \in DOMAIN h |-> ts[k]]
        /\ \A k \in DOMAIN h : IsTraits(ts[k])
    BY <1>4, <2>1 DEF IsNamed
  <2>4. IsNamed(made)
    BY <2>2, <2>3, Zenon DEF IsNamed
  <2>5. made.id = i /\ i = id
    BY <1>4, <2>1, <2>2
  <2> QED
    BY <2>2, <2>3, <2>4, <2>5
<1> DEFINE modified(x) == [f \in ToSet(x.shape) |-> {g \in ToSet(fs) : g.walls \subseteq f.walls} \ {f}]
<1>6. ASSUME NEW x PROVE Narrows(modified(x), x)
  BY DEF Narrows
<1>7. ASSUME NEW x, NEW f \in ToSet(x.shape), NEW g \in ToSet(fs), g.walls \subseteq f.walls
      PROVE  g \in Hits(modified(x), x) \cup ToSet(x.shape)
  BY <1>7 DEF Hits
<1>8. PICK ms, mt : ms = modified(s) /\ mt = modified(t)
  OBVIOUS
<1>9. Common(s, t, id) = MapFaceNamesAfterBOP(mt, t, MapFaceNamesAfterBOP(ms, s, made))
  <2> DEFINE new == NewShape(id, CommonFaces(s, t), s.name)
             mod(x) == [f \in ToSet(x.shape) |-> {g \in ToSet(new.shape) : g.walls \subseteq f.walls} \ {f}]
  <2>1. ms = mod(s) /\ mt = mod(t)
    BY <1>1, <1>3, <1>4, <1>8
  <2>2. Common(s, t, id) = MapFaceNamesAfterBOP(mod(t), t, MapFaceNamesAfterBOP(mod(s), s, [new EXCEPT !.name = <<"blubb">>]))
    BY DEF Common
  <2>3. new = first
    BY <1>1, <1>3
  <2> HIDE DEF mod, new
  <2> QED
    BY <1>3, <2>1, <2>2, <2>3
<1>10. Narrows(ms, s) /\ Narrows(mt, t)
  BY <1>6, <1>8
<1>11. \A g \in ToSet(fs) : g \in (Hits(ms, s) \cup ToSet(s.shape)) \cup (Hits(mt, t) \cup ToSet(t.shape))
  <2> SUFFICES ASSUME NEW g \in ToSet(fs) PROVE g \in (Hits(ms, s) \cup ToSet(s.shape)) \cup (Hits(mt, t) \cup ToSet(t.shape))
    OBVIOUS
  <2>1. PICK f \in ToSet(s.shape) \cup ToSet(t.shape) : g.walls \subseteq f.walls
    BY <1>2
  <2> HIDE DEF modified
  <2>2. CASE f \in ToSet(s.shape)
    BY <1>7, <1>8, <2>1, <2>2
  <2>3. CASE f \in ToSet(t.shape)
    BY <1>7, <1>8, <2>1, <2>3
  <2> QED
    BY <2>2, <2>3
<1> HIDE DEF modified
<1>12. ToSet(made.shape) \subseteq (Hits(ms, s) \cup ToSet(s.shape)) \cup (Hits(mt, t) \cup ToSet(t.shape))
  BY <1>5, <1>11
<1> QED
  BY <1>5, <1>9, <1>10, <1>12, TwoSourcesSettle

-----------------------------------------------------------------------------
(***************************************************************************)
(* Fusing.                                                                 *)
(***************************************************************************)
AreOperands(ps, S) == ps \in Seq(ToSet(ps)) /\ \A k \in DOMAIN ps : Operand(ps[k], S)

\* A copy's faces have the walls of the original's.
LEMMA DeepCopyIsOperand == ASSUME NEW S, NEW s, Operand(s, S) PROVE Operand(DeepCopy(s), S)
<1>1. PICK id, fs, name, ts : s = [id |-> id, shape |-> fs, name |-> name, traits |-> ts]
  BY DEF Operand, IsNamed
<1>2. PICK gs : gs = [i \in DOMAIN s.shape |-> [s.shape[i] EXCEPT !.of = <<"copy", @>>]]
  OBVIOUS
<1>3. PICK new : new = <<"copy", id[2]>>
  OBVIOUS
<1>4. PICK r : r = [id |-> new, shape |-> gs, name |-> name, traits |-> ts]
  OBVIOUS
<1>5. DeepCopy(s) = r
  <2>1. DeepCopy(s) = [s EXCEPT !.id = <<"copy", s.id[2]>>, !.shape = gs]
    BY <1>2, Zenon DEF DeepCopy
  <2>2. s.id = id
    BY <1>1
  <2>3. DeepCopy(s) = [s EXCEPT !.id = new, !.shape = gs]
    BY <1>3, <2>1, <2>2, Zenon
  <2>4. [s EXCEPT !.id = new, !.shape = gs] = r
    <3> DEFINE t == [s EXCEPT !.id = new, !.shape = gs]
    <3>1. DOMAIN t = {"id", "shape", "name", "traits"}
      BY <1>1
    <3>2. t.id = new /\ t.shape = gs /\ t.name = name /\ t.traits = ts
      BY <1>1
    <3>3. t = [x \in {"id", "shape", "name", "traits"} |-> t[x]]
      BY <3>1
    <3> HIDE DEF t
    <3>4. t = r
      BY <1>4, <3>2, <3>3
    <3> QED
      BY <3>4 DEF t
  <2> QED
    BY <2>3, <2>4, Zenon
<1>6. fs \in Seq(ToSet(fs)) /\ (\A f \in ToSet(fs) : IsFace(f)) /\ ts = [i \in DOMAIN fs |-> ts[i]] /\ \A i \in DOMAIN fs : IsTraits(ts[i])
  BY <1>1 DEF Operand, IsNamed
<1>7. DOMAIN gs = DOMAIN fs /\ gs = [i \in DOMAIN fs |-> gs[i]]
  BY <1>1, <1>2
<1>8. ASSUME NEW i \in DOMAIN fs PROVE IsFace(gs[i]) /\ gs[i].walls = fs[i].walls /\ gs[i] \in ToSet(gs)
  <2>1. PICK o, w : fs[i] = [of |-> o, walls |-> w] /\ w \in SUBSET Wall
    BY <1>6 DEF IsFace, ToSet
  <2>2. gs[i] = [fs[i] EXCEPT !.of = <<"copy", @>>]
    BY <1>1, <1>2
  <2>3. gs[i] = [of |-> <<"copy", o>>, walls |-> w]
    BY <2>1, <2>2
  <2>4. gs[i] \in ToSet(gs)
    BY <1>7 DEF ToSet
  <2> QED
    BY <2>1, <2>3, <2>4 DEF IsFace
<1>9. gs \in Seq(ToSet(gs)) /\ \A f \in ToSet(gs) : IsFace(f)
  <2>1. DOMAIN fs = 1 .. Len(fs) /\ Len(fs) \in Nat
    BY <1>6
  <2>2. gs \in Seq(ToSet(gs))
    BY <1>7, <1>8, <2>1
  <2>3. \A f \in ToSet(gs) : IsFace(f)
    BY <1>7, <1>8 DEF ToSet
  <2> QED
    BY <2>2, <2>3
<1>10. IsNamed(r)
  BY <1>4, <1>6, <1>7, <1>9, Zenon DEF IsNamed
<1>11. ASSUME NEW i \in DOMAIN gs PROVE MarkedAt(r, i, S) \/ OwnAt(r, i, S)
  <2>1. i \in DOMAIN fs /\ gs[i].walls = fs[i].walls
    BY <1>7, <1>8
  <2>2. CASE MarkedAt(s, i, S)
    BY <1>1, <1>4, <2>1, <2>2 DEF MarkedAt
  <2>3. CASE OwnAt(s, i, S)
    <3>1. PICK n \in DOMAIN S : ts[i].name = Name(n) /\ ts[i].origin = NoOrigin /\ id \in Ids(n) /\ PartOf(fs[i].walls, n, S)
      BY <1>1, <2>3 DEF OwnAt, Own
    <3>2. new \in Ids(n)
      BY <1>3, <3>1 DEF Ids
    <3>3. Own(ts[i], new, fs[i].walls, S)
      BY <3>1, <3>2 DEF Own
    <3> QED
      BY <1>4, <2>1, <3>3 DEF OwnAt
  <2>4. MarkedAt(s, i, S) \/ OwnAt(s, i, S)
    BY <1>1, <2>1 DEF Operand
  <2> QED
    BY <2>2, <2>3, <2>4
<1> QED
  BY <1>4, <1>5, <1>10, <1>11 DEF Operand

\* The faces of the parts, joined.
LEMMA JoinedFaces ==
  ASSUME NEW S, NEW parts, AreOperands(parts, S), NEW fs, fs = FlattenSeq([i \in DOMAIN parts |-> parts[i].shape])
  PROVE  /\ IsFaces(fs)
         /\ \A k \in DOMAIN parts : ToSet(parts[k].shape) \subseteq ToSet(fs)
         /\ \A f \in ToSet(fs) : \E k \in DOMAIN parts : f \in ToSet(parts[k].shape)
<1> DEFINE ss == [i \in DOMAIN parts |-> parts[i].shape]
           E == UNION {ToSet(parts[i].shape) : i \in DOMAIN parts}
<1>1. ASSUME NEW i \in DOMAIN parts
      PROVE  ss[i] = parts[i].shape /\ ss[i] \in Seq(E) /\ \A f \in ToSet(parts[i].shape) : IsFace(f)
  <2>1. ss[i] \in Seq(ToSet(ss[i])) /\ \A f \in ToSet(parts[i].shape) : IsFace(f)
    BY DEF AreOperands, Operand, IsNamed
  <2>2. ToSet(ss[i]) \subseteq E
    OBVIOUS
  <2> HIDE DEF E
  <2> QED
    BY <2>1, <2>2
<1>2. DOMAIN parts = 1 .. Len(parts) /\ Len(parts) \in Nat /\ DOMAIN ss = DOMAIN parts /\ ss = [i \in DOMAIN parts |-> ss[i]]
  BY DEF AreOperands
<1>3. \A f \in E : IsFace(f)
  BY <1>1
<1>4. fs = FlattenSeq(ss)
  OBVIOUS
<1> HIDE DEF ss, E
<1>5. ss \in Seq(Seq(E))
  BY <1>1, <1>2
<1>6. fs \in Seq(E)
  BY <1>4, <1>5, FlattenIsSequence
<1>7. IsFaces(fs)
  <2>1. ToSet(fs) \subseteq E
    BY <1>6 DEF ToSet
  <2> QED
    BY <1>3, <1>6, <2>1, FacesOfSequence
<1>8. ASSUME NEW k \in DOMAIN parts PROVE ToSet(parts[k].shape) \subseteq ToSet(fs)
  BY <1>1, <1>2, <1>4, <1>5, FlattenKeeps
<1>9. ASSUME NEW f \in ToSet(fs) PROVE \E k \in DOMAIN parts : f \in ToSet(parts[k].shape)
  BY <1>1, <1>2, <1>4, <1>5, FlattenFrom
<1> QED
  BY <1>7, <1>8, <1>9

\* results holds what is there after each of the parts.
FusesAll(results, parts, sewn, first) ==
  /\ results = [n \in 0 .. Len(parts) |-> results[n]]
  /\ results[0] = first /\ \A n \in 1 .. Len(parts) : results[n] = MapPart(sewn, parts[n], results[n - 1])

LEMMA FusesToTheEnd ==
  ASSUME NEW parts, Len(parts) \in Nat, NEW sewn, NEW first
  PROVE  \E results : FusesAll(results, parts, sewn, first)
<1> DEFINE Runs(f, k) == /\ f = [n \in 0 .. k |-> f[n]]
                         /\ f[0] = first /\ \A n \in 1 .. k : f[n] = MapPart(sewn, parts[n], f[n - 1])
           Good == {k \in 0 .. Len(parts) : \E f : Runs(f, k)}
<1>1. 0 \in Good
  <2>1. Runs([n \in 0 .. 0 |-> first], 0)
    OBVIOUS
  <2> HIDE DEF Runs
  <2> QED
    BY <2>1
<1>2. ASSUME NEW k \in 0 .. Len(parts) - 1, k \in Good PROVE k + 1 \in Good
  <2>1. PICK f : Runs(f, k)
    BY <1>2
  <2> DEFINE g == [n \in 0 .. k + 1 |-> IF n = k + 1 THEN MapPart(sewn, parts[n], f[k]) ELSE f[n]]
  <2>2. g[0] = first
    BY <2>1
  <2>3. ASSUME NEW n \in 1 .. k + 1 PROVE g[n] = MapPart(sewn, parts[n], g[n - 1])
    <3>1. CASE n = k + 1
      <4>1. g[n - 1] = f[k] /\ g[n] = MapPart(sewn, parts[n], f[k])
        BY <3>1
      <4> QED
        BY <4>1
    <3>2. CASE n \in 1 .. k
      <4>1. n \in 0 .. k + 1 /\ n - 1 \in 0 .. k + 1 /\ n # k + 1 /\ n - 1 # k + 1
        BY <3>2
      <4>2. g[n - 1] = f[n - 1] /\ g[n] = f[n]
        BY <4>1
      <4>3. f[n] = MapPart(sewn, parts[n], f[n - 1])
        BY <2>1, <3>2
      <4> HIDE DEF g
      <4> QED
        BY <4>2, <4>3
    <3> QED
      BY <3>1, <3>2
  <2>4. g = [n \in 0 .. k + 1 |-> g[n]]
    OBVIOUS
  <2> HIDE DEF g
  <2>5. Runs(g, k + 1)
    BY <2>2, <2>3, <2>4
  <2> HIDE DEF Runs
  <2>6. k + 1 \in 0 .. Len(parts)
    OBVIOUS
  <2> QED
    BY <2>5, <2>6
<1>3. 0 .. Len(parts) \subseteq Good
  <2> HIDE DEF Good
  <2> QED
    BY <1>1, <1>2, Climb, Zenon
<1>4. Len(parts) \in Good
  BY <1>3
<1>5. PICK f : Runs(f, Len(parts))
  BY <1>4
<1>6. FusesAll(f, parts, sewn, first)
  BY <1>5 DEF FusesAll
<1> QED
  BY <1>6

LEMMA FusedRuns ==
  ASSUME NEW parts, Len(parts) \in Nat, NEW id, NEW fs, fs = FlattenSeq([i \in DOMAIN parts |-> parts[i].shape])
  PROVE  \E results : /\ FusesAll(results, parts, ModifiedBySewing(fs), NewShape(id, Sewn(fs), <<"BOP_FUSE">>))
                      /\ Fused(parts, id) = results[Len(parts)]
<1> DEFINE sewn == ModifiedBySewing(fs)
           first == NewShape(id, Sewn(fs), <<"BOP_FUSE">>)
           Runs(f) == f = [n \in 0 .. Len(parts) |-> IF n = 0 THEN first ELSE MapPart(sewn, parts[n], f[n - 1])]
           result == CHOOSE f : Runs(f)
<1>1. Fused(parts, id) = result[Len(parts)]
  BY DEF Fused
<1>2. PICK f : FusesAll(f, parts, sewn, first)
  <2> HIDE DEF sewn, first
  <2> QED
    BY FusesToTheEnd
<1> HIDE DEF sewn, first
<1>3. Runs(f)
  BY <1>2 DEF FusesAll
<1>4. Runs(result)
  <2> HIDE DEF Runs
  <2> QED
    BY <1>3
<1>5. FusesAll(result, parts, sewn, first)
  <2> HIDE DEF result
  <2> QED
    BY <1>4 DEF FusesAll
<1> QED
  BY <1>1, <1>5 DEF sewn, first

\* Every face of the whole is one of a part, and sewing finds it again.
LEMMA FusedIsSettled ==
  ASSUME NEW S, NEW parts, AreOperands(parts, S), NEW id
  PROVE  Settled(Fused(parts, id), S) /\ Fused(parts, id).id = id
<1>1. PICK fs : fs = FlattenSeq([i \in DOMAIN parts |-> parts[i].shape])
  OBVIOUS
<1>2. /\ IsFaces(fs)
      /\ \A k \in DOMAIN parts : ToSet(parts[k].shape) \subseteq ToSet(fs)
      /\ \A f \in ToSet(fs) : \E k \in DOMAIN parts : f \in ToSet(parts[k].shape)
  BY <1>1, JoinedFaces
<1>3. PICK N \in Nat : N = Len(parts) /\ DOMAIN parts = 1 .. N
  BY DEF AreOperands
<1>4. PICK sewn, first : sewn = ModifiedBySewing(fs) /\ first = NewShape(id, Sewn(fs), <<"BOP_FUSE">>)
  OBVIOUS
<1>5. PICK results : FusesAll(results, parts, sewn, first) /\ Fused(parts, id) = results[N]
  <2>1. Len(parts) \in Nat
    BY <1>3
  <2> QED
    BY <1>1, <1>3, <1>4, <2>1, FusedRuns
<1>6. IsNamed(first) /\ ToSet(first.shape) = SewnFaces(sewn, fs) /\ first.id = id /\ KeepsWalls(sewn, fs)
  BY <1>2, <1>4, SewnAreFaces, NewShapeIsNamed, SewingKeepsWalls
<1>7. ASSUME NEW k \in 1 .. N PROVE KeepsWalls(sewn, parts[k].shape) /\ Operand(parts[k], S)
  BY <1>2, <1>3, <1>6 DEF KeepsWalls, AreOperands
<1> DEFINE H(n) == UNION {SewnFaces(sewn, parts[k].shape) : k \in 1 .. n}
           Good == {n \in 0 .. N : Gets(results[n], first, H(n), S)}
<1>8. 0 \in Good
  <2>1. results[0] = first /\ H(0) = {}
    BY <1>5 DEF FusesAll
  <2>2. Gets(first, first, {}, S)
    BY <1>6 DEF Gets
  <2> HIDE DEF H
  <2> QED
    BY <2>1, <2>2
<1>9. ASSUME NEW n \in 0 .. N - 1, n \in Good PROVE n + 1 \in Good
  <2>1. n + 1 \in 1 .. N /\ (n + 1) - 1 = n /\ n + 1 \in 0 .. N
    OBVIOUS
  <2>2. Gets(results[n], first, H(n), S)
    BY <1>9
  <2>3. results[n + 1] = MapPart(sewn, parts[n + 1], results[n])
    <3>1. results[n + 1] = MapPart(sewn, parts[n + 1], results[(n + 1) - 1])
      BY <1>3, <1>5, <2>1, Zenon DEF FusesAll
    <3> QED
      BY <2>1, <3>1, Zenon
  <2>4. IsNamed(results[n])
    BY <2>2 DEF Gets
  <2>5. KeepsWalls(sewn, parts[n + 1].shape) /\ Operand(parts[n + 1], S)
    BY <1>7, <2>1
  <2>6. PICK K : K = SewnFaces(sewn, parts[n + 1].shape)
    OBVIOUS
  <2>7. Gets(results[n + 1], results[n], K, S)
    BY <2>3, <2>4, <2>5, <2>6, MapPartGets
  <2>8. H(n + 1) \subseteq H(n) \cup K
    <3>1. ASSUME NEW k \in 1 .. n + 1 PROVE SewnFaces(sewn, parts[k].shape) \subseteq H(n) \cup K
      <4>1. k \in 1 .. n \/ k = n + 1
        OBVIOUS
      <4> QED
        BY <2>6, <4>1
    <3> QED
      BY <3>1
  <2> HIDE DEF H
  <2>9. Gets(results[n + 1], first, H(n) \cup K, S)
    BY <2>2, <2>7, GetsMore
  <2>10. Gets(results[n + 1], first, H(n + 1), S)
    BY <2>8, <2>9, GetsLess
  <2> QED
    BY <2>1, <2>10
<1>10. Gets(results[N], first, H(N), S)
  <2>1. 0 .. N \subseteq Good
    <3> HIDE DEF Good
    <3> QED
      BY <1>8, <1>9, Climb, Zenon
  <2>2. N \in 0 .. N
    OBVIOUS
  <2> HIDE DEF H
  <2> QED
    BY <2>1, <2>2
<1>11. ToSet(first.shape) \subseteq H(N)
  <2> SUFFICES ASSUME NEW g \in ToSet(first.shape) PROVE g \in H(N)
    OBVIOUS
  <2>1. PICK f \in ToSet(fs) : g = sewn[f]
    BY <1>6 DEF SewnFaces
  <2>2. PICK k \in 1 .. N : f \in ToSet(parts[k].shape)
    BY <1>2, <1>3
  <2> QED
    BY <2>1, <2>2 DEF SewnFaces
<1> HIDE DEF H
<1>12. Settled(results[N], S) /\ results[N].id = first.id
  BY <1>10, <1>11, CoveredIsSettled
<1> QED
  BY <1>5, <1>6, <1>12

\* left holds the parent after each of the children.
TrimsAll(left, parent, children) ==
  /\ left = [n \in 0 .. Len(children) |-> left[n]]
  /\ left[0] = DeepCopy(parent)
  /\ \A n \in 1 .. Len(children) :
       left[n] = SplitTrim(left[n - 1], children[n], Surface(children[n].shape), "trim out", Temporary)

LEMMA TrimsToTheEnd ==
  ASSUME NEW parent, NEW children, Len(children) \in Nat
  PROVE  \E left : TrimsAll(left, parent, children)
<1> DEFINE Trim1(s, n) == SplitTrim(s, children[n], Surface(children[n].shape), "trim out", Temporary)
           Runs(f, k) == /\ f = [n \in 0 .. k |-> f[n]]
                         /\ f[0] = DeepCopy(parent) /\ \A n \in 1 .. k : f[n] = Trim1(f[n - 1], n)
           Good == {k \in 0 .. Len(children) : \E f : Runs(f, k)}
<1>1. 0 \in Good
  <2>1. Runs([n \in 0 .. 0 |-> DeepCopy(parent)], 0)
    OBVIOUS
  <2> HIDE DEF Runs
  <2> QED
    BY <2>1
<1>2. ASSUME NEW k \in 0 .. Len(children) - 1, k \in Good PROVE k + 1 \in Good
  <2> HIDE DEF Trim1
  <2>1. PICK f : Runs(f, k)
    BY <1>2
  <2> DEFINE g == [n \in 0 .. k + 1 |-> IF n = k + 1 THEN Trim1(f[k], n) ELSE f[n]]
  <2>2. g[0] = DeepCopy(parent)
    BY <2>1
  <2>3. ASSUME NEW n \in 1 .. k + 1 PROVE g[n] = Trim1(g[n - 1], n)
    <3>1. CASE n = k + 1
      <4>1. g[n - 1] = f[k] /\ g[n] = Trim1(f[k], n)
        BY <3>1
      <4> QED
        BY <4>1
    <3>2. CASE n \in 1 .. k
      <4>1. n \in 0 .. k + 1 /\ n - 1 \in 0 .. k + 1 /\ n # k + 1 /\ n - 1 # k + 1
        BY <3>2
      <4>2. g[n - 1] = f[n - 1] /\ g[n] = f[n]
        BY <4>1
      <4>3. f[n] = Trim1(f[n - 1], n)
        BY <2>1, <3>2
      <4> HIDE DEF g
      <4> QED
        BY <4>2, <4>3
    <3> QED
      BY <3>1, <3>2
  <2>4. g = [n \in 0 .. k + 1 |-> g[n]]
    OBVIOUS
  <2> HIDE DEF g
  <2>5. Runs(g, k + 1)
    BY <2>2, <2>3, <2>4
  <2> HIDE DEF Runs
  <2>6. k + 1 \in 0 .. Len(children)
    OBVIOUS
  <2> QED
    BY <2>5, <2>6
<1>3. 0 .. Len(children) \subseteq Good
  <2> HIDE DEF Good
  <2> QED
    BY <1>1, <1>2, Climb, Zenon
<1>4. Len(children) \in Good
  <2>1. Len(children) \in 0 .. Len(children)
    OBVIOUS
  <2> HIDE DEF Good
  <2> QED
    BY <1>3, <2>1
<1>5. PICK f : Runs(f, Len(children))
  <2> HIDE DEF Runs
  <2> QED
    BY <1>4
<1>6. TrimsAll(f, parent, children)
  BY <1>5 DEF TrimsAll
<1> QED
  BY <1>6

LEMMA ParentTrimsRuns ==
  ASSUME NEW parent, NEW children, Len(children) \in Nat
  PROVE  TrimsAll(ParentTrims(parent, children), parent, children)
<1> DEFINE Trim1(s, n) == SplitTrim(s, children[n], Surface(children[n].shape), "trim out", Temporary)
           Runs(f) == f = [n \in 0 .. Len(children) |-> IF n = 0 THEN DeepCopy(parent) ELSE Trim1(f[n - 1], n)]
           left == CHOOSE f : Runs(f)
<1>1. ParentTrims(parent, children) = left
  BY DEF ParentTrims
<1>2. PICK f : TrimsAll(f, parent, children)
  BY TrimsToTheEnd
<1>3. /\ f = [n \in 0 .. Len(children) |-> f[n]] /\ f[0] = DeepCopy(parent)
      /\ \A n \in 1 .. Len(children) : f[n] = Trim1(f[n - 1], n)
  BY <1>2 DEF TrimsAll
<1>4. Runs(f)
  <2> HIDE DEF Trim1
  <2> QED
    BY <1>3
<1>5. Runs(left)
  <2> HIDE DEF Runs
  <2> QED
    BY <1>4
<1>6. TrimsAll(left, parent, children)
  <2> HIDE DEF left
  <2>1. /\ left = [n \in 0 .. Len(children) |-> left[n]] /\ left[0] = DeepCopy(parent)
        /\ \A n \in 1 .. Len(children) : left[n] = Trim1(left[n - 1], n)
    <3> HIDE DEF Trim1
    <3> QED
      BY <1>5
  <2> QED
    BY <2>1 DEF TrimsAll
<1> QED
  BY <1>1, <1>6

\* Whatever is left of the parent is a shape to trim.
LEMMA LeftAreOperands ==
  ASSUME NEW S, NEW parent, Operand(parent, S), NEW children, AreOperands(children, S), NEW n \in 0 .. Len(children)
  PROVE  Operand(ParentTrims(parent, children)[n], S)
<1>1. PICK N \in Nat : N = Len(children) /\ DOMAIN children = 1 .. N
  BY DEF AreOperands
<1>2. PICK left : left = ParentTrims(parent, children) /\ TrimsAll(left, parent, children)
  BY <1>1, ParentTrimsRuns
<1> DEFINE Good == {k \in 0 .. N : Operand(left[k], S)}
<1>3. 0 \in Good
  <2>1. left[0] = DeepCopy(parent)
    BY <1>2 DEF TrimsAll
  <2>2. Operand(left[0], S)
    BY <2>1, DeepCopyIsOperand
  <2> QED
    BY <2>2
<1>4. ASSUME NEW k \in 0 .. N - 1, k \in Good PROVE k + 1 \in Good
  <2>1. k + 1 \in 1 .. N /\ (k + 1) - 1 = k /\ k + 1 \in 0 .. N
    OBVIOUS
  <2>2. PICK child, W : child = children[k + 1] /\ W = Surface(child.shape)
    OBVIOUS
  <2>3. Operand(child, S) /\ Operand(left[k], S)
    BY <1>1, <1>4, <2>1, <2>2 DEF AreOperands
  <2>4. left[k + 1] = SplitTrim(left[k], child, W, "trim out", Temporary)
    <3>1. left[k + 1] = SplitTrim(left[(k + 1) - 1], children[k + 1], Surface(children[k + 1].shape), "trim out", Temporary)
      BY <1>1, <1>2, <2>1, Zenon DEF TrimsAll
    <3> QED
      BY <2>1, <2>2, <3>1, Zenon
  <2>5. PICK u : u = left[k] /\ Operand(u, S)
    BY <2>3
  <2>6. Settled(SplitTrim(u, child, W, "trim out", Temporary), S)
    BY <2>3, <2>5, SplitTrimIsSettled
  <2>7. Settled(left[k + 1], S)
    BY <2>4, <2>5, <2>6
  <2> QED
    BY <2>1, <2>7, SettledIsOperand
<1>5. 0 .. N \subseteq Good
  <2> HIDE DEF Good
  <2> QED
    BY <1>3, <1>4, Climb, Zenon
<1> QED
  BY <1>1, <1>2, <1>5

\* The parts a parent and its children are fused from.
LEMMA PartsAreOperands ==
  ASSUME NEW S, NEW parent, Operand(parent, S), NEW children, AreOperands(children, S), NEW left,
         left = ParentTrims(parent, children)
  PROVE  AreOperands(Append(ChildTrims(parent, children, left), left[Len(children)]), S)
<1>1. PICK N \in Nat : N = Len(children) /\ DOMAIN children = 1 .. N
  BY DEF AreOperands
<1>2. PICK ts : ts = ChildTrims(parent, children, left)
  OBVIOUS
<1>3. PICK last : last = left[N] /\ Operand(last, S)
  <2>1. N \in 0 .. Len(children)
    BY <1>1
  <2> QED
    BY <2>1, LeftAreOperands
<1>4. DOMAIN ts = 1 .. N /\ ts = [n \in 1 .. N |-> ts[n]]
  BY <1>1, <1>2 DEF ChildTrims
<1>5. ASSUME NEW n \in 1 .. N PROVE Operand(ts[n], S)
  <2>1. PICK child, W : child = children[n] /\ W = Surface(left[n - 1].shape)
    OBVIOUS
  <2>2. ts[n] = SplitTrim(child, parent, W, ChildTrim, Temporary)
    BY <1>1, <1>2, <2>1 DEF ChildTrims
  <2>3. Operand(child, S)
    BY <1>1, <2>1 DEF AreOperands
  <2>4. Settled(ts[n], S)
    BY <2>2, <2>3, SplitTrimIsSettled
  <2> QED
    BY <2>4, SettledIsOperand
<1>6. PICK ps : ps = Append(ts, last)
  OBVIOUS
<1> DEFINE E == {ts[n] : n \in 1 .. N} \cup {last}
<1>7. ts \in Seq(E)
  <2>1. \A n \in 1 .. N : ts[n] \in E
    OBVIOUS
  <2> HIDE DEF E
  <2> QED
    BY <1>4, <2>1
<1>8. Len(ts) = N
  BY <1>4, <1>7
<1>9. last \in E
  OBVIOUS
<1> HIDE DEF E
<1>10. ps \in Seq(E) /\ DOMAIN ps = 1 .. N + 1 /\ ps[N + 1] = last /\ \A n \in 1 .. N : ps[n] = ts[n]
  BY <1>6, <1>7, <1>8, <1>9
<1>11. ASSUME NEW n \in DOMAIN ps PROVE Operand(ps[n], S)
  <2>1. n \in 1 .. N \/ n = N + 1
    BY <1>10
  <2> QED
    BY <1>3, <1>5, <1>10, <2>1
<1>12. AreOperands(ps, S)
  BY <1>10, <1>11, SequenceOfItsOwn DEF AreOperands
<1> QED
  BY <1>1, <1>2, <1>3, <1>6, <1>12

-----------------------------------------------------------------------------
(***************************************************************************)
(* Groups.                                                                 *)
(***************************************************************************)
GroupsAll(results, members, first) ==
  /\ results = [n \in 0 .. Len(members) |-> results[n]]
  /\ results[0] = first /\ \A n \in 1 .. Len(members) : results[n] = AppendNamesToShape(members[n], results[n - 1])

LEMMA GroupsToTheEnd ==
  ASSUME NEW members, Len(members) \in Nat, NEW first
  PROVE  \E results : GroupsAll(results, members, first)
<1> DEFINE Runs(f, k) == /\ f = [n \in 0 .. k |-> f[n]]
                         /\ f[0] = first /\ \A n \in 1 .. k : f[n] = AppendNamesToShape(members[n], f[n - 1])
           Good == {k \in 0 .. Len(members) : \E f : Runs(f, k)}
<1>1. 0 \in Good
  <2>1. Runs([n \in 0 .. 0 |-> first], 0)
    OBVIOUS
  <2> HIDE DEF Runs
  <2> QED
    BY <2>1
<1>2. ASSUME NEW k \in 0 .. Len(members) - 1, k \in Good PROVE k + 1 \in Good
  <2>1. PICK f : Runs(f, k)
    BY <1>2
  <2> DEFINE g == [n \in 0 .. k + 1 |-> IF n = k + 1 THEN AppendNamesToShape(members[n], f[k]) ELSE f[n]]
  <2>2. g[0] = first
    BY <2>1
  <2>3. ASSUME NEW n \in 1 .. k + 1 PROVE g[n] = AppendNamesToShape(members[n], g[n - 1])
    <3>1. CASE n = k + 1
      <4>1. g[n - 1] = f[k] /\ g[n] = AppendNamesToShape(members[n], f[k])
        BY <3>1
      <4> QED
        BY <4>1
    <3>2. CASE n \in 1 .. k
      <4>1. n \in 0 .. k + 1 /\ n - 1 \in 0 .. k + 1 /\ n # k + 1 /\ n - 1 # k + 1
        BY <3>2
      <4>2. g[n - 1] = f[n - 1] /\ g[n] = f[n]
        BY <4>1
      <4>3. f[n] = AppendNamesToShape(members[n], f[n - 1])
        BY <2>1, <3>2
      <4> HIDE DEF g
      <4> QED
        BY <4>2, <4>3
    <3> QED
      BY <3>1, <3>2
  <2>4. g = [n \in 0 .. k + 1 |-> g[n]]
    OBVIOUS
  <2> HIDE DEF g
  <2>5. Runs(g, k + 1)
    BY <2>2, <2>3, <2>4
  <2> HIDE DEF Runs
  <2>6. k + 1 \in 0 .. Len(members)
    OBVIOUS
  <2> QED
    BY <2>5, <2>6
<1>3. 0 .. Len(members) \subseteq Good
  <2> HIDE DEF Good
  <2> QED
    BY <1>1, <1>2, Climb, Zenon
<1>4. Len(members) \in Good
  BY <1>3
<1>5. PICK f : Runs(f, Len(members))
  BY <1>4
<1>6. GroupsAll(f, members, first)
  BY <1>5 DEF GroupsAll
<1> QED
  BY <1>6

\* The faces a group has: one of each, in the order of the members.
GroupFaces(members) ==
  LET before(n) == UNION {ToSet(members[k].shape) : k \in 1 .. n - 1}
  IN  FlattenSeq([n \in DOMAIN members |-> Those(members[n].shape, ToSet(members[n].shape) \ before(n))])

LEMMA GroupFacesAreOfMembers ==
  ASSUME NEW S, NEW members, AreOperands(members, S)
  PROVE  /\ IsFaces(GroupFaces(members))
         /\ \A f \in ToSet(GroupFaces(members)) : \E k \in DOMAIN members : f \in ToSet(members[k].shape)
<1> DEFINE before(n) == UNION {ToSet(members[k].shape) : k \in 1 .. n - 1}
           ss == [n \in DOMAIN members |-> Those(members[n].shape, ToSet(members[n].shape) \ before(n))]
           E == UNION {ToSet(members[i].shape) : i \in DOMAIN members}
<1>1. ASSUME NEW i \in DOMAIN members
      PROVE  ss[i] \in Seq(E) /\ \A f \in ToSet(members[i].shape) : IsFace(f)
  <2>1. PICK T : T = ToSet(members[i].shape) \ before(i)
    OBVIOUS
  <2>2. members[i].shape \in Seq(ToSet(members[i].shape)) /\ \A f \in ToSet(members[i].shape) : IsFace(f)
    BY DEF AreOperands, Operand, IsNamed
  <2>3. Those(members[i].shape, T) \in Seq(T \cap ToSet(members[i].shape))
    BY <2>2, ThoseAreMembers
  <2>4. T \cap ToSet(members[i].shape) \subseteq E
    OBVIOUS
  <2>5. Those(members[i].shape, T) \in Seq(E)
    <3> HIDE DEF E
    <3> QED
      BY <2>3, <2>4
  <2>6. ss[i] = Those(members[i].shape, T)
    BY <2>1
  <2> QED
    BY <2>2, <2>5, <2>6
<1>2. DOMAIN members = 1 .. Len(members) /\ Len(members) \in Nat /\ ss = [i \in DOMAIN members |-> ss[i]]
  BY DEF AreOperands
<1>3. \A f \in E : IsFace(f)
  BY <1>1
<1>4. PICK fs : fs = FlattenSeq(ss)
  OBVIOUS
<1>5. GroupFaces(members) = fs
  BY <1>4 DEF GroupFaces
<1> HIDE DEF ss
<1>6. fs \in Seq(E)
  <2> HIDE DEF E
  <2>1. ss \in Seq(Seq(E))
    BY <1>1, <1>2
  <2> QED
    BY <1>4, <2>1, FlattenIsSequence
<1>7. ToSet(fs) \subseteq E
  <2> HIDE DEF E
  <2> QED
    BY <1>6 DEF ToSet
<1>8. IsFaces(fs)
  <2> HIDE DEF E
  <2> QED
    BY <1>3, <1>6, <1>7, FacesOfSequence
<1> QED
  BY <1>5, <1>7, <1>8

LEMMA GroupedRuns ==
  ASSUME NEW members, Len(members) \in Nat, NEW id
  PROVE  \E results : /\ GroupsAll(results, members, NewShape(id, GroupFaces(members), <<"ShapeGroup">>))
                      /\ Grouped(members, id) = results[Len(members)]
<1> DEFINE first == NewShape(id, GroupFaces(members), <<"ShapeGroup">>)
           Runs(f) == f = [n \in 0 .. Len(members) |-> IF n = 0 THEN first ELSE AppendNamesToShape(members[n], f[n - 1])]
           result == CHOOSE f : Runs(f)
<1>1. Grouped(members, id) = result[Len(members)]
  BY DEF Grouped, GroupFaces
<1> HIDE DEF first
<1>2. PICK f : GroupsAll(f, members, first)
  BY GroupsToTheEnd
<1>3. Runs(f)
  BY <1>2 DEF GroupsAll
<1>4. Runs(result)
  <2> HIDE DEF Runs
  <2> QED
    BY <1>3
<1>5. GroupsAll(result, members, first)
  <2> HIDE DEF result
  <2> QED
    BY <1>4 DEF GroupsAll
<1> QED
  BY <1>1, <1>5 DEF first

LEMMA GroupedIsSettled ==
  ASSUME NEW S, NEW members, AreOperands(members, S), NEW id
  PROVE  Settled(Grouped(members, id), S) /\ Grouped(members, id).id = id
<1>1. PICK fs : fs = GroupFaces(members)
  OBVIOUS
<1>2. IsFaces(fs) /\ \A f \in ToSet(fs) : \E k \in DOMAIN members : f \in ToSet(members[k].shape)
  BY <1>1, GroupFacesAreOfMembers
<1>3. PICK N \in Nat : N = Len(members) /\ DOMAIN members = 1 .. N
  BY DEF AreOperands
<1>4. PICK first : first = NewShape(id, fs, <<"ShapeGroup">>) /\ IsNamed(first) /\ first.shape = fs /\ first.id = id
  BY <1>2, NewShapeIsNamed
<1>5. PICK results : GroupsAll(results, members, first) /\ Grouped(members, id) = results[N]
  <2>1. Len(members) \in Nat
    BY <1>3
  <2> QED
    BY <1>1, <1>3, <1>4, <2>1, GroupedRuns
<1> DEFINE H(n) == UNION {ToSet(members[k].shape) : k \in 1 .. n}
           Good == {n \in 0 .. N : Gets(results[n], first, H(n), S)}
<1>6. 0 \in Good
  <2>1. results[0] = first /\ H(0) = {}
    BY <1>5 DEF GroupsAll
  <2>2. Gets(first, first, {}, S)
    BY <1>4 DEF Gets
  <2> HIDE DEF H
  <2> QED
    BY <2>1, <2>2
<1>7. ASSUME NEW n \in 0 .. N - 1, n \in Good PROVE n + 1 \in Good
  <2>1. n + 1 \in 1 .. N /\ (n + 1) - 1 = n /\ n + 1 \in 0 .. N
    OBVIOUS
  <2>2. Gets(results[n], first, H(n), S)
    BY <1>7
  <2>3. results[n + 1] = AppendNamesToShape(members[n + 1], results[n])
    <3>1. results[n + 1] = AppendNamesToShape(members[n + 1], results[(n + 1) - 1])
      BY <1>3, <1>5, <2>1, Zenon DEF GroupsAll
    <3> QED
      BY <2>1, <3>1, Zenon
  <2>4. IsNamed(results[n])
    BY <2>2 DEF Gets
  <2>5. Operand(members[n + 1], S)
    BY <1>3, <2>1 DEF AreOperands
  <2>6. PICK K : K = ToSet(members[n + 1].shape)
    OBVIOUS
  <2>7. Gets(results[n + 1], results[n], K, S)
    BY <2>3, <2>4, <2>5, <2>6, AppendNamesGets
  <2>8. H(n + 1) \subseteq H(n) \cup K
    <3>1. ASSUME NEW k \in 1 .. n + 1 PROVE ToSet(members[k].shape) \subseteq H(n) \cup K
      <4>1. k \in 1 .. n \/ k = n + 1
        OBVIOUS
      <4> QED
        BY <2>6, <4>1
    <3> QED
      BY <3>1
  <2> HIDE DEF H
  <2>9. Gets(results[n + 1], first, H(n) \cup K, S)
    BY <2>2, <2>7, GetsMore
  <2>10. Gets(results[n + 1], first, H(n + 1), S)
    BY <2>8, <2>9, GetsLess
  <2> QED
    BY <2>1, <2>10
<1>8. Gets(results[N], first, H(N), S)
  <2>1. 0 .. N \subseteq Good
    <3> HIDE DEF Good
    <3> QED
      BY <1>6, <1>7, Climb, Zenon
  <2>2. N \in 0 .. N
    OBVIOUS
  <2> HIDE DEF H
  <2> QED
    BY <2>1, <2>2
<1>9. ToSet(first.shape) \subseteq H(N)
  BY <1>2, <1>3, <1>4
<1> HIDE DEF H
<1>10. Settled(results[N], S) /\ results[N].id = first.id
  BY <1>8, <1>9, CoveredIsSettled
<1> QED
  BY <1>4, <1>5, <1>10

-----------------------------------------------------------------------------
(***************************************************************************)
(* The invariant: every object is one to work with, and those the calls    *)
(* returned are settled.                                                   *)
(***************************************************************************)
ObjectsOK(os, S) ==
  /\ os \in Seq(ToSet(os)) /\ Len(os) >= Len(S)
  /\ \A k \in 1 .. Len(os) : /\ os[k].id = <<"object", k>> /\ Operand(os[k], S)
                             /\ k > Len(S) => Settled(os[k], S)

HeldOK(hs, n, m) == hs \in Seq(0 .. m) /\ Len(hs) = n

DoneOK(ds, sc) == ds \in Seq(ToSet(ds)) /\ Len(ds) \in 0 .. Len(sc.calls)

\* The calls were legal ones, what the user holds is there, and all faces are
\* ones whose origin is known.
ShapesOK ==
  /\ scene \in Scenes
  /\ ObjectsOK(objects, scene.solids)
  /\ DoneOK(done, scene)
  /\ HeldOK(held, Len(scene.solids) + Len(done), Len(objects))

LEMMA SceneOK ==
  ASSUME NEW s \in Scenes
  PROVE  /\ s.solids \in Seq(SUBSET Cell) /\ Len(s.solids) \in Nat /\ DOMAIN s.solids = 1 .. Len(s.solids)
         /\ Len(s.calls) \in Nat
         /\ \A k \in 1 .. Len(s.calls) : \A c \in s.calls[k] : IsCall(c, Len(s.solids) + k - 1)
<1>1. IsScene(s)
  BY ScenesAssumption
<1>2. s.calls \in Seq(SUBSET UNION {s.calls[k] : k \in DOMAIN s.calls}) /\ s.solids \in Seq(SUBSET Cell)
  BY <1>1, Zenon DEF IsScene
<1>3. PICK E : s.calls \in Seq(E)
  BY <1>2, Zenon
<1>4. Len(s.calls) \in Nat /\ DOMAIN s.calls = 1 .. Len(s.calls)
  BY <1>3
<1>5. Len(s.solids) \in Nat /\ DOMAIN s.solids = 1 .. Len(s.solids)
  BY <1>2
<1> QED
  BY <1>1, <1>2, <1>4, <1>5 DEF IsScene

LEMMA SolidIsOperand ==
  ASSUME NEW n, n \in DOMAIN scene.solids
  PROVE  Operand(Solid(n), scene.solids) /\ Solid(n).id = <<"object", n>> /\ Solid(n).shape = Sides(Name(n), scene.solids[n])
<1>1. PICK fs, id : fs = Sides(Name(n), scene.solids[n]) /\ id = <<"object", n>>
  OBVIOUS
<1>2. PICK s : s = NewShape(id, fs, Name(n)) /\ Solid(n) = s
  BY <1>1 DEF Solid
<1>3. IsFaces(fs)
  BY <1>1, SidesAreFaces DEF IsFaces
<1>4. IsNamed(s) /\ s.shape = fs /\ s.id = id
  BY <1>2, <1>3, NewShapeIsNamed
<1>5. s.traits = [i \in DOMAIN fs |-> NewTraits(Name(n))]
  BY <1>2 DEF NewShape
<1>6. ASSUME NEW i \in DOMAIN s.shape PROVE OwnAt(s, i, scene.solids)
  <2>1. s.traits[i].name = Name(n) /\ s.traits[i].origin = NoOrigin
    BY <1>4, <1>5 DEF NewTraits
  <2>2. id \in Ids(n)
    BY <1>1 DEF Ids
  <2>3. s.shape[i] \in ToSet(fs)
    BY <1>4 DEF ToSet
  <2>4. PartOf(s.shape[i].walls, n, scene.solids)
    BY <1>1, <2>3 DEF PartOf
  <2> QED
    BY <1>4, <2>1, <2>2, <2>4 DEF OwnAt, Own
<1> QED
  BY <1>1, <1>2, <1>4, <1>6 DEF Operand

LEMMA ShapesInit == Init => ShapesOK
<1> SUFFICES ASSUME Init PROVE ShapesOK
  OBVIOUS
<1>1. PICK N \in Nat : N = Len(scene.solids) /\ DOMAIN scene.solids = 1 .. N /\ Len(scene.calls) \in Nat
  BY SceneOK DEF Init
<1>2. objects = [n \in 1 .. N |-> Solid(n)] /\ held = [n \in 1 .. N |-> n] /\ done = <<>> /\ scene \in Scenes
  BY <1>1 DEF Init
<1>3. \A n \in 1 .. N : objects[n] = Solid(n)
  BY <1>2
<1>4. DOMAIN objects = 1 .. N /\ objects = [n \in 1 .. N |-> objects[n]]
  BY <1>2
<1>5. objects \in Seq(ToSet(objects)) /\ Len(objects) = N
  <2>1. \A n \in 1 .. N : objects[n] \in ToSet(objects)
    BY <1>4 DEF ToSet
  <2> QED
    BY <1>4, <2>1
<1>6. ObjectsOK(objects, scene.solids)
  <2>1. ASSUME NEW k \in 1 .. N PROVE objects[k].id = <<"object", k>> /\ Operand(objects[k], scene.solids)
    BY <1>1, <1>3, SolidIsOperand
  <2> QED
    BY <1>1, <1>5, <2>1 DEF ObjectsOK
<1>7. DoneOK(done, scene)
  BY <1>1, <1>2 DEF DoneOK
<1>8. HeldOK(held, Len(scene.solids) + Len(done), Len(objects))
  <2>1. held \in Seq(0 .. N) /\ Len(held) = N /\ Len(done) = 0
    BY <1>2
  <2> QED
    BY <1>1, <1>5, <2>1 DEF HeldOK
<1> QED
  BY <1>2, <1>6, <1>7, <1>8 DEF ShapesOK

\* What the user gives as an operand is null or an object.
LEMMA HeldIsThere ==
  ASSUME ShapesOK, NEW n \in 0 .. Len(held)
  PROVE  Held(n) \in 0 .. Len(objects)
<1>1. held \in Seq(0 .. Len(objects)) /\ Len(objects) \in Nat
  BY DEF ShapesOK, HeldOK, ObjectsOK
<1>2. n # 0 => held[n] \in 0 .. Len(objects)
  BY <1>1
<1> QED
  BY <1>1, <1>2 DEF Held, Null

LEMMA ObjectIsOperand ==
  ASSUME ShapesOK, NEW p \in 0 .. Len(objects), p # Null PROVE Operand(objects[p], scene.solids)
<1>1. p \in 1 .. Len(objects)
  BY DEF Null
<1> QED
  BY <1>1 DEF ShapesOK, ObjectsOK

LEMMA CallIsLegal ==
  ASSUME ShapesOK, NEW c \in Calls PROVE IsCall(c, Len(held)) /\ Len(done) < Len(scene.calls)
<1>1. PICK k : k = Len(done) + 1
  OBVIOUS
<1>2. Len(done) \in 0 .. Len(scene.calls) /\ Len(scene.calls) \in Nat /\ Len(scene.solids) \in Nat
  BY SceneOK DEF ShapesOK, DoneOK
<1>3. c \in scene.calls[k] /\ k \in 1 .. Len(scene.calls)
  BY <1>1, <1>2 DEF Calls
<1>4. IsCall(c, Len(scene.solids) + k - 1)
  BY <1>3, SceneOK DEF ShapesOK
<1>5. Len(held) = Len(scene.solids) + k - 1
  BY <1>1, <1>2 DEF ShapesOK, HeldOK
<1> QED
  BY <1>1, <1>2, <1>3, <1>4, <1>5

\* The operands of a fuse or a group.
LEMMA ShapesAreOperands ==
  ASSUME ShapesOK, NEW ys \in Seq(0 .. Len(held)) PROVE AreOperands(Shapes(ys), scene.solids)
<1> DEFINE T == {y \in ToSet(ys) : Held(y) # Null}
           ps == [i \in DOMAIN Those(ys, T) |-> objects[Held(Those(ys, T)[i])]]
<1>1. PICK there : there = Those(ys, T)
  OBVIOUS
<1>2. there \in Seq(T \cap ToSet(ys))
  BY <1>1, ThoseAreMembers
<1>3. DOMAIN there = 1 .. Len(there) /\ Len(there) \in Nat /\ \A i \in DOMAIN there : there[i] \in T
  BY <1>2
<1>4. Shapes(ys) = ps
  BY DEF Shapes
<1>5. ps = [i \in DOMAIN there |-> objects[Held(there[i])]]
  BY <1>1
<1>6. ASSUME NEW i \in DOMAIN there PROVE Operand(ps[i], scene.solids)
  <2>1. PICK y : y = there[i] /\ y \in ToSet(ys) /\ Held(y) # Null
    BY <1>3
  <2>2. y \in 0 .. Len(held)
    BY <2>1 DEF ToSet
  <2>3. Operand(objects[Held(y)], scene.solids)
    BY <2>1, <2>2, HeldIsThere, ObjectIsOperand
  <2> HIDE DEF ps
  <2>4. ps[i] = objects[Held(y)]
    BY <1>5, <2>1
  <2> QED
    BY <2>3, <2>4
<1>7. DOMAIN ps = 1 .. Len(there) /\ ps = [i \in 1 .. Len(there) |-> ps[i]]
  BY <1>3, <1>5
<1> HIDE DEF ps
<1>8. ps \in Seq(ToSet(ps))
  <2>1. \A i \in 1 .. Len(there) : ps[i] \in ToSet(ps)
    BY <1>7 DEF ToSet
  <2> QED
    BY <1>3, <1>7, <2>1
<1>9. AreOperands(ps, scene.solids)
  BY <1>3, <1>6, <1>7, <1>8 DEF AreOperands
<1> QED
  BY <1>4, <1>9

-----------------------------------------------------------------------------
(***************************************************************************)
(* What a call does: it throws, it returns what there is or a new object.  *)
(***************************************************************************)
Made(s) == Settled(s, scene.solids) /\ s.id = NewId

ReturnsMade == \E s : Made(s) /\ ReturnNew(s)

ReturnsHeld == \E p \in 0 .. Len(objects) : Return(p)

Outcome(c) ==
  \/ Throws(c) /\ UNCHANGED <<objects, held>>
  \/ ~ Throws(c) /\ (ReturnsHeld \/ ReturnsMade)

LEMMA FirstOperands ==
  ASSUME ShapesOK, NEW c \in Calls
  PROVE  /\ Held(c.x) \in 0 .. Len(objects) /\ c.ys \in Seq(0 .. Len(held))
         /\ c.kind \notin {"fuse", "group"} \/ c.ys # <<>> => Held(c.ys[1]) \in 0 .. Len(objects)
<1>1. IsCall(c, Len(held))
  BY CallIsLegal
<1>2. c.x \in 0 .. Len(held) /\ c.ys \in Seq(0 .. Len(held)) /\ (c.kind \notin {"fuse", "group"} => c.ys # <<>>)
  BY <1>1 DEF IsCall
<1>3. c.ys # <<>> => c.ys[1] \in 0 .. Len(held)
  BY <1>2
<1> QED
  BY <1>2, <1>3, HeldIsThere

LEMMA OnlyTrimsThrow == ASSUME NEW c, c.kind \notin {"trim out", "trim in"} PROVE ~ Throws(c)
BY DEF Throws

LEMMA TrimmedIsSettled ==
  ASSUME NEW S, NEW source, Operand(source, S), NEW tool, Operand(tool, S), NEW op, NEW id
  PROVE  Settled(Trimmed(source, tool, op, id), S) /\ Trimmed(source, tool, op, id).id = id
<1>1. PICK W : W = Surface(tool.shape)
  OBVIOUS
<1>2. Trimmed(source, tool, op, id) = SplitTrim(source, tool, W, op, id)
  BY <1>1 DEF Trimmed
<1> QED
  BY <1>2, SplitTrimIsSettled

LEMMA TrimReturns == ASSUME ShapesOK, NEW c \in Calls, Trim(c) PROVE Outcome(c)
<1>1. PICK x, y : x = Held(c.x) /\ y = Held(c.ys[1])
  OBVIOUS
<1>2. c.kind \in {"trim out", "trim in"}
  BY DEF Trim
<1>3. CASE Throws(c)
  BY <1>3 DEF Trim, Outcome
<1>4. CASE ~ Throws(c)
  <2>1. x \in 0 .. Len(objects) /\ y \in 0 .. Len(objects) /\ x # Null /\ y # Null
    BY <1>1, <1>2, <1>4, FirstOperands DEF Throws
  <2>2. Operand(objects[x], scene.solids) /\ Operand(objects[y], scene.solids)
    BY <2>1, ObjectIsOperand
  <2>3. PICK s : s = Trimmed(objects[x], objects[y], c.kind, NewId)
    OBVIOUS
  <2>4. Made(s)
    BY <2>2, <2>3, TrimmedIsSettled DEF Made
  <2>5. ReturnNew(s)
    BY <1>1, <1>4, <2>3 DEF Trim
  <2>6. ReturnsMade
    BY <2>4, <2>5 DEF ReturnsMade
  <2> QED
    BY <1>4, <2>6 DEF Outcome
<1> QED
  BY <1>3, <1>4

LEMMA CutReturns == ASSUME ShapesOK, NEW c \in Calls, Cut(c) PROVE Outcome(c)
<1>1. PICK x, y : x = Held(c.x) /\ y = Held(c.ys[1])
  OBVIOUS
<1>2. c.kind = "cut" /\ ~ Throws(c)
  BY OnlyTrimsThrow DEF Cut
<1>3. x \in 0 .. Len(objects) /\ y \in 0 .. Len(objects)
  BY <1>1, <1>2, FirstOperands
<1>4. CASE Null \in {x, y}
  <2>1. Return(Null) /\ Null \in 0 .. Len(objects)
    BY <1>1, <1>3, <1>4 DEF Cut
  <2> QED
    BY <1>2, <2>1 DEF ReturnsHeld, Outcome
<1>5. CASE Null \notin {x, y}
  <2>1. PICK a, b : a = objects[x] /\ b = objects[y]
    OBVIOUS
  <2>2. Operand(a, scene.solids) /\ Operand(b, scene.solids)
    BY <1>3, <1>5, <2>1, ObjectIsOperand
  <2>3. PICK t, u : t = Trimmed(a, b, "trim out", Temporary) /\ u = Trimmed(b, a, ToolTrim, Temporary)
    OBVIOUS
  <2>4. Operand(t, scene.solids) /\ Operand(u, scene.solids)
    BY <2>2, <2>3, TrimmedIsSettled, SettledIsOperand
  <2>5. PICK s : s = Merged(t, u, NewId)
    OBVIOUS
  <2>6. Made(s)
    BY <2>4, <2>5, MergedIsSettled DEF Made
  <2>7. ReturnNew(s)
    BY <1>1, <1>5, <2>1, <2>3, <2>5 DEF Cut
  <2>8. ReturnsMade
    BY <2>6, <2>7 DEF ReturnsMade
  <2> QED
    BY <1>2, <2>8 DEF Outcome
<1> QED
  BY <1>4, <1>5

LEMMA CommonReturns == ASSUME ShapesOK, NEW c \in Calls, BopCommon(c) PROVE Outcome(c)
<1>1. PICK x, y : x = Held(c.x) /\ y = Held(c.ys[1])
  OBVIOUS
<1>2. c.kind = "common" /\ ~ Throws(c)
  BY OnlyTrimsThrow DEF BopCommon
<1>3. x \in 0 .. Len(objects) /\ y \in 0 .. Len(objects)
  BY <1>1, <1>2, FirstOperands
<1>4. CASE Null \in {x, y}
  <2>1. Return(Null) /\ Null \in 0 .. Len(objects)
    BY <1>1, <1>3, <1>4 DEF BopCommon
  <2> QED
    BY <1>2, <2>1 DEF ReturnsHeld, Outcome
<1>5. CASE Null \notin {x, y}
  <2>1. PICK a, b : a = objects[x] /\ b = objects[y]
    OBVIOUS
  <2>2. Operand(a, scene.solids) /\ Operand(b, scene.solids)
    BY <1>3, <1>5, <2>1, ObjectIsOperand
  <2>3. PICK s : s = Common(a, b, NewId)
    OBVIOUS
  <2>4. Made(s)
    BY <2>2, <2>3, CommonIsSettled DEF Made
  <2>5. ReturnNew(s)
    BY <1>1, <1>5, <2>1, <2>3 DEF BopCommon
  <2>6. ReturnsMade
    BY <2>4, <2>5 DEF ReturnsMade
  <2> QED
    BY <1>2, <2>6 DEF Outcome
<1> QED
  BY <1>4, <1>5

LEMMA MergeReturns == ASSUME ShapesOK, NEW c \in Calls, Merge(c) PROVE Outcome(c)
<1>1. PICK x, y : x = Held(c.x) /\ y = Held(c.ys[1])
  OBVIOUS
<1>2. c.kind = "merge" /\ ~ Throws(c)
  BY OnlyTrimsThrow DEF Merge
<1>3. x \in 0 .. Len(objects) /\ y \in 0 .. Len(objects)
  BY <1>1, <1>2, FirstOperands
<1>4. CASE Null \in {x, y}
  <2>1. Return(x) \/ Return(y)
    BY <1>1, <1>4 DEF Merge
  <2> QED
    BY <1>2, <1>3, <2>1 DEF ReturnsHeld, Outcome
<1>5. CASE Null \notin {x, y}
  <2>1. PICK a, b : a = objects[x] /\ b = objects[y]
    OBVIOUS
  <2>2. Operand(a, scene.solids) /\ Operand(b, scene.solids)
    BY <1>3, <1>5, <2>1, ObjectIsOperand
  <2>3. PICK s : s = Merged(a, b, NewId)
    OBVIOUS
  <2>4. Made(s)
    BY <2>2, <2>3, MergedIsSettled DEF Made
  <2>5. ReturnNew(s)
    BY <1>1, <1>5, <2>1, <2>3 DEF Merge
  <2>6. ReturnsMade
    BY <2>4, <2>5 DEF ReturnsMade
  <2> QED
    BY <1>2, <2>6 DEF Outcome
<1> QED
  BY <1>4, <1>5

LEMMA FuseReturns == ASSUME ShapesOK, NEW c \in Calls, Fuse(c) PROVE Outcome(c)
<1>1. PICK x, children : x = Held(c.x) /\ children = Shapes(c.ys)
  OBVIOUS
<1>2. c.kind = "fuse" /\ ~ Throws(c)
  BY OnlyTrimsThrow DEF Fuse
<1>3. x \in 0 .. Len(objects) /\ AreOperands(children, scene.solids)
  BY <1>1, FirstOperands, ShapesAreOperands
<1>4. PICK s : Made(s) /\ ReturnNew(s)
  <2>1. CASE x = Null
    <3>1. PICK s : s = Fused(children, NewId)
      OBVIOUS
    <3>2. Made(s)
      BY <1>3, <3>1, FusedIsSettled DEF Made
    <3>3. ReturnNew(s)
      BY <1>1, <2>1, <3>1 DEF Fuse
    <3> QED
      BY <3>2, <3>3
  <2>2. CASE x # Null
    <3>1. PICK parent : parent = objects[x] /\ Operand(parent, scene.solids)
      BY <1>3, <2>2, ObjectIsOperand
    <3>2. PICK left : left = ParentTrims(parent, children)
      OBVIOUS
    <3>3. PICK parts : parts = Append(ChildTrims(parent, children, left), left[Len(children)])
      OBVIOUS
    <3>4. AreOperands(parts, scene.solids)
      BY <1>3, <3>1, <3>2, <3>3, PartsAreOperands
    <3>5. PICK s : s = Fused(parts, NewId)
      OBVIOUS
    <3>6. Made(s)
      BY <3>4, <3>5, FusedIsSettled DEF Made
    <3>7. ReturnNew(s)
      BY <1>1, <2>2, <3>1, <3>2, <3>3, <3>5 DEF Fuse
    <3> QED
      BY <3>6, <3>7
  <2> QED
    BY <2>1, <2>2
<1> QED
  BY <1>2, <1>4 DEF Outcome, ReturnsMade

LEMMA GroupReturns == ASSUME ShapesOK, NEW c \in Calls, Group(c) PROVE Outcome(c)
<1>1. c.kind = "group" /\ ~ Throws(c)
  BY OnlyTrimsThrow DEF Group
<1>2. c.ys \in Seq(0 .. Len(held))
  BY FirstOperands
<1>3. CASE Len(c.ys) = 1
  <2>1. Held(c.ys[1]) \in 0 .. Len(objects)
    BY <1>2, <1>3, FirstOperands
  <2> QED
    BY <1>1, <1>3, <2>1 DEF Group, ReturnsHeld, Outcome
<1>4. CASE Len(c.ys) # 1
  <2>1. PICK members : members = Shapes(c.ys) /\ AreOperands(members, scene.solids)
    BY <1>2, ShapesAreOperands
  <2>2. PICK s : s = Grouped(members, NewId)
    OBVIOUS
  <2>3. Made(s)
    BY <2>1, <2>2, GroupedIsSettled DEF Made
  <2>4. ReturnNew(s)
    BY <1>4, <2>1, <2>2 DEF Group
  <2> QED
    BY <1>1, <2>3, <2>4 DEF Outcome, ReturnsMade
<1> QED
  BY <1>3, <1>4

\* A new object is held, and the others stay what they are.
LEMMA NewObjectOK ==
  ASSUME ShapesOK, NEW s, Made(s), ReturnNew(s)
  PROVE  ObjectsOK(objects', scene.solids) /\ HeldOK(held', Len(scene.solids) + Len(done) + 1, Len(objects'))
<1>1. PICK N \in Nat : N = Len(objects)
  BY DEF ShapesOK, ObjectsOK
<1>2. objects \in Seq(ToSet(objects)) /\ Len(scene.solids) \in Nat /\ N >= Len(scene.solids) /\ Len(done) \in Nat
  BY <1>1, SceneOK DEF ShapesOK, ObjectsOK, DoneOK
<1>3. objects' = Append(objects, s) /\ held' = Append(held, N + 1)
  BY <1>1 DEF ReturnNew
<1> DEFINE E == ToSet(objects) \cup {s}
<1>4. PICK os : os = objects'
  OBVIOUS
<1>5. os \in Seq(E) /\ Len(os) = N + 1 /\ os[N + 1] = s /\ \A k \in 1 .. N : os[k] = objects[k]
  BY <1>1, <1>2, <1>3, <1>4
<1> HIDE DEF E
<1>6. os \in Seq(ToSet(os))
  BY <1>5, SequenceOfItsOwn
<1>7. ASSUME NEW k \in 1 .. N + 1
      PROVE  /\ os[k].id = <<"object", k>> /\ Operand(os[k], scene.solids)
             /\ k > Len(scene.solids) => Settled(os[k], scene.solids)
  <2>1. CASE k = N + 1
    <3>1. Settled(s, scene.solids) /\ s.id = <<"object", N + 1>>
      BY <1>1 DEF Made, NewId
    <3>2. Operand(s, scene.solids)
      BY <3>1, SettledIsOperand
    <3> QED
      BY <1>5, <2>1, <3>1, <3>2
  <2>2. CASE k \in 1 .. N
    BY <1>1, <1>5, <2>2 DEF ShapesOK, ObjectsOK
  <2> QED
    BY <2>1, <2>2
<1>8. ObjectsOK(os, scene.solids)
  BY <1>2, <1>5, <1>6, <1>7 DEF ObjectsOK
<1>9. held \in Seq(0 .. N) /\ Len(held) = Len(scene.solids) + Len(done)
  BY <1>1 DEF ShapesOK, HeldOK
<1>10. held' \in Seq(0 .. N + 1) /\ Len(held') = Len(scene.solids) + Len(done) + 1
  <2>1. held \in Seq(0 .. N + 1) /\ N + 1 \in 0 .. N + 1
    <3>1. 0 .. N \subseteq 0 .. N + 1
      OBVIOUS
    <3> QED
      BY <1>9, <3>1
  <2>2. PICK e, hs : e = N + 1 /\ hs = held'
    OBVIOUS
  <2>3. hs = Append(held, e) /\ e \in 0 .. N + 1
    BY <1>3, <2>1, <2>2
  <2>4. hs \in Seq(0 .. N + 1) /\ Len(hs) = Len(held) + 1
    BY <2>1, <2>3
  <2> QED
    BY <1>9, <2>2, <2>4
<1>11. Len(objects') = N + 1
  BY <1>4, <1>5
<1> QED
  BY <1>4, <1>8, <1>10, <1>11 DEF HeldOK

LEMMA HeldObjectOK ==
  ASSUME ShapesOK, ReturnsHeld
  PROVE  ObjectsOK(objects', scene.solids) /\ HeldOK(held', Len(scene.solids) + Len(done) + 1, Len(objects'))
<1>1. PICK p \in 0 .. Len(objects) : held' = Append(held, p) /\ objects' = objects
  BY DEF ReturnsHeld, Return
<1>2. held \in Seq(0 .. Len(objects)) /\ Len(held) = Len(scene.solids) + Len(done)
  BY DEF ShapesOK, HeldOK
<1>3. held' \in Seq(0 .. Len(objects)) /\ Len(held') = Len(held) + 1
  BY <1>1, <1>2
<1> QED
  BY <1>1, <1>2, <1>3 DEF ShapesOK, HeldOK

\* The step of a call.
CallStep(c) ==
  /\ Trim(c) \/ Cut(c) \/ BopCommon(c) \/ Merge(c) \/ Fuse(c) \/ Group(c)
  /\ done' = IF Throws(c) THEN done ELSE Append(done, c)
  /\ ended' = Throws(c)
  /\ UNCHANGED scene

LEMMA CallKeepsShapes == ASSUME ShapesOK, NEW c \in Calls, CallStep(c) PROVE ShapesOK'
<1>1. Outcome(c)
  BY TrimReturns, CutReturns, CommonReturns, MergeReturns, FuseReturns, GroupReturns DEF CallStep
<1>2. scene' = scene
  BY DEF CallStep
<1>3. CASE Throws(c) /\ UNCHANGED <<objects, held>>
  <2>1. done' = done
    BY <1>3 DEF CallStep
  <2> QED
    BY <1>2, <1>3, <2>1 DEF ShapesOK
<1>4. CASE ~ Throws(c) /\ (ReturnsHeld \/ ReturnsMade)
  <2>1. done' = Append(done, c)
    BY <1>4 DEF CallStep
  <2>2. ObjectsOK(objects', scene.solids) /\ HeldOK(held', Len(scene.solids) + Len(done) + 1, Len(objects'))
    BY <1>4, HeldObjectOK, NewObjectOK DEF ReturnsMade
  <2>3. done \in Seq(ToSet(done)) /\ Len(done) < Len(scene.calls) /\ Len(scene.calls) \in Nat /\ Len(scene.solids) \in Nat
    BY CallIsLegal, SceneOK DEF ShapesOK, DoneOK
  <2>4. PICK ds : ds = Append(done, c)
    OBVIOUS
  <2> DEFINE E == ToSet(done) \cup {c}
  <2>5. ds \in Seq(E) /\ Len(ds) = Len(done) + 1
    BY <2>3, <2>4
  <2> HIDE DEF E
  <2>6. DoneOK(ds, scene)
    BY <2>3, <2>5, SequenceOfItsOwn DEF DoneOK
  <2>7. Len(scene.solids) + Len(done) + 1 = Len(scene.solids) + Len(ds)
    <3>1. PICK m \in Nat : m = Len(scene.solids)
      BY <2>3
    <3>2. PICK n \in Nat : n = Len(done) /\ Len(ds) = n + 1
      BY <2>3, <2>5
    <3>3. m + n + 1 = m + (n + 1)
      OBVIOUS
    <3> QED
      BY <3>1, <3>2, <3>3, Zenon
  <2>8. done' = ds /\ HeldOK(held', Len(scene.solids) + Len(ds), Len(objects'))
    BY <2>1, <2>2, <2>4, <2>7, Zenon
  <2>9. scene \in Scenes
    BY DEF ShapesOK
  <2> QED
    BY <1>2, <2>2, <2>6, <2>8, <2>9, Zenon DEF ShapesOK
<1> QED
  BY <1>1, <1>3, <1>4 DEF Outcome

LEMMA NextKeepsShapes == ShapesOK /\ [Next]_vars => ShapesOK'
<1> SUFFICES ASSUME ShapesOK, [Next]_vars PROVE ShapesOK'
  OBVIOUS
<1>1. CASE UNCHANGED vars
  BY <1>1 DEF ShapesOK, vars
<1>2. ASSUME NEW c \in Calls, CallStep(c) PROVE ShapesOK'
  BY <1>2, CallKeepsShapes
<1>3. CASE Finished
  BY <1>3 DEF ShapesOK, Finished, vars
<1> QED
  BY <1>1, <1>2, <1>3 DEF Next, CallStep

LEMMA ShapesOKHolds == Spec => []ShapesOK
BY ShapesInit, NextKeepsShapes, PTL DEF Spec

LEMMA ShapesOKIsEnough == ShapesOK => TraitsFollowFaces
<1> SUFFICES ASSUME ShapesOK,
                    NEW s \in ToSet(objects), s.id[2] > Len(scene.solids), NEW i \in DOMAIN s.shape
             PROVE  \E n \in DOMAIN scene.solids :
                      /\ s.traits[i].name = Name(n)
                      /\ s.traits[i].origin \in {<<"object", n>>, <<"copy", n>>}
                      /\ \E f \in ToSet(Solid(n).shape) : s.shape[i].walls \subseteq f.walls
  BY DEF TraitsFollowFaces
<1>1. PICK k \in 1 .. Len(objects) : s = objects[k]
  BY DEF ShapesOK, ObjectsOK, ToSet
<1>2. s.id = <<"object", k>> /\ (k > Len(scene.solids) => Settled(s, scene.solids))
  BY <1>1 DEF ShapesOK, ObjectsOK
<1>3. s.id[2] = k
  BY <1>2
<1>4. Marked(s.traits[i], s.shape[i].walls, scene.solids)
  BY <1>2, <1>3 DEF Settled, MarkedAt
<1>5. PICK n \in DOMAIN scene.solids :
        /\ s.traits[i].name = Name(n) /\ s.traits[i].origin \in Ids(n)
        /\ PartOf(s.shape[i].walls, n, scene.solids)
  BY <1>4 DEF Marked
<1>6. Solid(n).shape = Sides(Name(n), scene.solids[n])
  BY SolidIsOperand
<1> QED
  BY <1>5, <1>6 DEF Ids, PartOf

\* Whatever is trimmed, cut, merged, fused or grouped, and however often: each
\* face of a result carries the name of the solid it is a part of, and this
\* solid or a copy of it as its origin.
THEOREM FacesKeepTheirTraits == Spec => []TraitsFollowFaces
BY ShapesOKHolds, ShapesOKIsEnough, PTL

=============================================================================
