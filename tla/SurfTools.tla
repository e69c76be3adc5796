------------------------------ MODULE SurfTools ------------------------------
(***************************************************************************)
(* SurfTools (contrib): surfaces that have a common boundary are made one, *)
(* one after the other, and the result is smoothed by removing knots and,  *)
(* where that changes the shape too much, by inserting others.             *)
(*                                                                         *)
(* A surface has knots and a degree in each direction, and a Bezier patch  *)
(* for each pair of knot intervals.  Of a patch its four corners are kept, *)
(* points of the plane: that says where its edges and theirs middles are.  *)
(* Curves and tolerances are left out: points are equal or not.            *)
(***************************************************************************)
EXTENDS Integers, Sequences, FiniteSets, SequencesExt, FiniteSetsExt

CONSTANTS Inputs,       \* the sequences of surfaces a caller may give
          Iterations,   \* the rounds of smoothing, 10 in the code
          KnotGap       \* knots to insert are further apart, 0.001 in the code

\* What the constructor of Geom_BSplineSurface asks for, as far as it is kept here.
IsBSpline(s) ==
  /\ DOMAIN s = {"knots", "degree", "patch"}
  /\ s.degree \in [{"u", "v"} -> Nat \ {0}]
  /\ s.knots \in [{"u", "v"} -> Seq([at : Int, mult : Nat \ {0}])]
  /\ Len(s.knots["u"]) >= 2 /\ Len(s.knots["v"]) >= 2

NotABSpline == [surface |-> "plane"]
None == [surface |-> "null"]

ASSUME SurfToolsAssumption ==
  /\ Iterations \in Nat /\ KnotGap \in Nat
  /\ \A ss \in Inputs :
       /\ Len(ss) \in Nat \ {0, 1}     \* of one surface alone nothing is made
       /\ \A i \in 1 .. Len(ss) : ss[i] = NotABSpline \/ IsBSpline(ss[i])

VARIABLES surfaces,     \* what the caller gives
          made,         \* theS
          next,         \* the place of the surface to append next
          step,           \* "join", or what is smoothed, or "done"
          cont, iter,   \* of the smoothing: what is asked for, the round
          err           \* what ConcatenateSurfaces returns

joinVars == <<surfaces, made, next, step, cont, iter, err>>

-----------------------------------------------------------------------------
\* A place in a patch, or the index of one, is a pair: one for u, one for v.
Dirs == {"u", "v"}
Other(d) == IF d = "u" THEN "v" ELSE "u"
Place(d) == IF d = "u" THEN 1 ELSE 2
Sides == {0, 1} \X {0, 1}

Size(s, d) == Len(s.knots[d]) - 1
Begin(s, d) == s.knots[d][1].at
End(s, d) == s.knots[d][Size(s, d) + 1].at

PatchIndices(knots) == (1 .. Len(knots["u"]) - 1) \X (1 .. Len(knots["v"]) - 1)

Reversed(s, d) ==
  LET k == s.knots[d] IN
  [s EXCEPT !.knots[d] = [i \in DOMAIN k |-> [at   |-> Begin(s, d) + End(s, d) - k[Len(k) + 1 - i].at,
                                              mult |-> k[Len(k) + 1 - i].mult]],
            !.patch = [ij \in PatchIndices(s.knots) |-> [ab \in Sides |->
               s.patch[[ij EXCEPT ![Place(d)] = Size(s, d) + 1 - @]][[ab EXCEPT ![Place(d)] = 1 - @]]]]]

ExchangedUV(s) ==
  [knots  |-> [u |-> s.knots["v"], v |-> s.knots["u"]],
   degree |-> [u |-> s.degree["v"], v |-> s.degree["u"]],
   patch  |-> [ij \in (1 .. Size(s, "v")) \X (1 .. Size(s, "u")) |->
                 [ab \in Sides |-> s.patch[<<ij[2], ij[1]>>][<<ab[2], ab[1]>>]]]]

\* The corners aP[0] to aP[3], round the surface.
AtCorner == [k \in 0 .. 3 |-> <<IF k \in {1, 2} THEN 1 ELSE 0, k \div 2>>]

CornerAt(s, ab) ==
  s.patch[<<IF ab[1] = 0 THEN 1 ELSE Size(s, "u"), IF ab[2] = 0 THEN 1 ELSE Size(s, "v")>>][ab]

Corner(s, k) == CornerAt(s, AtCorner[k])

Between(p, q, a, t, b) == [c \in 1 .. 2 |-> p[c] + ((q[c] - p[c]) * (t - a)) \div (b - a)]

\* The interval that t is in, the last one for its end and what is behind it.
Interval(s, d, t) == Max({1} \cup {i \in 1 .. Size(s, d) : s.knots[d][i].at <= t})

\* The point at parameter t of the edge in direction d at one side of the other.
OnEdge(s, d, side, t) ==
  LET i    == Interval(s, d, t)
      j    == IF side = 0 THEN 1 ELSE Size(s, Other(d))
      q    == s.patch[IF d = "u" THEN <<i, j>> ELSE <<j, i>>]
      P(a) == q[IF d = "u" THEN <<a, side>> ELSE <<side, a>>]
  IN  Between(P(0), P(1), s.knots[d][i].at, t, s.knots[d][i + 1].at)

\* The middles of the edges, in the order in which they are compared.
Middle(s, k) ==
  LET d == IF k \in {0, 2} THEN "u" ELSE "v" IN
  OnEdge(s, d, IF k \in {1, 2} THEN 1 ELSE 0, (Begin(s, d) + End(s, d)) \div 2)

-----------------------------------------------------------------------------
\* What OpenCASCADE does with knots.
SetKnots(s, d, at) ==
  LET k == s.knots[d] IN
  [s EXCEPT !.knots[d] = [i \in DOMAIN k |-> [at |-> at[i], mult |-> k[i].mult]]]

Reparametrize(s, d, first, last) ==
  LET k == s.knots[d] IN
  SetKnots(s, d, [i \in DOMAIN k |->
    first + ((k[i].at - Begin(s, d)) * (last - first)) \div (End(s, d) - Begin(s, d))])

SetMults(s, d, mult) ==
  LET k == s.knots[d] IN
  [s EXCEPT !.knots[d] = [i \in DOMAIN k |-> [at |-> k[i].at, mult |-> mult[i]]]]

InsertKnot(s, d, knot) ==
  LET k == s.knots[d] IN
  IF \E i \in DOMAIN k : k[i].at = knot.at
  THEN [s EXCEPT !.knots[d] = [i \in DOMAIN k |->
          IF k[i].at = knot.at /\ k[i].mult < knot.mult THEN knot ELSE k[i]]]
  ELSE LET n      == Interval(s, d, knot.at)
           before == <<k[n].at, knot.at, k[n + 1].at>>
           knots  == [s.knots EXCEPT ![d] = InsertAt(k, n + 1, knot)]
           Cut(q, a, ab) ==   \* the corner of the part before or behind the knot
             IF ab[Place(d)] = a THEN q[ab]
             ELSE Between(q[[ab EXCEPT ![Place(d)] = 0]], q[[ab EXCEPT ![Place(d)] = 1]],
                          before[1], before[2], before[3])
           Part(i, q) == IF i \in {n, n + 1} THEN [ab \in Sides |-> Cut(q, i - n, ab)] ELSE q
       IN  [s EXCEPT !.knots = knots,
                     !.patch = [ij \in PatchIndices(knots) |->
                        Part(ij[Place(d)], s.patch[[ij EXCEPT ![Place(d)] = IF @ > n THEN @ - 1 ELSE @]])]]

\* One knot after the other.
InsertKnots(s, d, knots) ==
  LET with[n \in 0 .. Len(knots)] == IF n = 0 THEN s ELSE InsertKnot(with[n - 1], d, knots[n])
  IN  with[Len(knots)]

IncreaseDegree(s, d, degree) ==
  LET k == s.knots[d] IN
  IF degree <= s.degree[d] THEN s
  ELSE SetMults([s EXCEPT !.degree[d] = degree], d,
                [i \in DOMAIN k |-> k[i].mult + degree - s.degree[d]])

Continuity(s, d) ==
  LET k == s.knots[d] IN
  IF Len(k) = 2 THEN 2 ELSE s.degree[d] - Max({k[i].mult : i \in 2 .. Len(k) - 1})

-----------------------------------------------------------------------------
\* ConcatenateSurfacesU, d = "u", and ConcatenateSurfacesV, d = "v": the second
\* surface is put behind the first in the other direction.
\* Slip: three common corners.
TouchAlong(s, t) ==
  Cardinality({ij \in (0 .. 3) \X (0 .. 3) : Corner(s, ij[1]) = Corner(t, ij[2])}) > 2

Touch(s, t) == Cardinality({ij \in (0 .. 3) \X (0 .. 3) : Corner(s, ij[1]) = Corner(t, ij[2])}) >= 2

IsCornerOf(p, s) == \E i \in 0 .. 3 : Corner(s, i) = p

FarCorner == [u |-> 3, v |-> 2]          \* of the second, behind the joint
Twist == [u |-> <<3, 1>>, v |-> <<2, 0>>]  \* corners that meet if it runs the other way

\* Slip: the corners of the first surface as they were before it was turned.
TurnedByOldCorners(s, t, d) ==
  LET e  == Other(d)
      s1 == IF IsCornerOf(Corner(s, 0), t) THEN Reversed(s, e) ELSE s
      t1 == IF IsCornerOf(Corner(t, FarCorner[d]), s) THEN Reversed(t, e) ELSE t
      t2 == IF Corner(s, Twist[d][1]) = Corner(t1, Twist[d][2]) THEN Reversed(t1, d) ELSE t1
  IN  <<s1, t2>>

Turned(s, t, d) ==
  LET e  == Other(d)
      s1 == IF IsCornerOf(Corner(s, 0), t) THEN Reversed(s, e) ELSE s
      t1 == IF IsCornerOf(Corner(t, FarCorner[d]), s1) THEN Reversed(t, e) ELSE t
      t2 == IF Corner(s1, Twist[d][1]) = Corner(t1, Twist[d][2]) THEN Reversed(t1, d) ELSE t1
  IN  <<s1, t2>>

CommonKnots(p, d) ==
  LET deg == Max({p[1].degree[d], p[2].degree[d]})
      s   == IncreaseDegree(p[1], d, deg)
      t   == IncreaseDegree(p[2], d, deg)
      mid == [i \in DOMAIN s.knots[d] |-> (s.knots[d][i].at + t.knots[d][i].at) \div 2]
      t1  == Reparametrize(t, d, Begin(s, d), End(s, d))
      s1  == InsertKnots(s, d, t1.knots[d])
  IN  IF Size(s, d) = Size(t, d) THEN <<SetKnots(s, d, mid), SetKnots(t, d, mid)>>
      ELSE <<s1, InsertKnots(t1, d, s1.knots[d])>>

\* GeomConvert_CompBezierSurfacesToBSplineSurface: the knots are as far from one
\* another as the corners of the first patches, and as smooth as one finds.
Apart(p, q) == Max({p[1] - q[1], q[1] - p[1]}) + Max({p[2] - q[2], q[2] - p[2]})

Composed(patch, nu, nv, degree, smooth) ==
  LET n == [u |-> nu, v |-> nv]
      Width(d, i) == LET q == patch[IF d = "u" THEN <<i, 1>> ELSE <<1, i>>] IN
                     Apart(q[<<0, 0>>], q[IF d = "u" THEN <<1, 0>> ELSE <<0, 1>>])
      Knot(d, i) == [at |-> MapThenSumSet(LAMBDA j : Width(d, j), 1 .. i),
                     mult |-> IF i \in {0, n[d]} THEN degree[d] + 1 ELSE IF smooth THEN 1 ELSE degree[d]]
      Knots(d) == [i \in 1 .. n[d] + 1 |-> Knot(d, i - 1)]
  IN  [knots |-> [u |-> Knots("u"), v |-> Knots("v")],
       degree |-> degree, patch |-> patch]

\* The patches of two surfaces, those of the second behind those of the first.
Together(p, d, smooth) ==
  LET e      == Other(d)
      n1     == Size(p[1], e)
      n      == [x \in Dirs |-> IF x = d THEN Size(p[1], d) ELSE n1 + Size(p[2], e)]
      patch  == [ij \in (1 .. n["u"]) \X (1 .. n["v"]) |->
                   IF ij[Place(e)] <= n1 THEN p[1].patch[ij]
                   ELSE p[2].patch[[ij EXCEPT ![Place(e)] = @ - n1]]]
      degree == [u |-> Max({p[1].degree["u"], p[2].degree["u"]}),
                 v |-> Max({p[1].degree["v"], p[2].degree["v"]})]
  IN  Composed(patch, n["u"], n["v"], degree, smooth)

\* In the range of the first surface, which has n patches, as far as that goes.
InRangeOf(s, n, all, d) ==
  LET e    == Other(d)
      last == Begin(s, e) + ((End(s, e) - Begin(s, e)) * (End(all, e) - Begin(all, e)))
                               \div (all.knots[e][n + 1].at - Begin(all, e))
  IN  Reparametrize(Reparametrize(all, d, Begin(s, d), End(s, d)), e, Begin(s, e), last)

\* <<the joined surface, the continuity both had>>
Joined(s, t, d, smooth) ==
  LET turned == Turned(s, t, d)
      common == CommonKnots(turned, d)
  IN  <<InRangeOf(s, Size(common[1], Other(d)), Together(common, d, smooth), d),
        Min({Continuity(turned[1], d), Continuity(turned[2], d)})>>

\* ConcatenateSurfaces of two: the first pair of edges with the same middle.
EqualMiddles(s, t) == {ij \in (0 .. 3) \X (0 .. 3) : Middle(s, ij[1]) = Middle(t, ij[2])}

Direction(i) == IF i \in {0, 2} THEN "u" ELSE "v"

FirstOf(pairs) ==
  CHOOSE p \in pairs : \A q \in pairs : p[1] < q[1] \/ (p[1] = q[1] /\ p[2] <= q[2])

ExchangedFor(t, p) == IF Direction(p[1]) # Direction(p[2]) THEN ExchangedUV(t) ELSE t

-----------------------------------------------------------------------------
JoinInit ==
  /\ surfaces \in Inputs
  /\ made = IF surfaces[1] = NotABSpline THEN None ELSE surfaces[1]
  /\ next = 2 /\ step = "join" /\ cont = 0 /\ iter = 1 /\ err = 0

Return(e) ==
  /\ err' = e /\ step' = "done"
  /\ UNCHANGED <<surfaces, made, next, cont, iter>>

\* A surface that is no B-spline, or has no edge with the first, ends it all.
CannotJoin ==
  /\ step = "join" /\ next <= Len(surfaces)
  /\ \/ made = None
     \/ surfaces[next] = NotABSpline
     \/ LET t == surfaces[next] IN
        /\ made # None /\ t # NotABSpline
        /\ \/ EqualMiddles(made, t) = {}
           \/ ~Touch(made, ExchangedFor(t, FirstOf(EqualMiddles(made, t))))
  /\ Return(1)

Smooth(d, c) == step' = d /\ cont' = c /\ iter' = 1

Make(joined, d) ==
  /\ made' = joined[1]
  /\ IF Continuity(joined[1], d) < joined[2] THEN Smooth(d, joined[2])
     ELSE UNCHANGED <<step, cont, iter>>

JoinAlong(t, d) ==
  /\ Touch(made, t)
  /\ \E smooth \in BOOLEAN : Make(Joined(made, t, d, smooth), d)

JoinAt(p) == JoinAlong(ExchangedFor(surfaces[next], p), Direction(p[1]))

Join ==
  /\ step = "join" /\ next <= Len(surfaces)
  /\ made # None /\ surfaces[next] # NotABSpline
  /\ EqualMiddles(made, surfaces[next]) # {}
  /\ JoinAt(FirstOf(EqualMiddles(made, surfaces[next])))
  /\ next' = next + 1
  /\ UNCHANGED <<surfaces, err>>

\* Behind the last surface the result is made C2, first along u, then along v.
FinalContinuity == 2

SmoothAll ==
  /\ step = "join" /\ next \in Len(surfaces) + 1 .. Len(surfaces) + 2
  /\ LET d == IF next = Len(surfaces) + 1 THEN "u" ELSE "v" IN
     IF Continuity(made, d) < FinalContinuity THEN Smooth(d, FinalContinuity)
     ELSE UNCHANGED <<step, cont, iter>>
  /\ next' = next + 1
  /\ UNCHANGED <<surfaces, made, err>>

Finish == step = "join" /\ next > Len(surfaces) + 2 /\ Return(err)

-----------------------------------------------------------------------------
\* USmoothing and VSmoothing, a round at a time: of the knots that are of too
\* high a multiplicity some can be removed down to it, about the others new
\* ones are inserted; behind the last round all are removed.
\* Slip: the last inner knot is left out.
TooHighButLast(s, d, m) == {i \in 2 .. Size(s, d) - 1 : s.knots[d][i].mult > m}

TooHigh(s, d, m) == {i \in 2 .. Size(s, d) : s.knots[d][i].mult > m}

KnotsAbout(s, d, failed) ==
  LET k == s.knots[d]
      With(l, at) == IF Max({at - l[Len(l)], l[Len(l)] - at}) > KnotGap THEN Append(l, at) ELSE l
      about[i \in 1 .. Size(s, d)] ==
        IF i = 1 THEN <<k[1].at>>
        ELSE IF i \in failed
             THEN With(With(about[i - 1], (k[i].at + k[i - 1].at) \div 2), (k[i + 1].at + k[i].at) \div 2)
             ELSE about[i - 1]
  IN  about[Size(s, d)]

SmoothingRound ==
  /\ step \in Dirs
  /\ LET m       == made.degree[step] - cont
         high    == TooHigh(made, step, m)
         Without(failed) == SetMults(made, step,
           [i \in DOMAIN made.knots[step] |-> IF i \in high \ failed THEN m ELSE made.knots[step][i].mult])
     IN  IF m < 1 THEN step' = "join" /\ UNCHANGED <<made, iter>>
         ELSE \E failed \in SUBSET (IF iter > Iterations THEN {} ELSE high) :
                LET left == Without(failed)
                    at   == KnotsAbout(made, step, failed)
                IN  IF failed = {} THEN step' = "join" /\ made' = left /\ UNCHANGED iter
                    ELSE /\ made' = InsertKnots(left, step,
                                      [i \in 1 .. Len(at) - 1 |-> [at |-> at[i + 1], mult |-> m]])
                         /\ iter' = iter + 1 /\ UNCHANGED step
  /\ UNCHANGED <<surfaces, next, cont, err>>

JoinNext == Join \/ CannotJoin \/ SmoothAll \/ Finish \/ SmoothingRound

JoinSpec == JoinInit /\ [][JoinNext]_joinVars

-----------------------------------------------------------------------------
\* Where two patches are neighbours they have an edge in common, in the same
\* direction: however the surfaces lie, the right boundaries are put together
\* and neither is twisted.
JoinedSurfacesMeet ==
  made # None =>
    \A d \in Dirs : \A ij \in DOMAIN made.patch : ij[Place(d)] < Size(made, d) =>
      LET q == made.patch[ij]
          r == made.patch[[ij EXCEPT ![Place(d)] = @ + 1]]
      IN  \A ab \in Sides : ab[Place(d)] = 1 => q[ab] = r[[ab EXCEPT ![Place(d)] = 0]]

\* "returns 0 if the concatenation has been done successfully": it returns 0 for
\* all B-splines that have a boundary in common with those before, and then the
\* result is as large as all of them.
Area(s) == MapThenSumSet(LAMBDA ij : Apart(s.patch[ij][<<0, 0>>], s.patch[ij][<<1, 0>>])
                                     * Apart(s.patch[ij][<<0, 0>>], s.patch[ij][<<0, 1>>]),
                         DOMAIN s.patch)

StripsAreJoined ==
  step = "done" =>
    /\ err = 0 <=> \A i \in DOMAIN surfaces : surfaces[i] # NotABSpline
    /\ err = 0 => Area(made) = MapThenSumSet(LAMBDA i : Area(surfaces[i]), DOMAIN surfaces)

\* "theCont the value of continuity required": whichever knots cannot be removed,
\* the joined surface is C2 in the end wherever its degree lets it.
SmoothAtLast ==
  step = "done" /\ err = 0 =>
    \A d \in Dirs : made.degree[d] > FinalContinuity => Continuity(made, d) >= FinalContinuity
=============================================================================
