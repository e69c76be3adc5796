------------------------------- MODULE Splines -------------------------------
(***************************************************************************)
(* What the algorithms on B-splines (geometry/BSplineAlgorithms) do with   *)
(* degrees, knots and multiplicities.  Control points are left out: where  *)
(* a spline goes is kept as the set "at" of the points it is known to pass *)
(* through, each with its parameter.  Parameters are whole numbers, the    *)
(* tolerances of 1e-10 and less are zero.                                  *)
(***************************************************************************)
EXTENDS Integers, Sequences, SequencesExt

Abs(x) == IF x < 0 THEN -x ELSE x
Sum(s) ==
  LET total[n \in 0 .. Len(s)] == IF n = 0 THEN 0 ELSE total[n - 1] + s[n]
  IN  total[Len(s)]
Ascending(s) == \A i \in 1 .. Len(s) - 1 : s[i] < s[i + 1]
Inner(s) == SubSeq(s, 2, Len(s) - 1)

(***************************************************************************)
(* Geom_BSplineCurve: one direction of a surface is a spline as well.      *)
(***************************************************************************)
FirstParameter(s) == Head(s.knots)
LastParameter(s)  == Last(s.knots)
NbPoles(s) == Sum(s.mults) - s.degree - 1

\* What its constructor asks of its arguments, for nPoles control points.
IsSplineOf(s, nPoles) ==
  /\ s.degree >= 1
  /\ Len(s.knots) = Len(s.mults) /\ Len(s.knots) >= 2
  /\ Ascending(s.knots)
  /\ \A i \in DOMAIN s.mults : s.mults[i] >= 1
  /\ \A i \in 2 .. Len(s.mults) - 1 : s.mults[i] <= s.degree
  /\ Head(s.mults) <= s.degree + 1 /\ Last(s.mults) <= s.degree + 1
  /\ nPoles >= 2 /\ nPoles = NbPoles(s)

IsSpline(s) == IsSplineOf(s, NbPoles(s))

\* The points in the order of their parameters.
Sorted(S) ==
  [i \in 1 .. Cardinality(S) |-> CHOOSE x \in S : Cardinality({y \in S : y < x}) = i - 1]
Params(s) == Sorted({a[2] : a \in s.at})
Points(s) == [i \in DOMAIN Params(s) |-> (CHOOSE a \in s.at : a[2] = Params(s)[i])[1]]
PointAt(s, u) == {a[1] : a \in {b \in s.at : b[2] = u}}

IncreaseDegree(s, degree) ==
  IF degree <= s.degree THEN s
  ELSE [s EXCEPT !.degree = degree,
                 !.mults = [i \in DOMAIN @ |-> @[i] + degree - s.degree]]

\* InsertKnot, with Add = false: a knot within the tolerance is the same knot,
\* and gets the greater of the two multiplicities.  Tolerances are doubled.
InsertKnot(s, u, mult, tol2) ==
  LET near == {i \in DOMAIN s.knots : 2 * Abs(s.knots[i] - u) <= tol2}
      m == Min({mult, s.degree})
  IN  IF near # {}
        THEN LET i == CHOOSE x \in near :
                        \A y \in near : Abs(s.knots[x] - u) <= Abs(s.knots[y] - u)
             IN  [s EXCEPT !.mults[i] = Max({@, m})]
        ELSE LET pos == Cardinality({i \in DOMAIN s.knots : s.knots[i] < u}) + 1
             IN  [s EXCEPT !.knots = InsertAt(@, pos, u), !.mults = InsertAt(@, pos, m)]

\* Segment
Segment(s, umin, umax) ==
  LET inside == SelectSeq(Zip(s.knots, s.mults), LAMBDA k : umin < k[1] /\ k[1] < umax)
      full == s.degree + 1
  IN  [s EXCEPT !.knots = <<umin>> \o [i \in DOMAIN inside |-> inside[i][1]] \o <<umax>>,
                !.mults = <<full>> \o [i \in DOMAIN inside |-> inside[i][2]] \o <<full>>,
                !.at = {a \in @ : umin <= a[2] /\ a[2] <= umax}]

(***************************************************************************)
(* reparametrizeBSpline                                                    *)
(***************************************************************************)
Rescaled(x, s, umin, umax) ==
  umin + ((x - FirstParameter(s)) * (umax - umin)) \div (LastParameter(s) - FirstParameter(s))

reparametrizeBSpline(s, umin, umax, tol) ==
  IF /\ Abs(FirstParameter(s) - umin) <= tol
     /\ Abs(LastParameter(s) - umax) <= tol
    THEN s
    ELSE [s EXCEPT !.knots = [i \in DOMAIN @ |-> Rescaled(@[i], s, umin, umax)],
                   !.at = {<<a[1], Rescaled(a[2], s, umin, umax)>> : a \in @}]

(***************************************************************************)
(* makeGeometryCompatibleImpl: the knots of all go into the first, and     *)
(* from there into the others.                                             *)
(***************************************************************************)
haveSameRange(ss, tol) ==
  \A i \in DOMAIN ss :
    /\ Abs(FirstParameter(ss[i]) - FirstParameter(ss[1])) <= tol
    /\ Abs(LastParameter(ss[i]) - LastParameter(ss[1])) <= tol

haveSameDegree(ss) == \A i \in DOMAIN ss : ss[i].degree = ss[1].degree

\* "The parametric tolerance must be smaller than half of the minimum knot distance"
KnotTol2(ss, tol) ==
  Min({2 * tol} \cup
      UNION {{ss[i].knots[k + 1] - ss[i].knots[k] : k \in 1 .. Len(ss[i].knots) - 1} :
               i \in DOMAIN ss})

InsertKnotsOf(from, into, tol2) ==
  FoldLeft(LAMBDA s, k : InsertKnot(s, k[1], k[2], tol2), into,
           Zip(Inner(from.knots), Inner(from.mults)))

\* Slip: the knots of the last spline go nowhere.
WithKnotsOfFirst(ss, tol) ==
  LET tol2 == KnotTol2(ss, tol)
  IN  [i \in DOMAIN ss |-> InsertKnotsOf(ss[1], ss[i], tol2)]

WithCommonKnots(ss, tol) ==
  LET tol2  == KnotTol2(ss, tol)
      first == FoldLeft(LAMBDA s, t : InsertKnotsOf(t, s, tol2), ss[1], Tail(ss))
  IN  [i \in DOMAIN ss |-> IF i = 1 THEN first ELSE InsertKnotsOf(first, ss[i], tol2)]

\* It throws for the last reason where a chain of near knots is one knot for
\* a spline and two for the first.
CanMakeCompatible(ss, tol) ==
  /\ haveSameRange(ss, tol) /\ haveSameDegree(ss)
  /\ \A i \in DOMAIN ss :
       Len(WithCommonKnots(ss, tol)[i].knots) = Len(WithCommonKnots(ss, tol)[1].knots)

(***************************************************************************)
(* concatCurves and concatSurfacesUDir, once degrees and ranges fit.       *)
(***************************************************************************)
NbJoinedPoles(ss) == Sum([i \in DOMAIN ss |-> NbPoles(ss[i]) - 1]) + 1

\* Slip: a joint is a knot of full multiplicity.
JointAsEnd(degree) == degree + 1

JointMult(degree) == degree

Joined(ss) ==
  [ss[1] EXCEPT
     !.knots = FlattenSeq([i \in DOMAIN ss |-> Front(ss[i].knots)]) \o <<LastParameter(Last(ss))>>,
     !.mults = FlattenSeq([i \in DOMAIN ss |->
                             <<IF i = 1 THEN Head(ss[1].mults) ELSE JointMult(ss[1].degree)>>
                               \o Inner(ss[i].mults)])
                 \o <<Last(Last(ss).mults)>>,
     !.at = UNION {ss[i].at : i \in DOMAIN ss}]

CanJoin(ss) == IsSplineOf(Joined(ss), NbJoinedPoles(ss))

(***************************************************************************)
(* getKinkParameters: for a curve the code also asks for an angle, so that *)
(* these are the kinks it may have.                                        *)
(***************************************************************************)
IsKinkKnot(s, i) == i \in 2 .. Len(s.knots) - 1 /\ s.mults[i] = s.degree

getKinkParameters(s) ==
  {s.knots[i] : i \in {x \in DOMAIN s.knots : IsKinkKnot(s, x)}}

(***************************************************************************)
(* knotsFromCurveParameters, for parameters a multiple of 6 apart.  Places *)
(* are those of the code, which counts from 0.                             *)
(***************************************************************************)
NInner(n, degree, closed) == IF closed THEN n ELSE n - degree + 1

Averaged(params, degree, j) == Sum(SubSeq(params, j + 1, j + degree)) \div degree

OpenInner(params, degree) ==
  [x \in 1 .. NInner(Len(params), degree, FALSE) |->
     IF x = 1 THEN Head(params)
     ELSE IF x = NInner(Len(params), degree, FALSE) THEN Last(params)
     ELSE Averaged(params, degree, x - 1)]

Gap(params, i) == params[i + 1] - params[i]
LastGap(params) == Gap(params, Len(params) - 1)

\* For an even degree the knots lie between the parameters.
ShiftedInner(params) ==
  LET n == Len(params)
      halves == [x \in 1 .. n - 2 |->
                   (Gap(params, IF x = 1 THEN n - 1 ELSE x - 1) + Gap(params, x)) \div 2]
  IN  [x \in 1 .. n |-> IF x = n THEN Last(params)
                        ELSE Head(params) + Sum(SubSeq(halves, 1, x - 1))]

IsShifted(degree, closed) == closed /\ degree % 2 = 0

InnerKnots(params, degree, closed) ==
  CASE IsShifted(degree, closed) -> ShiftedInner(params)
    [] closed /\ degree % 2 = 1  -> params
    [] OTHER                     -> OpenInner(params, degree)

\* The parameters, which the code changes where they are.
ShiftedParams(params, degree, closed) ==
  IF IsShifted(degree, closed)
    THEN [i \in DOMAIN params |-> params[i] + LastGap(params) \div 2]
    ELSE params

\* As many knots as the degree before and behind the inner ones: those of the
\* period next to it if the curve is closed.
Extended(inner, degree, closed) ==
  LET n      == Len(inner)
      period == inner[n] - inner[1]
  IN  [i \in 1 .. degree |-> IF closed THEN inner[n - degree + i - 1] - period ELSE inner[1]]
        \o inner
        \o [i \in 1 .. degree |-> IF closed THEN inner[i + 1] + period ELSE inner[n]]

EndsRepeated(flat) == [flat EXCEPT ![1] = flat[2], ![Len(flat)] = flat[Len(flat) - 1]]

knotsFromCurveParameters(params, degree, closed) ==
  LET flat == Extended(InnerKnots(params, degree, closed), degree, closed)
  IN  IF closed /\ degree <= 1 THEN EndsRepeated(flat) ELSE flat

\* BSplCLib::Knots: a flat sequence of knots with repetitions.
Compact(flat, degree, at) ==
  LET knots == Sorted(Range(flat))
  IN  [degree |-> degree, knots |-> knots,
       mults |-> [i \in DOMAIN knots |-> Cardinality({x \in DOMAIN flat : flat[x] = knots[i]})],
       at |-> at, length |-> 0]

\* LinspaceWithBreaks without breaks
Linspace(umin, umax, n) == [i \in 1 .. n |-> umin + ((umax - umin) * (i - 1)) \div (n - 1)]

\* makeKnotsUniform in one direction: pointsToSurface interpolates as many
\* points as this, and what the spline passed between its ends is lost.
NbSamples(segments) == Max({4, segments + 1})

makeKnotsUniform(s, segments) ==
  LET ends == {FirstParameter(s), LastParameter(s)}
  IN  [Compact(knotsFromCurveParameters(
                 Linspace(FirstParameter(s), LastParameter(s), NbSamples(segments)), 3, FALSE),
               3, {a \in s.at : a[2] \in ends})
         EXCEPT !.length = s.length]

(***************************************************************************)
(* concatCurves for curves of its own: alone a curve stays as it is, else  *)
(* they begin at 0, each as long as before.                                *)
(***************************************************************************)
Connected(ss) ==
  \A i \in 1 .. Len(ss) - 1 :
    PointAt(ss[i], LastParameter(ss[i])) = PointAt(ss[i + 1], FirstParameter(ss[i + 1]))

Concatenated(ss) ==
  LET length(i) == LastParameter(ss[i]) - FirstParameter(ss[i])
      start(i)  == Sum([j \in 1 .. i - 1 |-> length(j)])
      degree    == Max({ss[i].degree : i \in DOMAIN ss})
  IN  IF Len(ss) = 1 THEN ss[1]
      ELSE Joined([i \in DOMAIN ss |->
             reparametrizeBSpline(IncreaseDegree(ss[i], degree), start(i), start(i + 1), 0)])

(***************************************************************************)
(* PointsToBSplineInterpolation                                            *)
(***************************************************************************)
IsClosed(points, continuous) == continuous /\ Head(points) = Last(points)

Degree(points, maxDegree, closed) == Min({maxDegree, Len(points) - (IF closed THEN 2 ELSE 1)})

CanInterpolate(points, params, maxDegree) ==
  Len(params) = Len(points) /\ maxDegree >= 1 /\ Len(points) >= 2

\* A closed spline goes on before and after its points.
OneMore(flat, degree) == Append(flat, Last(flat) + flat[2 * degree + 2] - flat[2 * degree + 1])

MovedBack(flat, back) == [i \in DOMAIN flat |-> flat[i] - back]

Unclamped(points, params, degree) ==
  LET n       == Len(points)
      shifted == ShiftedParams(params, degree, TRUE)
      back    == IF IsShifted(degree, TRUE) THEN shifted[1] ELSE 0
      flat    == knotsFromCurveParameters(params, degree, TRUE)
  IN  Compact(MovedBack(IF IsShifted(degree, TRUE) THEN OneMore(flat, degree) ELSE flat, back), degree,
              {<<points[i], shifted[i] - back + turn * (params[n] - params[1])>> :
                 i \in 1 .. n - 1, turn \in {-1, 0, 1}})

\* Slip: the ends of a closed spline are left as they are.
NotClamped(s, umin, umax) == s

Clamped(s, umin, umax) == Segment(s, umin, umax)

Interpolation(points, params, maxDegree, continuous) ==
  LET closed == IsClosed(points, continuous)
      degree == Degree(points, maxDegree, closed)
  IN  IF closed THEN Clamped(Unclamped(points, params, degree), Head(params), Last(params))
      ELSE Compact(knotsFromCurveParameters(params, degree, FALSE), degree,
                   {<<points[i], params[i]>> : i \in DOMAIN points})
=============================================================================
