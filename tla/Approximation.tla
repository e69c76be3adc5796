---------------------------- MODULE Approximation ----------------------------
(***************************************************************************)
(* BSplineApproxInterp and CFunctionToBspline: objects that fit a spline   *)
(* in steps.  The first solves for control points, moves the parameters of *)
(* the points it approximates and solves again as long as the error falls; *)
(* the second halves a range as long as the error is too great.  What the  *)
(* numerics may find, an error, a parameter or a singular matrix, is any   *)
(* of a few values.                                                        *)
(***************************************************************************)
EXTENDS Splines

CONSTANTS Fits,       \* BSplineApproxInterp: points, ncp, degree, closed, initial
          Functions,  \* CFunctionToBspline: umin, umax, degree, maxDepth
          Errors,     \* of a solution with approximated points
          MaxIter,    \* of FitCurveOptimal; 0 stands for FitCurve
          KnotTol     \* a knot so near to a kink is taken for it

\* The parameters of the points, in units so small that uniform knots have one
\* each, ascend, and no kink can be taken for an end.  They are the caller's, or
\* computeParameters has found them.
IsFit(f) ==
  LET n == Len(f.points)
  IN  /\ n \in Nat \ {0, 1} /\ f.degree \in Nat \ {0} /\ f.ncp \in Nat
      /\ f.closed \in BOOLEAN /\ (f.closed => f.points[1] = f.points[n])
      /\ f.initial \in Seq(Int) /\ Len(f.initial) = n /\ Ascending(f.initial)
      /\ f.initial[n] - f.initial[1] >= f.ncp - f.degree
      /\ \A i \in 2 .. n - 1 : /\ f.initial[i] - f.initial[1] >= KnotTol
                              /\ f.initial[n] - f.initial[i] >= KnotTol

\* How many parts there are of a range that was halved so many times.
Parts[times \in Nat] == IF times = 0 THEN 1 ELSE 2 * Parts[times - 1]

\* The halves of the range are whole numbers, down to the greatest depth.
IsFunction(f) ==
  /\ f.umin \in Int /\ f.umax \in Int /\ f.umin < f.umax
  /\ f.degree \in Nat \ {0, 1} /\ f.maxDepth \in Nat \ {0}
  /\ \E width \in 1 .. f.umax - f.umin : f.umax - f.umin = width * Parts[f.maxDepth - 1]

ASSUME FitsAssumption ==
  /\ KnotTol \in Nat \ {0} /\ MaxIter \in Nat \ {0} /\ Errors \subseteq Nat
  /\ \A f \in Fits : IsFit(f)
  /\ \A f \in Functions : IsFunction(f)
  /\ Fits \cap Functions = {}

VARIABLES
  fitter,
  approximated, interpolated, kinkPoints,  \* the lists of indices, from 0; the last in its order
  fitting,    \* the fitting that runs: where it is and what it has so far
  fitted

fitVars == <<fitter, approximated, interpolated, kinkPoints, fitting, fitted>>

NotFitted   == [end |-> "none"]
FitThrew == [end |-> "thrown"]
Idle   == [at |-> "idle"]

FitInit ==
  /\ fitter \in Fits \cup Functions
  /\ approximated = IF fitter \in Fits THEN 0 .. Len(fitter.points) - 1 ELSE {}
  /\ interpolated = {} /\ kinkPoints = <<>>
  /\ fitting = Idle /\ fitted = NotFitted

-----------------------------------------------------------------------------
(***************************************************************************)
(* BSplineApproxInterp.                                                    *)
(***************************************************************************)
InterpolatePoint ==
  /\ fitter \in Fits /\ fitting = Idle
  /\ \E i \in 0 .. Len(fitter.points) - 1, withKink \in BOOLEAN :
       /\ withKink => i \in 1 .. Len(fitter.points) - 2
       /\ IF i \in approximated
            THEN /\ approximated' = approximated \ {i}
                 /\ interpolated' = interpolated \cup {i}
                 /\ kinkPoints' = IF withKink THEN Append(kinkPoints, i) ELSE kinkPoints
                 /\ fitted' = NotFitted
            ELSE /\ fitted' = FitThrew
                 /\ UNCHANGED <<approximated, interpolated, kinkPoints>>
  /\ UNCHANGED <<fitter, fitting>>

EndsInterpolated == {0, Len(fitter.points) - 1} \subseteq interpolated

\* Slip: one end is enough.
NbContinuityOfOneEnd ==
  IF ~ fitter.closed THEN 0
  ELSE IF {0, Len(fitter.points) - 1} \cap interpolated # {} THEN 2 ELSE 3

\* C0, C1 and C2; the first is left out where it holds anyway.
NbContinuity ==
  IF ~ fitter.closed THEN 0 ELSE IF EndsInterpolated THEN 2 ELSE 3

\* Knots one after the other; the first knot near the kink is the kink.
KinkInserted(s, u) ==
  LET near == {i \in DOMAIN s.knots : Abs(s.knots[i] - u) < KnotTol}
      pos  == Cardinality({i \in DOMAIN s.knots : s.knots[i] < u}) + 1
  IN  IF near # {} THEN [s EXCEPT !.mults[Min(near)] = Min({@ + fitter.degree, fitter.degree})]
      ELSE [s EXCEPT !.knots = InsertAt(@, pos, u), !.mults = InsertAt(@, pos, fitter.degree)]

computeKnots(params) ==
  LET n       == fitter.ncp - fitter.degree
      order   == fitter.degree + 1
      uniform == [degree |-> fitter.degree, at |-> {}, length |-> 0,
                  knots |-> Linspace(Head(params), Last(params), n + 1),
                  mults |-> [k \in 1 .. n + 1 |-> IF k \in {1, n + 1} THEN order ELSE 1]]
      with[k \in 0 .. Len(kinkPoints)] ==
        IF k = 0 THEN uniform ELSE KinkInserted(with[k - 1], params[kinkPoints[k] + 1])
  IN  with[Len(kinkPoints)]

CanSolve(knots) ==
  LET conditions == Cardinality(interpolated) + NbContinuity
  IN  /\ NbPoles(knots) >= conditions
      /\ NbPoles(knots) >= fitter.degree + 1 + NbContinuity
      /\ approximated = {} => NbPoles(knots) = conditions

\* The curve: it passes the interpolated points, and closes where that is a condition.
Solved(knots, params) ==
  [knots EXCEPT !.at =
     {<<fitter.points[i + 1], params[i + 1]>> : i \in interpolated}
       \cup (IF NbContinuity = 3 THEN {<<"joint", Head(params)>>, <<"joint", Last(params)>>} ELSE {})]

PossibleErrors == IF approximated = {} THEN {0} ELSE Errors

FitFails == fitted' = FitThrew /\ fitting' = Idle

\* FitCurve and FitCurveOptimal.
Fit ==
  /\ fitter \in Fits /\ fitting = Idle
  /\ \E maxIter \in {0, MaxIter} :
       IF fitter.ncp < fitter.degree + 1 \/ ~ CanSolve(computeKnots(fitter.initial))
         THEN FitFails
         ELSE \E error \in PossibleErrors :
                /\ fitting' = [at |-> "fit", knots |-> computeKnots(fitter.initial),
                            params |-> fitter.initial, error |-> error, oldError |-> 2 * error,
                            iteration |-> 0, maxIter |-> maxIter]
                /\ fitted' = NotFitted
  /\ UNCHANGED <<fitter, approximated, interpolated, kinkPoints>>

GoesOn ==
  fitting.error > 0 /\ fitting.oldError > fitting.error /\ fitting.iteration < fitting.maxIter

\* Slip: all parameters are moved.
OptimizeAll(i) == TRUE

IsOptimized(i) == i \in approximated

\* optimizeParameters projects points on the curve, each to the same parameter
\* or to the next one; it does not leave the range.
Projected(i, step) ==
  LET u == fitting.params[i + 1]
  IN  IF IsOptimized(i) /\ u + step <= Last(fitter.initial) THEN u + step ELSE u

\* optimizeParameters and solve, for the knots there are.
Optimize ==
  /\ fitting.at = "fit" /\ GoesOn
  /\ \E steps \in [0 .. Len(fitter.points) - 1 -> {0, 1}], error \in PossibleErrors :
       /\ \A i \in interpolated : steps[i] = 1
       /\ fitting' = [fitting EXCEPT
                     !.params = [k \in DOMAIN @ |-> Projected(k - 1, steps[k - 1])],
                     !.error = error, !.oldError = fitting.error, !.iteration = @ + 1]
  /\ UNCHANGED <<fitter, approximated, interpolated, kinkPoints, fitted>>

Singular ==
  /\ fitting.at = "fit" /\ FitFails
  /\ UNCHANGED <<fitter, approximated, interpolated, kinkPoints>>

ReturnFit ==
  /\ fitting.at = "fit" /\ ~ GoesOn
  /\ fitted' = [end |-> "returned", curve |-> Solved(fitting.knots, fitting.params),
                error |-> fitting.error, maxIter |-> fitting.maxIter]
  /\ fitting' = Idle
  /\ UNCHANGED <<fitter, approximated, interpolated, kinkPoints>>

-----------------------------------------------------------------------------
(***************************************************************************)
(* CFunctionToBspline: approxSegment calls itself for the two halves of a  *)
(* range; "todo" are the ranges still to come, the next one first.         *)
(***************************************************************************)
Part(umin, umax, depth) == [umin |-> umin, umax |-> umax, depth |-> depth]

Curve ==
  /\ fitter \in Functions /\ fitting = Idle
  /\ fitting' = [at |-> "split", todo |-> <<Part(fitter.umin, fitter.umax, 1)>>, segments |-> <<>>]
  /\ UNCHANGED <<fitter, approximated, interpolated, kinkPoints, fitted>>

Keep(good) ==
  LET next == Head(fitting.todo)
  IN  /\ good \/ next.depth >= fitter.maxDepth
      /\ fitting' = [fitting EXCEPT !.todo = Tail(@),
                    !.segments = Append(@, [umin |-> next.umin, umax |-> next.umax, good |-> good])]

Split ==
  LET next == Head(fitting.todo)
      half == (next.umin + next.umax) \div 2
  IN  /\ next.depth < fitter.maxDepth
      /\ fitting' = [fitting EXCEPT !.todo = <<Part(next.umin, half, next.depth + 1),
                                         Part(half, next.umax, next.depth + 1)>> \o Tail(@)]

ApproxSegment ==
  /\ fitting.at = "split" /\ fitting.todo # <<>>
  /\ Keep(TRUE) \/ Keep(FALSE) \/ Split
  /\ UNCHANGED <<fitter, approximated, interpolated, kinkPoints, fitted>>

\* Slip: joints without a continuous derivative.
C0Joint(degree) == degree

C1Joint(degree) == degree - 1

\* The control points at a joint are left out, the curve need not pass there.
concatC1(segments) ==
  LET n == Len(segments)
  IN  [degree |-> fitter.degree, length |-> 0,
       knots  |-> [i \in 1 .. n |-> segments[i].umin] \o <<segments[n].umax>>,
       mults  |-> [i \in 1 .. n + 1 |-> IF i \in {1, n + 1} THEN fitter.degree + 1
                                        ELSE C1Joint(fitter.degree)],
       at |-> {<<"begin", segments[1].umin>>, <<"end", segments[n].umax>>}]

NbJoinedC1Poles(segments) == 2 + Len(segments) * (fitter.degree - 1)

ReturnCurve ==
  /\ fitting.at = "split" /\ fitting.todo = <<>>
  /\ LET curve == concatC1(fitting.segments)
     IN  fitted' = IF IsSplineOf(curve, NbJoinedC1Poles(fitting.segments))
                     THEN [end |-> "returned", curve |-> curve,
                           error |-> IF \A i \in DOMAIN fitting.segments : fitting.segments[i].good
                                       THEN 0 ELSE 1]
                     ELSE FitThrew
  /\ fitting' = Idle
  /\ UNCHANGED <<fitter, approximated, interpolated, kinkPoints>>

FitNext ==
  \/ InterpolatePoint \/ Fit \/ Optimize \/ Singular \/ ReturnFit
  \/ Curve \/ ApproxSegment \/ ReturnCurve

FitSpec == FitInit /\ [][FitNext]_fitVars

-----------------------------------------------------------------------------
(***************************************************************************)
(* Properties.                                                             *)
(***************************************************************************)
\* "The specified point will be interpolated instead of approximated", and
\* "Parameters of points that are interpolated are not optimized": the fitted
\* curve, however often it was improved, passes these points at the parameters
\* they were given, spans all of them and bends at the kinks.
FitsInterpolate ==
  fitter \in Fits /\ fitted.end = "returned" =>
    LET c == fitted.curve
    IN  /\ IsSpline(c)
        /\ FirstParameter(c) = Head(fitter.initial) /\ LastParameter(c) = Last(fitter.initial)
        /\ \A i \in interpolated : fitter.points[i + 1] \in PointAt(c, fitter.initial[i + 1])
        /\ \A k \in DOMAIN kinkPoints : \E u \in getKinkParameters(c) : Abs(u - fitter.initial[kinkPoints[k] + 1]) < KnotTol

ClosesAtEnds(c) ==
  PointAt(c, FirstParameter(c)) \cap PointAt(c, LastParameter(c)) # {}

\* A closed curve ends where it begins, whether that is one of the conditions
\* or follows from the points: always with FitCurve, and with FitCurveOptimal
\* where the ends are interpolated.
FitsClose ==
  /\ fitter \in Fits /\ fitter.closed /\ fitted.end = "returned"
  /\ fitted.maxIter = 0 \/ EndsInterpolated
  => ClosesAtEnds(fitted.curve)

\* The segments cover the range without a gap and in order, no more of them
\* than the depth allows, and only at that depth one that is not good enough.
\* The joined curve is smooth.
FunctionIsCovered ==
  fitter \in Functions /\ fitted # NotFitted =>
    /\ fitted.end = "returned"
    /\ LET c == fitted.curve
       IN  /\ FirstParameter(c) = fitter.umin /\ LastParameter(c) = fitter.umax
           /\ Len(c.knots) <= Parts[fitter.maxDepth - 1] + 1
           /\ getKinkParameters(c) = {}
           /\ fitted.error > 0 =>
                \E i \in 2 .. Len(c.knots) :
                  (c.knots[i] - c.knots[i - 1]) * Parts[fitter.maxDepth - 1] = fitter.umax - fitter.umin
=============================================================================
