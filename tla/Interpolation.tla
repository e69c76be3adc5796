---------------------------- MODULE Interpolation ----------------------------
(***************************************************************************)
(* InterpolatePointsWithKinks::ComputeResult: a curve through points, with *)
(* kinks at some and parameters asked for at some.  The curve is made of   *)
(* pieces from kink to kink; a closed one without a kink at its ends also  *)
(* of a piece around them, which is cut where the curve begins.  Indices   *)
(* count from 0 as in the code.  Cache (module Cache) calls it once.       *)
(***************************************************************************)
EXTENDS Splines

CONSTANT Objects   \* what the constructor may be given: points, initial, kinks, asked, maxDegree

VARIABLES
  object,
  params,    \* new_params
  kinks,     \* the kinks, and the ends if the curve is not continuous there
  segments,  \* curve_segments
  pc,
  result     \* none, the curve, or that it threw

interpolationVars == <<object, params, kinks, segments, pc, result>>

None   == [end |-> "none"]
Thrown == [end |-> "thrown"]

InterpolationInit ==
  /\ object \in Objects
  /\ params = <<>> /\ kinks = <<>> /\ segments = <<>>
  /\ pc = "start" /\ result = None

NbPoints == Len(object.points)

(***************************************************************************)
(* computeParams.  "initial" are the parameters of                         *)
(* computeParamsBSplineCurve, from 0 to 1; those asked for are met, the    *)
(* others follow in proportion.                                            *)
(***************************************************************************)
WithEnds(asked) ==
  [i \in DOMAIN asked \cup {0, NbPoints - 1} |->
     IF i \in DOMAIN asked THEN asked[i] ELSE object.initial[i + 1]]

\* FindPosition
Position(xdata, x) ==
  Max({1} \cup {i \in 1 .. Len(xdata) - 1 : xdata[i] <= x})

Interpolate(xdata, ydata, x) ==
  LET pos == Position(xdata, x)
  IN  ((ydata[pos + 1] - ydata[pos]) * (x - xdata[pos])) \div (xdata[pos + 1] - xdata[pos])
        + ydata[pos]

computeParams ==
  LET asked == WithEnds(object.asked)
      at    == Sorted(DOMAIN asked)
      old   == [k \in DOMAIN at |-> object.initial[at[k] + 1]]
      new   == [k \in DOMAIN at |-> asked[at[k]]]
  IN  [i \in 1 .. NbPoints |-> Interpolate(old, new, object.initial[i])]

MakeContinuous ==
  /\ Head(object.points) = Last(object.points)
  /\ Range(object.kinks) \cap {0, NbPoints - 1} = {}

\* Slip: the kinks stay in the order they are given in.
KinksAsGiven(list) == list

SortedKinks(list) == SortSeq(list, <)

ComputeParams ==
  /\ pc = "start"
  /\ params' = computeParams
  /\ LET sorted == SortedKinks(object.kinks)
         First  == IF 0 \in Range(sorted) THEN <<>> ELSE <<0>>
         End    == IF NbPoints - 1 \in Range(sorted) THEN <<>> ELSE <<NbPoints - 1>>
     IN  kinks' = IF MakeContinuous THEN sorted ELSE First \o sorted \o End
  /\ pc' = "segments"
  /\ UNCHANGED <<object, segments, result>>

-----------------------------------------------------------------------------
Throw == /\ result' = Thrown /\ pc' = "done"
         /\ UNCHANGED <<object, params, kinks, segments>>

Slice(seq, from, to) == SubSeq(seq, from + 1, to + 1)

\* A kink that is given twice makes a segment of one point.
InterpolateSegment ==
  /\ pc = "segments" /\ Len(segments) < Len(kinks) - 1
  /\ LET i      == Len(segments) + 1
         points == Slice(object.points, kinks[i], kinks[i + 1])
         pars   == Slice(params, kinks[i], kinks[i + 1])
     IN  IF CanInterpolate(points, pars, object.maxDegree)
           THEN /\ segments' = Append(segments, Interpolation(points, pars, object.maxDegree, FALSE))
                /\ UNCHANGED <<object, params, kinks, pc, result>>
           ELSE Throw

Goto(l) == pc = "segments" /\ Len(segments) >= Len(kinks) - 1 /\ pc' = l

SegmentsDone ==
  /\ ~ MakeContinuous
  /\ Goto("concat")
  /\ UNCHANGED <<object, params, kinks, segments, result>>

EndPiece(s, offset) ==
  reparametrizeBSpline(s, FirstParameter(s) - offset, LastParameter(s) - offset, 0)

\* offset is the negative length of the parameters.
InterpolateAround ==
  /\ MakeContinuous /\ kinks # <<>>
  /\ Goto("concat")
  /\ LET offset == Head(params) - Last(params)
         last   == Last(kinks)
         left   == Slice(params, last, NbPoints - 1)
         points == Slice(object.points, last, NbPoints - 1) \o Slice(object.points, 1, Head(kinks))
         pars   == [i \in DOMAIN left |-> left[i] + offset] \o Slice(params, 1, Head(kinks))
         around == Interpolation(points, pars, object.maxDegree, FALSE)
     IN  segments' = <<Segment(around, Head(params), LastParameter(around))>> \o segments
                       \o <<EndPiece(Segment(around, FirstParameter(around), Head(params)), offset)>>
  /\ UNCHANGED <<object, params, kinks, result>>

\* The closed spline of an even degree begins at 0, wherever the parameters do:
\* it throws if it does not reach as far as they.
CanClamp(s, umin, umax) ==
  LET flat == FlattenSeq([i \in DOMAIN s.knots |-> [m \in 1 .. s.mults[i] |-> s.knots[i]]])
  IN  flat[s.degree + 1] <= umin /\ umax <= flat[Len(flat) - s.degree]

InterpolateClosed ==
  /\ MakeContinuous /\ kinks = <<>>
  /\ pc = "segments"
  /\ IF CanClamp(Unclamped(object.points, params, Degree(object.points, object.maxDegree, TRUE)),
                 Head(params), Last(params))
       THEN /\ segments' = <<Interpolation(object.points, params, object.maxDegree, TRUE)>>
            /\ pc' = "concat"
            /\ UNCHANGED <<object, params, kinks, result>>
       ELSE Throw

\* concatCurves, each piece as long as it is.
Concat ==
  /\ pc = "concat"
  /\ result' = IF Connected(segments)
                 THEN [end |-> "returned", curve |-> Concatenated(segments)]
                 ELSE [end |-> "null"]
  /\ pc' = "done"
  /\ UNCHANGED <<object, params, kinks, segments>>

Done == pc = "done" /\ UNCHANGED interpolationVars

InterpolationNext ==
  \/ ComputeParams \/ InterpolateSegment \/ SegmentsDone
  \/ InterpolateAround \/ InterpolateClosed \/ Concat
  \/ Done

InterpolationSpec == InterpolationInit /\ [][InterpolationNext]_interpolationVars

-----------------------------------------------------------------------------
(***************************************************************************)
(* Properties.                                                             *)
(***************************************************************************)
Returned == result.end = "returned"

\* The curve goes through every point at the parameter Parameters() tells for
\* it, which is the one asked for where one was, whichever pieces it is made of
\* and wherever a closed one was cut.
CurvePassesPoints ==
  Returned =>
    /\ IsSpline(result.curve)
    /\ FirstParameter(result.curve) = Head(params) /\ LastParameter(result.curve) = Last(params)
    /\ \A i \in DOMAIN params : object.points[i] \in PointAt(result.curve, params[i])
    /\ \A i \in DOMAIN object.asked : params[i + 1] = object.asked[i]

\* The curve may bend at the kinks and nowhere else, and a result is missing
\* only if a kink was given twice.
KinksAreWhereAsked ==
  /\ Returned /\ result.curve.degree > 1 =>
       getKinkParameters(result.curve)
         = {params[k + 1] : k \in Range(object.kinks) \ {0, NbPoints - 1}}
  /\ pc = "done" /\ ~ Returned => ~ IsInjective(object.kinks)
=============================================================================
