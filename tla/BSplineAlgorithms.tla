-------------------------- MODULE BSplineAlgorithms --------------------------
(***************************************************************************)
(* The functions of geometry/BSplineAlgorithms and ConcatSurfaces that a   *)
(* program calls with handles of curves and surfaces.  Some change what is *)
(* behind the handles, some copy it first, and a handle may be given twice *)
(* or be what an earlier call returned.                                    *)
(*                                                                         *)
(* A curve is a spline (module Splines) with its length.  A surface is two *)
(* splines, u and v, and the points it is known to pass through, each with *)
(* its two parameters.                                                     *)
(***************************************************************************)
EXTENDS Splines

CONSTANTS Programs,    \* records of the curves and surfaces a program has at first
          One,         \* the parameter 1
          Tolerances,  \* for the knots of curves
          Segments,    \* for makeKnotsUniform; 0 where it is not enabled
          Skins        \* what CurvesToSurface is given: params, maxDegree, continuous

MaxCalls == 2   \* bound: calls a program makes

VARIABLES
  curves, surfaces,   \* what is behind the handles, which are their places
  call,               \* the last call: its name, its arguments before it, its result
  calls

programVars == <<curves, surfaces, call, calls>>

NoCall == [name |-> "none", end |-> "none"]

ProgramInit ==
  /\ \E p \in Programs : curves = p.curves /\ surfaces = p.surfaces
  /\ call = NoCall /\ calls = 0

Lists(heap, sizes) == UNION {[1 .. n -> DOMAIN heap] : n \in sizes}
At(heap, handles)  == [i \in DOMAIN handles |-> heap[handles[i]]]
New(heap, n)       == [i \in 1 .. n |-> Len(heap) + i]

\* It returns handles or null, or throws.
Return(name, handles, args, result) ==
  call' = [name |-> name, handles |-> handles, args |-> args, result |-> result,
           end |-> "returned"]

Fail(name, handles, args, end) ==
  call' = [name |-> name, handles |-> handles, args |-> args, result |-> <<>>, end |-> end]

Call == calls < MaxCalls /\ calls' = calls + 1

(***************************************************************************)
(* Curves.                                                                 *)
(***************************************************************************)
MaxDegree(ss) == Max({ss[i].degree : i \in DOMAIN ss})

\* IncreaseDegree for every handle of the list.
Raised(heap, handles) ==
  [h \in DOMAIN heap |->
     IF h \in Range(handles) THEN IncreaseDegree(heap[h], MaxDegree(At(heap, handles)))
                             ELSE heap[h]]

matchDegree ==
  /\ Call
  /\ \E handles \in Lists(curves, {2, 3}) :
       /\ curves' = Raised(curves, handles)
       /\ Return("matchDegree", handles, At(curves, handles), handles)
  /\ UNCHANGED surfaces

\* The other curves get the range of the first.
RangeMatched(heap, handles, tol) ==
  LET first == heap[handles[1]]
  IN  [h \in DOMAIN heap |->
         IF h \in Range(handles)
           THEN reparametrizeBSpline(heap[h], FirstParameter(first), LastParameter(first), tol)
           ELSE heap[h]]

matchParameterRange ==
  /\ Call
  /\ \E handles \in Lists(curves, {2, 3}), tol \in Tolerances :
       /\ curves' = RangeMatched(curves, handles, tol)
       /\ Return("matchParameterRange", handles, At(curves, handles), handles)
  /\ UNCHANGED surfaces

\* The ranges are matched before the curves are copied.
createCommonKnotsVectorCurve ==
  /\ Call
  /\ \E handles \in Lists(curves, {2, 3}), tol \in Tolerances :
       LET matched == RangeMatched(curves, handles, tol)
           copies  == At(matched, handles)
       IN  IF CanMakeCompatible(copies, tol)
             THEN /\ curves' = matched \o WithCommonKnots(copies, tol)
                  /\ Return("commonKnots", handles, At(curves, handles), New(curves, Len(handles)))
             ELSE /\ curves' = matched
                  /\ Fail("commonKnots", handles, At(curves, handles), "thrown")
  /\ UNCHANGED surfaces

trimCurve ==
  /\ Call
  /\ \E h \in DOMAIN curves :
       \E umin, umax \in Range(curves[h].knots) \cup {a[2] : a \in curves[h].at} :
         /\ umin < umax
         /\ curves' = Append(curves, Segment(curves[h], umin, umax))
         /\ Return("trimCurve", <<h>>, <<curves[h]>>, <<Len(curves) + 1>>)
  /\ UNCHANGED surfaces

\* With one curve alone the handle itself is returned.
ConcatTooFew ==
  /\ Call
  /\ \E handles \in Lists(curves, {0, 1}) :
       IF handles = <<>> THEN Fail("concatCurves", handles, <<>>, "null")
                         ELSE Return("concatCurves", handles, At(curves, handles), handles)
  /\ UNCHANGED <<curves, surfaces>>

ConcatUnconnected ==
  /\ Call
  /\ \E handles \in Lists(curves, {2, 3}) :
       /\ ~ Connected(At(curves, handles))
       /\ Fail("concatCurves", handles, At(curves, handles), "null")
  /\ UNCHANGED <<curves, surfaces>>

\* The curves get ranges one after the other, as long as they are or in
\* proportion to their lengths.  A handle given twice is moved twice.
Placed(heap, handles, parByLength) ==
  LET total == Sum([i \in DOMAIN handles |-> heap[handles[i]].length])
      Size(s) == IF parByLength THEN (s.length * One) \div total
                 ELSE LastParameter(s) - FirstParameter(s)
      Place(m, h) ==
        LET stop == m.start + Size(m.heap[h])
        IN  [heap |-> [m.heap EXCEPT ![h] = reparametrizeBSpline(@, m.start, stop, 0)],
             start |-> stop]
  IN  FoldLeft(Place, [heap |-> heap, start |-> 0], handles).heap

\* Slip: the curves keep their degrees.
PlacedOnly(heap, handles, parByLength) == Placed(heap, handles, parByLength)

PlacedAndRaised(heap, handles, parByLength) ==
  Placed(Raised(heap, handles), handles, parByLength)

ConcatConnected ==
  /\ Call
  /\ \E handles \in Lists(curves, {2, 3}), parByLength \in BOOLEAN :
       LET placed == PlacedAndRaised(curves, handles, parByLength)
           parts  == At(placed, handles)
       IN  /\ Connected(At(curves, handles))
           /\ IF CanJoin(parts)
                THEN /\ curves' = Append(placed, [Joined(parts) EXCEPT
                                            !.length = Sum([i \in DOMAIN parts |-> parts[i].length])])
                     /\ Return("concatCurves", handles, At(curves, handles), <<Len(curves) + 1>>)
                ELSE /\ curves' = placed
                     /\ Fail("concatCurves", handles, At(curves, handles), "thrown")
  /\ UNCHANGED surfaces

(***************************************************************************)
(* Surfaces.                                                               *)
(***************************************************************************)
Moved(x, s, umin, umax) ==
  IF FirstParameter(s) = umin /\ LastParameter(s) = umax THEN x ELSE Rescaled(x, s, umin, umax)

SurfacePlaced(s, umin, umax, vmin, vmax) ==
  [u  |-> reparametrizeBSpline(s.u, umin, umax, 0),
   v  |-> reparametrizeBSpline(s.v, vmin, vmax, 0),
   at |-> {<<a[1], Moved(a[2], s.u, umin, umax), Moved(a[3], s.v, vmin, vmax)>> : a \in s.at}]

reparametrizeSurface ==
  /\ Call
  /\ \E h \in DOMAIN surfaces, umin, vmin \in {0, One} :
       /\ surfaces' = [surfaces EXCEPT ![h] = SurfacePlaced(@, umin, umin + One, vmin, vmin + One)]
       /\ Return("reparametrize", <<h>>, <<surfaces[h]>>, <<h>>)
  /\ UNCHANGED curves

flipSurface ==
  /\ Call
  /\ \E h \in DOMAIN surfaces :
       LET s == surfaces[h]
       IN  /\ surfaces' = Append(surfaces, [u  |-> s.v, v |-> s.u,
                                            at |-> {<<a[1], a[3], a[2]>> : a \in s.at}])
           /\ Return("flipSurface", <<h>>, <<s>>, <<Len(surfaces) + 1>>)
  /\ UNCHANGED curves

\* Near a knot the code takes the knot: a parameter here is one or is far.
trimSurface ==
  /\ Call
  /\ \E h \in DOMAIN surfaces :
       \E a, b \in surfaces[h].at :
         LET s == surfaces[h]
         IN  /\ a[2] < b[2] /\ a[3] < b[3]
             /\ surfaces' = Append(surfaces,
                  [u  |-> Segment(s.u, a[2], b[2]), v |-> Segment(s.v, a[3], b[3]),
                   at |-> {x \in s.at : x[2] \in a[2] .. b[2] /\ x[3] \in a[3] .. b[3]}])
             /\ Return("trimSurface", <<h>>, <<s>>, <<Len(surfaces) + 1>>)
  /\ UNCHANGED curves

InDirection(ss, dir) == [i \in DOMAIN ss |-> ss[i][dir]]

CanMakeSurfacesCompatible(ss, dirs) ==
  \A d \in dirs : CanMakeCompatible(InDirection(ss, d), 0)

SurfacesWithCommonKnots(ss, dirs) ==
  [i \in DOMAIN ss |->
     [d \in DOMAIN ss[i] |-> IF d \in dirs THEN WithCommonKnots(InDirection(ss, d), 0)[i]
                                           ELSE ss[i][d]]]

createCommonKnotsVectorSurface ==
  /\ Call
  /\ \E handles \in Lists(surfaces, {2}), dirs \in {{"u"}, {"v"}, {"u", "v"}} :
       LET copies == At(surfaces, handles)
       IN  IF CanMakeSurfacesCompatible(copies, dirs)
             THEN /\ surfaces' = surfaces \o SurfacesWithCommonKnots(copies, dirs)
                  /\ Return("commonKnotsSurface", handles, copies, New(surfaces, 2))
             ELSE /\ UNCHANGED surfaces
                  /\ Fail("commonKnotsSurface", handles, copies, "thrown")
  /\ UNCHANGED curves

SurfaceRaised(s, uDegree, vDegree) ==
  [s EXCEPT !.u = IncreaseDegree(@, uDegree), !.v = IncreaseDegree(@, vDegree)]

SurfaceAt(s, u, v) == {a[1] : a \in {b \in s.at : b[2] = u /\ b[3] = v}}

\* Slip: the corners at vmin alone are compared.
OneCornerMatches(s1, s2) ==
  SurfaceAt(s1, LastParameter(s1.u), FirstParameter(s1.v))
    = SurfaceAt(s2, FirstParameter(s2.u), FirstParameter(s2.v))

\* Nothing between the two corners of a side is compared.
CornersMatch(s1, s2) ==
  LET corners(s, u) == <<SurfaceAt(s, u, FirstParameter(s.v)), SurfaceAt(s, u, LastParameter(s.v))>>
  IN  corners(s1, LastParameter(s1.u)) = corners(s2, FirstParameter(s2.u))

\* The control points of the common side are those of the second surface.
SurfacesJoined(s1, s2) ==
  LET pair == SurfacesWithCommonKnots(<<s1, s2>>, {"v"})
  IN  [u  |-> Joined(<<pair[1].u, pair[2].u>>),
       v  |-> pair[1].v,
       at |-> {a \in s1.at : a[2] # LastParameter(s1.u)} \cup s2.at]

\* What concatSurfacesUDir makes of its arguments, and how far it comes.
ConcatUDir(s1, s2) ==
  LET uDegree == Max({s1.u.degree, s2.u.degree})
      vDegree == Max({s1.v.degree, s2.v.degree})
      raised  == <<SurfaceRaised(s1, uDegree, vDegree), SurfaceRaised(s2, uDegree, vDegree)>>
  IN  IF LastParameter(s1.u) # FirstParameter(s2.u)
        THEN [args |-> <<s1, s2>>, ok |-> FALSE]
      ELSE IF CornersMatch(s1, s2) /\ CanMakeSurfacesCompatible(raised, {"v"})
        THEN [args |-> raised, ok |-> TRUE, surface |-> SurfacesJoined(raised[1], raised[2])]
      ELSE [args |-> raised, ok |-> FALSE]

PairConcatenated(h1, h2, args, done) ==
  LET left == [surfaces EXCEPT ![h1] = done.args[1], ![h2] = done.args[2]]
  IN  IF done.ok
        THEN /\ surfaces' = Append(left, done.surface)
             /\ Return("concatSurfaces", <<h1, h2>>, args, <<Len(surfaces) + 1>>)
        ELSE /\ surfaces' = left
             /\ Fail("concatSurfaces", <<h1, h2>>, args, "thrown")

concatSurfacesUDir ==
  /\ Call
  /\ \E h1, h2 \in DOMAIN surfaces :
       PairConcatenated(h1, h2, <<surfaces[h1], surfaces[h2]>>, ConcatUDir(surfaces[h1], surfaces[h2]))
  /\ UNCHANGED curves

(***************************************************************************)
(* ConcatSurfaces: an object made with copies of the surfaces, parameters  *)
(* for their sides, which it sorts, and perhaps SetMakeKnotsUniformEnabled. *)
(***************************************************************************)
Ends(s) == {FirstParameter(s), LastParameter(s)}

Uniform(s, segments) ==
  IF segments = 0 THEN s
  ELSE [u  |-> makeKnotsUniform(s.u, segments), v |-> makeKnotsUniform(s.v, segments),
        at |-> {a \in s.at : a[2] \in Ends(s.u) /\ a[3] \in Ends(s.v)}]

ConcatSurfaces ==
  /\ Call
  /\ \E handles \in Lists(surfaces, {1, 2, 3}), params \in {<<0, One, 3 * One>>, <<2 * One, 0, One>>},
        segments \in Segments :
       LET sorted == SortSeq(params, <)
           parts  == [i \in DOMAIN handles |->
                        SurfacePlaced(Uniform(surfaces[handles[i]], segments),
                                      sorted[i], sorted[i + 1], 0, One)]
           Add(left, s) == IF left.ok THEN ConcatUDir(left.surface, s) ELSE left
           done   == FoldLeft(Add, [ok |-> TRUE, surface |-> parts[1]], Tail(parts))
       IN  IF Len(params) # Len(handles) + 1 \/ ~ done.ok
             THEN /\ UNCHANGED surfaces
                  /\ Fail("ConcatSurfaces", handles, At(surfaces, handles), "thrown")
             ELSE /\ surfaces' = Append(surfaces, done.surface)
                  /\ Return("ConcatSurfaces", handles, At(surfaces, handles), <<Len(surfaces) + 1>>)
  /\ UNCHANGED curves

(***************************************************************************)
(* CurvesToSurface: an object made with copies of the curves and perhaps   *)
(* parameters for them, SetMaxDegree, and Surface, which makes another     *)
(* surface at every call.  The curves run in u.                            *)
(***************************************************************************)
DegreeMatched(ss) == [i \in DOMAIN ss |-> IncreaseDegree(ss[i], MaxDegree(ss))]
Compatible(ss) ==
  WithCommonKnots([i \in DOMAIN ss |-> reparametrizeBSpline(ss[i], FirstParameter(ss[1]),
                                                           LastParameter(ss[1]), 0)], 0)

\* computeParamsBSplineSurf, for curves that are equally far from one another.
DefaultParams(n) == Linspace(0, One, n)

\* The control points of the curves are interpolated all alike: a curve counts
\* as a point here.
Skin(ss, params, skin) ==
  LET curve == Compatible(ss)
      v     == Interpolation(ss, params, skin.maxDegree, skin.continuous)
  IN  [u  |-> [curve[1] EXCEPT !.at = {}], v |-> [v EXCEPT !.at = {}],
       at |-> UNION {{<<a[1], a[2], params[i]>> : a \in curve[i].at} : i \in DOMAIN curve}]

\* Slip: the curves are not copied before their degrees are matched.
NotCopied(heap, handles) == Raised(heap, handles)

\* GeomConvert::CurveToBSplineCurve copies.
AfterConversion(heap, handles) == heap

\* Two equal curves, to be closed, would need the degree 0.
CurvesToSurface ==
  /\ Call
  /\ \E handles \in Lists(curves, {2, 3}), skin \in Skins :
       LET ss == DegreeMatched(At(curves, handles))
           params == IF skin.params = <<>> THEN DefaultParams(Len(ss)) ELSE skin.params
       IN  /\ curves' = AfterConversion(curves, handles)
           /\ Len(ss) = 2 => ~ IsClosed(ss, skin.continuous)
           /\ IF Len(params) = Len(ss)
                THEN /\ surfaces' = Append(surfaces, Skin(ss, params, skin))
                     /\ Return("CurvesToSurface", handles, At(curves, handles), <<Len(surfaces) + 1>>)
                ELSE /\ UNCHANGED surfaces
                     /\ Fail("CurvesToSurface", handles, At(curves, handles), "thrown")

Finished == calls = MaxCalls /\ UNCHANGED programVars

ProgramNext ==
  \/ matchDegree \/ matchParameterRange \/ createCommonKnotsVectorCurve \/ trimCurve
  \/ ConcatTooFew \/ ConcatUnconnected \/ ConcatConnected
  \/ reparametrizeSurface \/ flipSurface \/ trimSurface \/ createCommonKnotsVectorSurface
  \/ concatSurfacesUDir \/ ConcatSurfaces \/ CurvesToSurface
  \/ Finished

ProgramSpec == ProgramInit /\ [][ProgramNext]_programVars

-----------------------------------------------------------------------------
(***************************************************************************)
(* Properties.                                                             *)
(***************************************************************************)
Handled == call.end = "returned"

\* However calls follow one another, also those that throw half-way, every
\* handle leads to splines OpenCASCADE accepts: ascending knots, and as many
\* multiplicities as the control points and the degree ask for.
SplinesAreValid ==
  /\ \A h \in DOMAIN curves : IsSpline(curves[h])
  /\ \A h \in DOMAIN surfaces : IsSpline(surfaces[h].u) /\ IsSpline(surfaces[h].v)

\* One route leads along all the others, which meet at their ends.
LeadsAlong(route, parts) ==
  LET steps(n) == Sum([i \in 1 .. n |-> Len(parts[i]) - 1])
  IN  /\ Len(route) = steps(Len(parts)) + 1
      /\ \A i \in DOMAIN parts :
           parts[i] = SubSeq(route, steps(i - 1) + 1, steps(i) + 1)

\* concatCurves: "Concatenates a list of bspline curves".  The result goes
\* through the points of all of them in their order, and every joint is a
\* knot where it may bend.  It is refused, and then no curve is changed, only
\* if they are not connected, and fails only if a handle is there twice.
ConcatGoesThroughAll ==
  call.name = "concatCurves" /\ Len(call.args) > 1 =>
    CASE call.end = "null" -> ~ Connected(call.args) /\ call.args = At(curves, call.handles)
      [] call.end = "thrown" -> ~ IsInjective(call.handles)
      [] OTHER ->
           LET c == curves[call.result[1]]
           IN  /\ LeadsAlong(Points(c), [i \in DOMAIN call.args |-> Points(call.args[i])])
               /\ FirstParameter(c) = 0
               /\ Cardinality(getKinkParameters(c)) >= Len(call.args) - 1
               /\ c.degree = MaxDegree(call.args)

\* createCommonKnotsVectorCurve and -Surface: "The common knot vector contains
\* all knots of all splines with the highest multiplicity of all splines", and
\* "the B-spline geometry isn't changed".  It throws only where the docs say so,
\* for degrees, and ranges of surfaces, that differ, and where some of the knots
\* are the same within the tolerance only.
Common(ss, originals, tol) ==
  \A i \in DOMAIN ss :
    /\ ss[i].mults = ss[1].mults
    /\ \A k \in DOMAIN ss[i].knots : Abs(ss[i].knots[k] - ss[1].knots[k]) <= tol
    /\ Points(ss[i]) = Points(originals[i])
    /\ Len(ss[i].knots) >= Len(originals[i].knots)

CommonKnotsAreCommon ==
  /\ call.name = "commonKnots" /\ call.end = "thrown" /\ haveSameDegree(call.args) =>
       \E i, j \in Range(call.handles) :
         \E k \in Range(curves[i].knots), l \in Range(curves[j].knots) :
           k # l /\ Abs(k - l) <= Max(Tolerances)
  /\ call.name = "commonKnotsSurface" /\ call.end = "thrown" =>
       \E d \in {"u", "v"} :
         LET ss == InDirection(call.args, d)
         IN  ~ haveSameRange(ss, 0) \/ ~ haveSameDegree(ss)
  /\ call.name = "commonKnots" /\ Handled =>
       Common(At(curves, call.result), call.args, Max(Tolerances))
  /\ call.name = "commonKnotsSurface" /\ Handled =>
       \E d \in {"u", "v"} :
         Common(InDirection(At(surfaces, call.result), d), InDirection(call.args, d), 0)

\* ConcatSurfaces and concatSurfacesUDir: the two long sides of the result lead
\* through the corners of all the surfaces in their order, and the surface
\* spans the parameters asked for.
AlongSide(s, v) ==
  LET on == {a \in s.at : a[3] = v}
      us == Sorted({a[2] : a \in on})
  IN  [i \in DOMAIN us |-> (CHOOSE a \in on : a[2] = us[i])[1]]

Sides(s) == <<AlongSide(s, FirstParameter(s.v)), AlongSide(s, LastParameter(s.v))>>

SurfacesFollow ==
  call.name \in {"concatSurfaces", "ConcatSurfaces"} /\ Handled =>
    LET s == surfaces[call.result[1]]
    IN  /\ \A k \in {1, 2} :
             LeadsAlong(Sides(s)[k], [i \in DOMAIN call.args |-> Sides(call.args[i])[k]])
        /\ call.name = "ConcatSurfaces" =>
             \A d \in {"u", "v"} : FirstParameter(s[d]) = 0

\* CurvesToSurface: "Creates a surface by interpolation of B-spline curves": it
\* leads along every curve, in their order, and is bounded by the first and the
\* last; the curves themselves are not changed.
SurfacePassesCurves ==
  call.name = "CurvesToSurface" /\ Handled =>
    LET s      == surfaces[call.result[1]]
        vs     == Sorted({a[3] : a \in s.at})
        row(v) == [at |-> {<<a[1], a[2]>> : a \in {b \in s.at : b[3] = v}}]
    IN  /\ [i \in DOMAIN vs |-> Points(row(vs[i]))]
             = [i \in DOMAIN call.args |-> Points(call.args[i])]
        /\ Head(vs) = FirstParameter(s.v) /\ Last(vs) = LastParameter(s.v)
        /\ call.args = At(curves, call.handles)
=============================================================================
