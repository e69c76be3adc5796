------------------------------ MODULE MCSplines ------------------------------
(***************************************************************************)
(* A program that makes curves and surfaces in one of three ways: through  *)
(* points with kinks (Interpolation), by fitting (Approximation), or out   *)
(* of others (BSplineAlgorithms).  The other two rest.                     *)
(***************************************************************************)
EXTENDS Interpolation, Approximation, BSplineAlgorithms

VARIABLE part

-----------------------------------------------------------------------------
\* Interpolation.
\* The unit of a parameter is 1/144: the parameters of Beziers stay whole.
Initials == {<<0, 48, 96, 144>>, <<0, 36, 72, 108, 144>>, <<0, 48, 96, 120, 144>>}

PointLists(n) ==
  {p \in {<<"a", "b", "c", "d", "e">>, <<"a", "b", "c", "d", "a">>,
          <<"a", "b", "c", "d">>, <<"a", "b", "c", "a">>} : Len(p) = n}

\* None, one or two kinks, also the same twice and in any order.
KinkLists(n) == UNION {[1 .. k -> 0 .. n - 1] : k \in 0 .. 2}

\* Parameters asked for in the middle, or at the ends.
AskedFrom(n, starts) ==
  {<<>>} \cup [{2} -> {84, 96, 108}]
    \cup {[i \in {0, n - 1} |-> IF i = 0 THEN s ELSE s + 288] : s \in starts}

ObjectsFrom(starts) ==
  UNION {{[points |-> p, initial |-> i, kinks |-> k, asked |-> a, maxDegree |-> d] :
            p \in PointLists(Len(i)), k \in KinkLists(Len(i)),
            a \in AskedFrom(Len(i), starts), d \in 1 .. 3} : i \in Initials}

MCObjects == ObjectsFrom({0})

\* Closed curves without kinks, whose parameters begin behind 0.
MCOffsetObjects ==
  {o \in ObjectsFrom({12, 72}) :
     0 \in DOMAIN o.asked /\ Head(o.points) = Last(o.points) /\ o.kinks = <<>>}

-----------------------------------------------------------------------------
\* Approximation.
\* The unit of a parameter is 1/240 for points, 1/96 for functions.
\* BSplineApproxInterp: four and five points, with from too few to too many
\* control points; and CFunctionToBspline.
MCFits ==
  {[points |-> IF closed THEN <<"a", "b", "c", "d", "a">> ELSE <<"a", "b", "c", "d", "e">>,
    ncp |-> ncp, degree |-> degree, closed |-> closed,
    initial |-> <<0, 60, 118, 180, 240>>] :
     ncp \in 2 .. 7, degree \in {2, 3}, closed \in BOOLEAN}

MCFunctions ==
  {[umin |-> 0, umax |-> 96, degree |-> degree, maxDepth |-> depth] :
     degree \in {2, 3}, depth \in 1 .. 3}

-----------------------------------------------------------------------------
\* BSplineAlgorithms.
MCOne == 144

Spline(degree, knots, mults, at, length) ==
  [degree |-> degree, knots |-> knots, mults |-> mults, at |-> at, length |-> length]

\* From a to b: a line, and a cubic with a knot inside and a bend.
Line(a, b, umin, umax, length) ==
  Spline(1, <<umin, umax>>, <<2, 2>>, {<<a, umin>>, <<b, umax>>}, length)
Cubic(a, m, b, umin, umid, umax, mult, length) ==
  Spline(3, <<umin, umid, umax>>, <<4, mult, 4>>,
        {<<a, umin>>, <<m, umid>>, <<b, umax>>}, length)

\* A surface from one side, at umin, to another; the points of a side are at
\* the knots vs[1], ... in v.
Surface(degree, side1, side2, umin, vs) ==
  [u  |-> Spline(degree, <<umin, umin + 144>>, <<degree + 1, degree + 1>>, {}, 0),
   v  |-> Spline(2, vs, <<3, 1, 3>>, {}, 0),
   at |-> {<<side1[i], umin, vs[i]>> : i \in 1 .. 3}
            \cup {<<side2[i], umin + 144, vs[i]>> : i \in 1 .. 3}]

MCPrograms ==
  {[curves |-> <<Line("a", "b", 0, 144, 2), Cubic("b", "m", "c", 0, 144, 288, mult, 2),
                 Line("c", last, 72, 216, 2)>>,
    surfaces |-> <<>>] : <<mult, last>> \in {<<1, "a">>, <<3, "d">>}}
  \cup
  {[curves |-> <<Cubic("a", "m", "b", 0, 132, 288, 1, 1), Cubic("b", "n", "c", 0, 144, 288, 2, 1),
                 Cubic("c", "o", "d", 0, 156, 288, 1, 1)>>,
    surfaces |-> <<>>]}
  \cup
  {[curves |-> <<>>,
    surfaces |-> <<Surface(1, <<"a", "m", "b">>, <<"c", "n", "d">>, 0, <<0, 72, 144>>),
                   Surface(degree, <<"c", "p", corner>>, <<"e", "o", "f">>, umin, <<0, 48, 144>>)>>] :
     <<degree, corner, umin>> \in {<<1, "d", 144>>, <<3, "d", 0>>, <<3, "d", 144>>, <<1, "q", 144>>}}

MCSkins ==
  {[params |-> <<>>, maxDegree |-> 3, continuous |-> TRUE],
   [params |-> <<0, 48, 144>>, maxDegree |-> 3, continuous |-> FALSE],
   [params |-> <<>>, maxDegree |-> 1, continuous |-> FALSE]}

-----------------------------------------------------------------------------
InterpolationRests ==
  /\ object = None /\ result = None /\ pc = "rests"
  /\ params = <<>> /\ kinks = <<>> /\ segments = <<>>

FitRests ==
  /\ fitter = None /\ fitting = Idle /\ fitted = NotFitted
  /\ approximated = {} /\ interpolated = {} /\ kinkPoints = <<>>

ProgramRests ==
  /\ curves = <<>> /\ surfaces = <<>> /\ call = NoCall /\ calls = 0

Init ==
  \/ part = "points" /\ InterpolationInit /\ FitRests /\ ProgramRests
  \/ part = "fit" /\ FitInit /\ InterpolationRests /\ ProgramRests
  \/ part = "program" /\ ProgramInit /\ InterpolationRests /\ FitRests

Next ==
  \/ part = "points" /\ InterpolationNext /\ UNCHANGED <<part, fitVars, programVars>>
  \/ part = "fit" /\ FitNext /\ UNCHANGED <<part, interpolationVars, programVars>>
  \/ part = "program" /\ ProgramNext /\ UNCHANGED <<part, interpolationVars, fitVars>>

Spec == Init /\ [][Next]_<<part, interpolationVars, fitVars, programVars>>
=============================================================================
