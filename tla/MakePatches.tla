----------------------------- MODULE MakePatches -----------------------------
(***************************************************************************)
(* MakePatches (contrib): a surface for each cell of a network of guides   *)
(* and profiles.  MakeLoops has found the cells: each is a frame of edges  *)
(* in a chain (module MakeLoops, CellsAreChains).  An edge is a part [f, l]*)
(* of a curve; of the curve its ends, degree and knots are kept, and which *)
(* of the knots, atF and atL, have the points of f and l.  Inner knots are *)
(* simple.  The coons patch itself is OpenCASCADE's.                       *)
(***************************************************************************)
EXTENDS Integers, Sequences, FiniteSets, SequencesExt, FiniteSetsExt

CONSTANTS KnotTol,    \* theTolParam, for all knots alike
          Unit        \* the range GeomFill_Profiler gives curves, [0, 1]

ASSUME MakePatchesAssumption == KnotTol \in Nat /\ Unit \in Nat \ {0}

NoSurface == <<>>

MinPoles(style) == IF style = "CoonsC2Style" THEN 6 ELSE 4

Distance(a, b) == IF a < b THEN b - a ELSE a - b

\* What the rest relies on: a cell is a ring of four edges that meet at four
\* corners, and no part of a curve is as short as the tolerance at both its ends.
Meet(c, d) == {c.from, c.to} \cap {d.from, d.to} # {}   \* at an end, wherever it is

IsEdge(e) ==
  /\ e.from # e.to /\ e.f \in Int /\ e.l \in Int /\ e.f + 2 * KnotTol < e.l
  /\ e.knots \in Seq(Int) /\ e.atF \subseteq DOMAIN e.knots /\ e.atL \subseteq DOMAIN e.knots
  /\ \A i \in DOMAIN e.knots : /\ e.knots[i] = e.f => i \in e.atF
                               /\ e.knots[i] = e.l => i \in e.atL

IsCell(edges) ==
  /\ DOMAIN edges = 1 .. 4 /\ \A i \in 1 .. 4 : IsEdge(edges[i]) /\ Meet(edges[i], edges[(i % 4) + 1])
  /\ \A i \in 1 .. 2 : ~Meet(edges[i], edges[i + 2])

IsNetwork(n) ==
  /\ DOMAIN n = {"fused", "loops", "frames"}
  /\ n.frames \in Seq(Seq(UNION {ToSet(row) : row \in ToSet(n.frames)}))
  /\ \A row \in ToSet(n.frames) : \A frame \in ToSet(row) : IsCell(frame.edges)

-----------------------------------------------------------------------------
\* An end of a part of a curve moves to the first knot that is close to it and
\* has its point, if there is one.  Slip: whatever point the knot has.
AnyNearKnot(t, knots, at) ==
  LET near == {i \in DOMAIN knots : Distance(t, knots[i]) <= KnotTol} IN
  IF near = {} THEN t ELSE knots[Min(near)]

NearKnot(t, knots, at) ==
  LET near == {i \in at : Distance(t, knots[i]) <= KnotTol} IN
  IF near = {} THEN t ELSE knots[Min(near)]

Inside(knots, f, l) ==
  FlattenSeq([i \in DOMAIN knots |-> IF f < knots[i] /\ knots[i] < l THEN <<knots[i]>> ELSE <<>>])

Trimmed(edge) ==
  LET f == NearKnot(edge.f, edge.knots, edge.atF)
      l == NearKnot(edge.l, edge.knots, edge.atL)
  IN  [from |-> edge.from, to |-> edge.to, degree |-> edge.degree,
       knots |-> <<f>> \o Inside(edge.knots, f, l) \o <<l>>]

ReversedCurve(c) ==
  LET n == Len(c.knots) IN
  [from |-> c.to, to |-> c.from, degree |-> c.degree,
   knots |-> [i \in 1 .. n |-> c.knots[1] + c.knots[n] - c.knots[n + 1 - i]]]

-----------------------------------------------------------------------------
\* BuildSurface puts the boundaries round the first one: C1[3] begins where it
\* begins, C1[1] touches its end, and C1[2] is left over.  Sequences begin at 1.
Touching(curves, left, p) == {i \in left : p \in {curves[i].from, curves[i].to}}

\* Slip: the last boundary is not turned round.
ArrangedAsFound(curves) ==
  LET left2 == 2 .. Len(curves)
      i4    == Min(Touching(curves, left2, curves[1].from))
      i2    == Min(Touching(curves, left2 \ {i4}, curves[1].to))
      rest  == left2 \ {i2, i4}
  IN  IF rest = {} THEN NoSurface ELSE <<curves[1], curves[i2], curves[Min(rest)], curves[i4]>>

Arranged(curves) ==
  LET base  == curves[1]
      left1 == 2 .. Len(curves)
      i4    == Min(Touching(curves, left1, base.from))
      left2 == left1 \ {i4}
      i2    == Min(Touching(curves, left2, base.to))
      c4    == IF curves[i4].from = base.from THEN curves[i4] ELSE ReversedCurve(curves[i4])
      rest  == left2 \ {i2}
  IN  IF rest = {} THEN NoSurface ELSE <<base, curves[i2], curves[Min(rest)], c4>>

\* Opposite boundaries get the same degree and knots: the mean, where they are
\* close, or else all that GeomFill_Profiler finds.
SameDistribution(c, d) ==
  /\ c.degree = d.degree /\ Len(c.knots) = Len(d.knots)
  /\ \A i \in DOMAIN c.knots : Distance(c.knots[i], d.knots[i]) < KnotTol

Relative(c) ==
  LET first == c.knots[1]
      range == c.knots[Len(c.knots)] - first
  IN  {((c.knots[i] - first) * Unit) \div range : i \in DOMAIN c.knots}

WithKnots(c, knots, degree) == [from |-> c.from, to |-> c.to, degree |-> degree, knots |-> knots]

Profiled(c, d) ==
  LET knots  == SetToSortSeq(Relative(c) \cup Relative(d), <)
      degree == Max({c.degree, d.degree})
  IN  <<WithKnots(c, knots, degree), WithKnots(d, knots, degree)>>

Averaged(c, d) ==
  LET knots == [i \in DOMAIN c.knots |-> (c.knots[i] + d.knots[i]) \div 2] IN
  <<WithKnots(c, knots, c.degree), WithKnots(d, knots, d.degree)>>

\* The degree is raised until there are poles enough.
Raised(c, style) ==
  LET poles == c.degree + Len(c.knots) - 1 IN
  IF poles >= MinPoles(style) THEN c
  ELSE [c EXCEPT !.degree = @ + MinPoles(style) - poles]

MadeCompatible(c, d, style) ==
  LET p == IF SameDistribution(c, d) THEN Averaged(c, d) ELSE Profiled(c, d) IN
  <<Raised(p[1], style), Raised(p[2], style)>>

BuildSurface(curves, style) ==
  LET c == Arranged(curves) IN
  IF Len(curves) \notin {3, 4} \/ c = NoSurface THEN NoSurface
  ELSE LET u == MadeCompatible(c[1], c[3], style)
           v == MadeCompatible(c[2], c[4], style)
       IN  <<u[1], v[1], u[2], v[2]>>

-----------------------------------------------------------------------------
\* Perform, with what the fuse and MakeLoops make of the network: a row of the
\* array of frames for each profile interval.  A cell without a surface is passed over.
OK == "OK"
FailIntersection == "FAIL_INTERSECTION"
FailPatches == "FAIL_PATCHES"

Status(network) ==
  IF ~network.fused THEN FailIntersection
  ELSE IF network.loops # "OK" \/ network.frames = <<>> THEN FailPatches ELSE OK

SurfaceOf(frame, style) ==
  BuildSurface([i \in DOMAIN frame.edges |-> Trimmed(frame.edges[i])],
               IF frame.continuity = "C2" THEN style ELSE "StretchStyle")

Face(frame, style) ==
  LET surface == SurfaceOf(frame, style) IN
  IF surface = NoSurface THEN <<>> ELSE <<[cell |-> frame.edges, surface |-> surface]>>

RowOf(row, style) == FlattenSeq([j \in DOMAIN row |-> Face(row[j], style)])

Patches(network, style) ==
  IF Status(network) # OK THEN <<>>
  ELSE FlattenSeq([i \in DOMAIN network.frames |-> RowOf(network.frames[i], style)])

-----------------------------------------------------------------------------
\* "Make sure that boundaries located opposite to each other have the same
\* degree, number of knots and poles", and are opposite to each other.
FitsFrame(surface) ==
  /\ \A i \in 1 .. 4 : Meet(surface[i], surface[(i % 4) + 1])
  /\ surface[4].from = surface[1].from
  /\ \A i \in 1 .. 2 : /\ surface[i].degree = surface[i + 2].degree
                       /\ surface[i].knots = surface[i + 2].knots

\* "leave out BSpline knots which are to close to the start and end point": an end
\* keeps its point, and if a knot with that point is still inside, close to where
\* the end was, the end is at another one.
IsGoodEnd(t, knots, at, end, inside) ==
  /\ end = t \/ \E i \in at : knots[i] = end /\ Distance(t, end) <= KnotTol
  /\ \A i \in at : Distance(t, knots[i]) <= KnotTol /\ knots[i] \in inside =>
       \E j \in at : j # i /\ knots[j] = end

HasNoSlivers(edge) ==
  LET k == Trimmed(edge).knots
      inside == {k[i] : i \in 2 .. Len(k) - 1}
  IN  /\ k[1] < k[Len(k)]
      /\ IsGoodEnd(edge.f, edge.knots, edge.atF, k[1], inside)
      /\ IsGoodEnd(edge.l, edge.knots, edge.atL, k[Len(k)], inside)
=============================================================================
