------------------------------ MODULE MCSurfaces ------------------------------
(***************************************************************************)
(* Surfaces that are put together: either B-splines are joined to one      *)
(* (SurfTools), or a loft is made of wires (InterpolateWires, MakePatches).*)
(***************************************************************************)
EXTENDS SurfTools, InterpolateWires, TLC

-----------------------------------------------------------------------------
\* SurfTools.
KnotsTo(last, n, degree, mult) ==
  [i \in 1 .. n + 1 |-> [at |-> (i - 1) * (last \div n),
                         mult |-> IF i \in {1, n + 1} THEN degree + 1 ELSE mult]]

\* A surface over a rectangle, in nu by nv equal patches.
Over(x, y, w, h, nu, nv, degree, mult, last) ==
  [knots  |-> [u |-> KnotsTo(last, nu, degree, mult), v |-> KnotsTo(last, nv, degree, mult)],
   degree |-> [u |-> degree, v |-> degree],
   patch  |-> [ij \in (1 .. nu) \X (1 .. nv) |-> [ab \in Sides |->
                 <<x + (ij[1] - 1 + ab[1]) * (w \div nu), y + (ij[2] - 1 + ab[2]) * (h \div nv)>>]]]

\* The eight ways to lay its u and v.
Ways(s) == {IF r = {} THEN t ELSE IF r = {"u"} THEN Reversed(t, "u")
            ELSE IF r = {"v"} THEN Reversed(t, "v") ELSE Reversed(Reversed(t, "u"), "v") :
              t \in {s, ExchangedUV(s)}, r \in SUBSET Dirs}

\* Bezier surfaces, and one of two patches, of two degrees.
At(x, y) == UNION {Ways(Over(x, y, 96, 96, 1, 1, 3, 3, 192)),
                   Ways(Over(x, y, 96, 96, 2, 1, 4, 1, 96))}

Pairs == {<<s, t>> : s \in At(0, 0), t \in At(96, 0)}

\* A third one in the row, or as long as both, or a plane.
Triples ==
  {<<s, t, r>> : s \in {Over(0, 0, 96, 96, 1, 1, 3, 3, 96)},
                 t \in Ways(Over(96, 0, 96, 96, 1, 1, 3, 3, 192)),
                 r \in Ways(Over(192, 0, 96, 96, 1, 1, 3, 3, 96))
                         \cup Ways(Over(0, 96, 192, 48, 1, 1, 4, 3, 96)) \cup {NotABSpline}}
  \cup {<<NotABSpline, s>> : s \in Ways(Over(0, 0, 96, 96, 1, 1, 3, 3, 96))}

MCInputs == Pairs \cup Triples

-----------------------------------------------------------------------------
\* InterpolateWires.
Wire(name, edges, cap) == [name |-> <<name>>, edges |-> edges, cap |-> cap, at |-> 0]

\* Of one and two edges, one of them with a seam that comes twice; a wire that
\* has no surface.
MCWires == {Wire("a", <<"up", "low">>, "plane"), Wire("b", <<"low", "up">>, "filled"),
            Wire("c", <<"seam", "low", "seam">>, "plane"), Wire("d", <<"up", "seam">>, "none")}

MCKinksOf == [up |-> {}, low |-> {1}, seam |-> {1, 2}]

\* The edges of a cell: from corner to corner of a grid, each either way, with
\* knots that are the same, close, or others, and a part that ends near a knot
\* with its point, near one with another point, or near both.
Edge(from, to, degree, knots, f, atF, l) ==
  [from |-> from, to |-> to, degree |-> degree, knots |-> knots, f |-> f, l |-> l,
   atF |-> atF, atL |-> {i \in DOMAIN knots : knots[i] = l}]

Curve(from, to, way, form) ==
  LET p == IF way THEN from ELSE to
      q == IF way THEN to ELSE from
  IN  CASE form = 1 -> Edge(p, q, 2, <<0, 12, 24, 48>>, 11, {2}, 48)
        [] form = 2 -> Edge(p, q, 2, <<0, 13, 24, 48>>, 12, {2}, 48)
        [] form = 3 -> Edge(p, q, 3, <<0, 24, 48>>, 0, {1}, 24)
        [] form = 4 -> Edge(p, q, 1, <<0, 48>>, 0, {1}, 48)
        [] form = 5 -> Edge(p, q, 2, <<0, 12, 24, 48>>, 11, {}, 48)
        [] form = 6 -> Edge(p, q, 2, <<0, 10, 12, 24, 48>>, 11, {3}, 48)
        [] form = 7 -> Edge(p, q, 2, <<0, 10, 12, 24, 48>>, 11, {2, 3}, 48)

Corners(n) == <<<<n, 0>>, <<n + 1, 0>>, <<n + 1, 1>>, <<n, 1>>>>

Frame(n, ways, forms, continuity) ==
  [edges |-> [i \in 1 .. 4 |-> Curve(Corners(n)[i], Corners(n)[(i % 4) + 1], ways[i], forms[i])],
   continuity |-> continuity]

\* The first edge along the frame, the others either way.
AllWays == {w \in [1 .. 4 -> BOOLEAN] : w[1]}
Along == [i \in 1 .. 4 |-> TRUE]

MCNetworks ==
  {[fused |-> TRUE, loops |-> "OK", frames |-> <<<<Frame(0, w, <<1, 2, 2, 1>>, "C2"),
                                                   Frame(1, Along, f, "C0")>>>>] :
     w \in AllWays, f \in {<<3, 4, 1, 4>>}}
  \cup {[fused |-> TRUE, loops |-> "OK", frames |-> <<<<Frame(0, w, <<1, 1, 2, 3>>, "C2")>>, <<Frame(1, w, <<4, 3, 2, 1>>, "C2")>>>>] :
     w \in {Along, <<FALSE, TRUE, FALSE, TRUE>>}}
  \cup {[fused |-> TRUE, loops |-> "OK", frames |-> <<<<Frame(0, Along, <<5, 6, 7, 2>>, "C2")>>>>]}
  \cup {[fused |-> FALSE, loops |-> "OK", frames |-> <<>>],
        [fused |-> TRUE, loops |-> "FAIL_NOVERTICES", frames |-> <<>>],
        [fused |-> TRUE, loops |-> "OK", frames |-> <<>>]}

-----------------------------------------------------------------------------
JoiningRests ==
  /\ surfaces = <<>> /\ made = None /\ next = 0 /\ step = "rests"
  /\ cont = 0 /\ iter = 0 /\ err = 0

LoftRests ==
  /\ wires = <<>> /\ guided = FALSE /\ makeSolid = FALSE /\ makeSmooth = FALSE
  /\ vparams = 0 /\ hasPerformed = FALSE /\ result = Null
  /\ pc = "rests" /\ edge = 0 /\ faces = <<>> /\ network = <<>> /\ threw = 0

AllInit ==
  \/ JoinInit /\ LoftRests
  \/ Init /\ JoiningRests

AllNext ==
  \/ JoinNext /\ UNCHANGED vars
  \/ Next /\ UNCHANGED joinVars

AllSpec == AllInit /\ [][AllNext]_<<joinVars, vars>>
=============================================================================
