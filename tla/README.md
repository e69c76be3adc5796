# Verification of geoml

TLA+ models of parts of [geoml](../src/README.md), DLR's C++ library for
modelling with curves, surfaces and solids on top of OpenCASCADE, with the TLC
configurations that check them and the TLAPS proofs about them.  Paths below are
relative to `src/src/`.

`PROJECT.json` lists the components, the runs, one mutant for every property
that is checked (a plausible slip of the code that the property must notice),
the source lines every definition stands for, the findings, the hazards and the
theorems.

    tlc -workers 2 -config MCMakeLoops_all.cfg MCMakeLoops
    tlapm MakeLoopsProofs.tla

Five hazards decide what is here: several lists that must change together, calls
that throw after half of their work, objects shared behind handles, repeated calls
on an object that remembers, and threads at one cache.

## The system

geoml has no processes and no network.  It is a library of objects that are
given their input, asked to `Perform` and asked for their result, and of value
types that carry names and history from one operation to the next.  What is hard
about it is long sequential control with many exits, results that depend on the
order of edges or curves, several lists that must be changed together, one
failure among several steps, and a cache that threads share.

| component | state | operations | interacts with | what is hard | what makes it correct | models |
|---|---|---|---|---|---|---|
| `contrib/MakeLoops` | corner, start of the row and of the network, patches so far, continuities, status | `Init`, `Perform`, `Cells` | called by `MakePatches` with a network of edges | eight exits from one loop, open and closed rows | every patch once, closed, in its place; ends; success means success | `MakeLoops` |
| `contrib/MakePatches` | network, loops, patches, status | `Perform`, `BuildSurface` | `MakeLoops`, `GeomFill`, `SurfTools` | edges trimmed to knots, four curves in any order and direction | each patch has its frame as boundary, with common knots | `MakePatches` |
| `contrib/SurfTools` | the surface so far | `ConcatenateSurfaces`, `UReparametrize`, `USmoothing` | called by `MakePatches` | eight ways to lay each surface; rounds of knots | joined where they touch; smooth at the end | `SurfTools` |
| `geometry/curve-networks/CurveNetworkSorter` | curves, two parameter matrices, two index lists | `Perform`, `swap...`, `reverse...` | called by `InterpolateCurveNetwork` | four lists changed together; sorts that depend on one another | sorted; lists consistent | `CurveNetworkSorter` |
| `geometry/curve-networks/InterpolateCurveNetwork`, `GordonSurfaceBuilder` | curves (changed in place), matrices, surfaces, "has performed" | `Perform`, getters | `IntersectBSplines`, the sorter, B-splines | closed curves have two intersections; the sorter turns its curves in place; throws half-way | matrices and curves fit together; grids get a surface | `CurveNetwork` |
| `Cache.h` | an optional value and a mutex | `value`, `writeAccess`, `clear` | `InterpolatePointsWithKinks` | threads; builds that throw; references that outlive the lock | a memo cell | `MemoCell`, `Cache` |
| `geometry/InterpolatePointsWithKinks` | arguments (one by reference), the cached result | `Curve`, `Parameters` | `Cache`, splines | a closed curve is cut in its last piece; indices and parameters shift | passes its points at its parameters; kinks where asked | `Interpolation` |
| `geometry/PointsToBSplineInterpolation` | arguments | `Curve` | B-splines | closed curves have knots beyond their range | passes its points | `Splines` |
| `geometry/BSplineApproxInterp`, `CFunctionToBspline` | points to approximate, to interpolate, kinks; parts | `FitCurve`, `FitCurveOptimal`; `Curve` | B-splines | rounds that move parameters; a depth that ends | interpolated points and kinks stay; the whole range is covered | `Approximation` |
| `geometry/BSplineAlgorithms` | what is behind the handles it is given | knots, degrees, ranges, joining, trimming | all users of splines | changes in place, before checks that throw; tolerances on knots | valid splines, common knots, nothing of a part lost | `Splines`, `BSplineAlgorithms` |
| `geometry/ConcatSurfaces`, `CurvesToSurface`, `RectGridSurface`, `CompoundSurface` | arguments and a result | joining, skinning, grids | B-splines | orders, directions, own copies | pass what they are made of | `BSplineAlgorithms` (the first two) |
| `geoml/naming_choosing/Shape` | a graph of shapes: subshapes, origins, tags, tag tracks | `select_subshapes`, history queries, tagging | `Operation` | shapes shared as values; a subshape reachable on two ways | history and tags are true | `ShapeHistory` |
| `topology/Operation`, `BRepBuilderAPI_MakeShape_Operation`, `geoml/boolean_ops` | inputs | `value`, `map_subshapes` | `Shape`, OpenCASCADE | tracks that count operations | origins are what was modified | `ShapeHistory` |
| `topology/CNamedShape`, `boolean_operations/*` | shape, name, traits of every face | trim, cut, common, merge, fuse, group | one another, sewing, splitting | names through several new copies of a face | right solid, right names | `Solids`, `NamedShapes` |
| `topology/InterpolateWires` | wires, settings, "has performed", parameters, result | `addWire`, setters, `Perform` | `MakePatches`, `PatchShellTool`, `CurvesToSurface` | two ways to make faces; settings and wires between a throw and the next call | faces follow the profiles; solids are closed | `InterpolateWires` |
| `topology/PatchShellTool`, `TopoAlgorithms`, `CWireToCurve` | shell, side caps | `AddSideCap`, `Perform`, cutting | `InterpolateWires` | cuts at parameters and at kinks, rings | closed shells | `InterpolateWires` (what lofts use) |
| `logging/*` | the logger of the process, the console's verbosity | `SetLogger`, `LogTo...`, `SetConsoleVerbosity` | every component | loggers that are made anew, and remembered or forgotten | the console shows what it is asked to | `Logging` |
| `exports/*`, `imports/*` | registered builders and options, shapes to write | `Register...`, `Create`, `AddShape`, `Write`, `Read` | `CNamedShape`, options, logging | options of types, of classes and of exporters; names grouped and read again | groups, names and levels as asked for | `Exchange` |
| `system/*` | registration at load | `AUTORUN` | exporters | | | first state of `Exchange` |
| `math/*` | none | ranges, interpolation, numerics | B-splines | | | `Interpolation` (what it uses) |
| `common/*` | none | helpers, `COptionList`, `GroupFaces` | all | | | where used |
| `geometry/Transformation`, `Point`, wrappers in `geoml/*` | none to speak of | conversions, wrappers | all | | | no |

## The modules

### MakeLoops (with MCMakeLoops, OrderLemmas, MakeLoopsProofs)

`MakeLoops::Perform` walks over a network of guide and profile edges and cuts it
into four-sided patches.  A network is a graph: its edges are numbers (their
order in the shape), their ends vertices, and the orientation of an edge is a
set `reversed`.  Every way through the loop is an action: `FindFirstEdge` to
`FindFourthEdge`, one action for every edge that is not found, `OpenProfileEnds`
(a row of open profiles is over), `GuidesClosed` (the walk is where it began),
`EdgesDoNotMeet`, and, after the loop, `NoRow` or `FillCellGrid`.  A patch, its
continuity and the end of its row belong to `FindFourthEdge`, as in the code.
Coordinates and debug output are left out; so is a second `Perform` of one
object, which `MakePatches` never makes.

*make_loops_grids* takes every grid of one to four profiles and two to four
guides, open or closed in either direction, with its edges in two orders, and
every grid up to 3 x 3 with one edge missing, turned round, reversed or one too many,
and a network without edges.  Four rows and columns are one more than the code tells
apart (first, middle, last).  On grids all patches are found once and lie in an
array of the right size next to their neighbours (`GridsAreCut`).  On all networks
a stored patch is a chain (`CellsAreChains`), closed if the status is OK and no edge
carries the orientation REVERSED (`SuccessMeansLoops`), and the loop ends (`Terminates`, with weak fairness of the
whole of `Perform`: it is one thread that takes its next step).

*make_loops_missing_edge* takes the networks with a missing edge only, and shows a
finding.  Of three closed profiles and three guides the edge of one profile is missing (in
TLC's first trace edge 3, of the first profile): its row, the first, has two patches and ends as if
profiles were open, and the walk goes on to a row of three.  The status is OK, rows are
two patches long, five patches make an array of two rows, and `SetValue` is called for
a third.

Met on the way: the last test of a patch (`contrib/MakeLoops.cxx:552`) asks for the
first and last vertex without regard to orientation, although the comment above it
is about whether the edges meet, so a network with a reversed edge is refused.
The comment in `contrib/MakeLoops.hxx:113-118` has the array transposed: the first
index counts patches along a guide.

What a grid is (`IsGrid`) is told by the layout of a network: which vertex, profile
edge and guide edge lies at which place.  `Perform` does not have the layout; only the
property has it, and TLC confirms that every grid of the run is one
(`RegularNetworksAreGrids`).  A grid has two guides or more.  Of one guide the only
patches there could be lie between closed profiles, which have the guide edge twice;
with two such profiles or more the corner at which the next row starts is never set, and
the walk stops after one patch with FAIL_FIRSTEDGE.

### CurveNetworkSorter and CurveNetwork (with MCCurveNetwork, CurveNetworkProofs)

The sorter is given profiles, guides and the parameters of their intersections,
and swaps and reverses curves until both matrices ascend.  Parameters are
integers (floating-point rounding is left out), a curve is its range, or
`NullCurve` for the null handles the unit tests pass.  Actions: the two ways to find a start
(`StartAtCorner`, `StartInLoop`) or none, `ReverseFirstGuide`, one comparison of
either bubble sort, one test of a direction.  `swapProfiles` and its relatives
are operators that change curves, matrices and indices together.  A network is a grid
(`IsGrid`) if all guides cross the profiles in one order, forward or backward, all
profiles the guides, and each guide has a parameter the search for the greatest can see.

`CurveNetwork` is `InterpolateCurveNetwork` with `GordonSurfaceBuilder`, and
extends the sorter: its variables are those of the object's sorter, and `Sort` is the
whole of it.  A curve is its number; of its shape only the
parameters at which it meets the others are kept: the crossings of two curves are numbered,
and each has a parameter on both.  The steps are those between
which the code may throw: `Intersect` (the matrices, with the cells nobody writes as
any value), `Sort`, `Snap` (`EliminateInaccuraciesNetworkIntersections`), `TakeSorted`,
`Average`, `ReparametrizeProfile`, `ReparametrizeGuide`, `BuildSurfaces`; each has its
failure (`Throw`), which leaves the curves as they are then, and `GetResult` performs
again as long as no call has succeeded.  A cell nobody writes holds what the memory of
the matrix held: `Leftovers`, in the run a negative number, 0, 1 and one behind the range, in the
proofs any integers.  What is not a number is left out.  What a reparametrization does between two
intersections is proportional.

*networks* takes both.  The sorter alone, for every order and every choice of
directions of 3 profiles and 3 guides, with and without handles, and for networks
that are no grids (one of them without a start): grids are sorted (`GridsAreSorted`), and
all keep the parameters of each curve in its present direction
(`ParametersFollowCurves`) and its number and sign (`IndicesTellTheDirection`).  Three
curves are the least with a swap in the middle of a pass and one behind it.  The
object, for grids in many orders and directions, grids whose ends are off a little, networks
with a curve that sticks out, is short, does not meet another or meets it two or three times,
and closed networks with the seam anywhere; up to two calls in vain (`MaxFailures`).
The sorter hands back an order and matrices and reverses the curves themselves, through
handles it shares with the object: behind it, and until a curve gets new parameters, the matrices
tell where two curves that meet once do so, as they are placed and turned by then
(`ParametersMeetTheCurves`).  A grid gets its surface in the first call
(`GridsGetASurface`), and the first call does not make one of a network whose curves
stick out (`FirstSurfaceIsOfAClosedNetwork`: a later call may, since the curves were
given other parameters before the throw, at `InterpolateCurveNetwork.cpp:166`).
450,780 states.

Known: the search for the greatest parameter (`CurveNetworkSorter.cpp:45`) starts at
DBL_MIN, the least positive number, and finds place 0 for parameters of zero and below;
`GridsAreSorted` is about grids in which each guide has a parameter above zero.  A
surface is only made after the checks of `GordonSurfaceBuilder`, so that it passes the curves as
they are by then: behind a call that threw these may be other than those given, and a
network the first call refuses can get a surface in the second.  Left out: one handle given at two
places, which a reversal (`CurveNetworkSorter.cpp:305`) would turn twice, and the
distances between curves that do not quite meet.

### Splines, Interpolation, Approximation, BSplineAlgorithms (with MCSplines, FitAndCacheProofs)

A spline is its degree, knots, multiplicities and the points it is known to pass,
each with its parameter; control points are left out, their number is not
(`IsSpline` is what the constructor of `Geom_BSplineCurve` demands).  Parameters are
integers, in units small enough for all halves and thirds that occur.  `Splines` is
the pure part: `knotsFromCurveParameters`, `PointsToBSplineInterpolation`, common
knots, joining, degrees, kinks.  On it stand three programs.

`Interpolation`: `InterpolatePointsWithKinks::ComputeResult` step by step (parameters,
a piece between two kinks, the piece of a closed curve that goes round its end, joining),
where every step may throw.  `Approximation`: `BSplineApproxInterp` (indices of
points to approximate, to interpolate and, in the order they were asked for, to bend at;
knots; a solution; rounds of `FitCurveOptimal`) and `CFunctionToBspline` (halving to a depth and joining).  The
numerics enter as choices: an error, a parameter that moves, a singular matrix.
`BSplineAlgorithms`: what is behind the handles of a program, two calls one after the
other (`MaxCalls`), among joining, trimming, raising, moving, common knots, flipping,
`ConcatSurfaces` and `CurvesToSurface`.

*splines*: four and five points, open and closed, every list of up to two kinks (also
twice the same), parameters asked for in the middle and at the ends, degrees 1 to 3;
five points fitted with two to seven control points, each point also interpolated, in two
rounds; functions to a depth of 3; lists of curves and surfaces with handles given
twice, with gaps, with ranges that are moved, and tolerances of both kinds.  Five
points have a piece in the middle, at both ends and round the seam; two calls
are what it takes for a handle to be changed behind another's back.
A curve passes its points at `Parameters()` (`CurvePassesPoints`) and bends where
it was asked to, a result missing only for a kink given twice (`KinksAreWhereAsked`);
fits pass the points to be interpolated, however often they were improved
(`FitsInterpolate`), and close where the code promises it (`FitsClose`); a
function is approximated in all of its range (`FunctionIsCovered`); joined curves go
through all points with a knot at each joint (`ConcatGoesThroughAll`), common knots are
common and nothing is lost (`CommonKnotsAreCommon`), surfaces pass what they were made
of (`SurfacesFollow`, `SurfacePassesCurves`), and every handle leads to valid
splines, also behind a call that threw half-way (`SplinesAreValid`).  377,524 states.

*interpolation_offset* takes closed curves without kinks whose first parameter is asked
for and is not 0, and shows a finding.  Such a curve is one piece, which `concatCurves`
returns as it is.  If its degree is even (points a, b, c, a: degree 2) `knotsFromCurveParameters` has
moved the parameters by half the last interval, and to take that back `Curve` subtracts
`params[0]` from the knots (`PointsToBSplineInterpolation.cpp:198`), which is half an interval and
the first parameter.  The curve, clamped to the range asked for, passes its points earlier than
`Parameters()` says, by the first parameter.  With the first parameter at 0 the two agree, as *splines* shows.

Known: `FitCurveOptimal` closes a closed curve only if its ends are interpolated, as
otherwise their parameters move apart (`BSplineApproxInterp.h:92` says of the flag that
it "determines the continuous closing of curve"); a kink asked for at an end, or nearer to
one than the tolerance, takes one from the multiplicity of that end
(`BSplineApproxInterp.cpp:74`); two or more pieces of a curve whose first parameter is asked
for and is not 0 are moved to a range that begins at 0 when they are joined
(`BSplineAlgorithms.cpp:1037`).  Left out: control points, errors as
numbers, `BSplineFit` and `ArcLengthReparameterization`, which solve one system of
equations and keep nothing; `IntersectBSplines`, a minimization over floats.

### SurfTools, MakePatches, InterpolateWires (with MCSurfaces, SurfaceProofs)

`SurfTools` joins surfaces that touch, one after the other.  A surface has knots and
degrees in both directions and the corners of its patches, points of a plane;
so it can lie in eight ways, and the code finds by corners and middles which boundary
meets which.  Smoothing removes knots, or inserts others where that changes the surface
too much; which it does is a choice.  The loops over knots and rows are recursive
functions, and `Interval` has a value for every parameter.  There are two surfaces or
more (`SurfToolsAssumption`): of one alone the code returns the null handle it began with.

`MakePatches` fills cells: each end of an edge is trimmed to the first knot that is near in
its parameter and has its point (`atF`, `atL`: the knots at the points of the ends; a
curve may pass a near knot elsewhere), the four curves of a frame are arranged head to tail, given common knots and the degree the filling needs.
A cell is a ring of four edges, of which opposite ones do not meet; an edge is
longer than two tolerances of parameters, and its knots lie in any way
(`IsCell`, `IsEdge`, part of `InterpolateWiresAssumption`).  The code takes that for
granted: a shorter edge can have both its ends moved to one knot.
`InterpolateWires` extends it: wires are added, settings changed, and a call is several
steps, one for each that may throw, after which it can be made again.  Without
guides an edge of all profiles is skinned at a time, with the parameters the first edge
got, then the shell is cut and its faces put in order; with guides the wires are made
one edge each and `MakePatches` makes the faces.  `CloseShape` and `PatchShellTool` add
caps.  Cutting, sewing and filling are OpenCASCADE.

*surfaces*: two and three surfaces in all directions, of two degrees, with and without
knots inside; two rounds of smoothing; lofts of up to three wires (bound `MaxWires`),
plane or not, with a seam, kinks, rings, with guides of which one network is
complete, one is not fused, one has no loops; edges with a knot near an end that has its point or has not, and with two such knots;
one call that throws (`MaxThrows`).  Three
surfaces are the least where one already joined meets another, three wires the least
with one inside.  Joined patches have whole edges in common, untwisted
(`JoinedSurfacesMeet`), 0 is returned for all that touch (`StripsAreJoined`), and the result
is C2 where its degree allows (`SmoothAtLast`); faces come interval by
interval and edge by edge as in the patch algorithm (`FacesFollowTheProfiles`), and patches
fit their frames: an edge keeps the points of its ends, a knot with such a point
stays inside beside an end only if the end is at another, and opposite boundaries agree
(`PatchesFitTheirFrames`).  A near knot with another point stays inside, as in the
code, and no property forbids it.  112,448 states.  Deadlock is off: a joined surface is
the end.

Known: with a single surface `ConcatenateSurfaces` returns an error code that was never
set (`contrib/SurfTools.cxx:482`); the parameters of the profiles outlive
a call that threw (`InterpolateWires.cpp:291`).  The caps are in the model, for the kinds of
faces the shell has; no property is about them, as it would repeat the test that
`CloseShape` makes.  Left out: the fuse of profiles and guides
before `MakeLoops` (a status), poles, sewing, `CWireToCurve`, which keeps nothing.

### Logging and Exchange (with MCExchange, ExchangeProofs)

`Logging` is the logger of the process: which loggers were made, what each lets pass, which
console the object remembers.  `Exchange` extends it with the factory of exporters, the
options kept for file types, an exporter with shapes, the STEP, IGES, BREP and STL
writers and the STEP reader.  Options are a `COptionList`: a value for each option there
is, so that STEP has no `FaceNames` and IGES has.  A file is its groups with their names,
levels and names of faces.  `GroupFaces` puts origins in the order of their addresses, which is
any order.
In FACES mode the shape of a group is its face: in an IGES file both names go to one
entity, first that of the face, then that of the group, which takes the label and adds a
second long name (`IgesFace`, `ExportIges.cpp:213-219`); so it is with a shape or compound
of one face, which sewing gives back as that face.

*exchange*: a shape with faces of two origins and of none and one of wires, both
added in any order to one exporter (`MaxShapes`), and up to four other calls
(`MaxCalls`): register another writer for a known type, assign or set options, create or
construct an exporter, write, read.  Four is what it takes to register, set, create and write.  Up to
four loggers (`MaxLoggers`); settings of the logger change before the other calls, so
that the two do not multiply.  A file has every face with the label and the long names that are
asked for, in the groups its exporter was asked for, whatever is set later
(`GroupsFollowTheMode`); shapes are on their own levels unless put elsewhere
(`LevelsFollowTheLayers`); the console shows what it was last asked to show and files
get everything, until `SetLogger` is called (`ConsoleFollowsTheSettings`).
1,724,787 states.  Deadlock is off: calls are bounded.

*step_names* shows a finding: the reader gives the names of all products to the first shape.

Known: `ExporterFactory::Create` throws for a type it does not know, where
`ExporterFactory.h:37` says "Returns NULL, if the format is unknown";
`SetApplySymmetries` and `SetIncludeFarfield` (`CADExporter.h:43`) set options no class
has, and throw; `FACES` gives a group the name of the face's origin, where
`CCPACSImportExport.h:33` says "The group name and the face name are identical": the face of a
STEP product has its own name, and that of an IGES file the label of the group and up to two
long names, the second of which it gets even if no face names are asked for; the result of the STL
writer is not looked at; options without a deflection make the STL writer throw; a copy
of a `COptionList` keeps iterators into the list it was copied from
(`COptionList.h:139`); a reference from `getExportConfig` dangles after another
class is registered.  Left out: short names (a label stands for the name it is cut from), units, the debug stream, threads that log
at once, and the factory of importers, which has one entry and, unlike `Create`, does not
put types in lower case (`ImporterFactory.cpp:40`).

### Cache refines MemoCell (with FitAndCacheProofs)

`Cache` is `Cache.h` with readers (`value`), writers (`writeAccess`) and threads
that `clear`.  A call takes the steps between which other threads can be seen:
lock, look, build, return or throw, leave.  Objects are numbered, so that a
reference to one that is gone can be told from one to its successor, although
in C++ both lie in the same `std::optional`.  `MemoCell` is what the cache
promises, without locks and without half-built objects; `IsMemoCell` is the
refinement, in which a cache that is building is still empty.

*cache_threads*: two readers, a writer and a clearer with two calls each: two
readers can meet in one build, and a second call of each finds every state the
first can leave.  `TypeOK` (the mutex is held exactly by the thread inside),
`OnlyClearInvalidates` (a reference outlives its object only through `clear`),
`IsMemoCell`, and `CallsReturn` under weak fairness of every thread: threads
are scheduled, builds end, references and guards are given back, but the mutex
may prefer whomever it likes.  Every thread makes a bounded number of calls, so
that no thread can be passed over for ever; `Edit`, which a writer may repeat, is
not in the fair step, since nobody is obliged to edit.

Not modelled: a build function that asks its own cache (it would wait for
itself; none does), a moved `ScopeLockedReference` (unlocks twice; none is moved), and
what a reader copies while a writer edits (`Cache.h:40`).

### ShapeHistory (with MCShapeHistory, ShapeHistoryProofs)

`Shape` and `Operation`: trees of nodes for a shape and its subshapes, where a
subshape that is shared by two parents has two nodes, and `get_subshapes` keeps
the first.  A node has origins, tags, and tracks that tell for how many more
operations a tag goes with what the shape becomes.  Actions: wrapping a shape,
tagging it or its subshapes, adding a track, and `value` of an operation, which is
the whole of it: `map_subshapes` by what OpenCASCADE says was modified, then
merging, wearing and applying the tracks.

*shape_history*: a face of two edges with a common vertex is cut, the result is
cut, joined with the face it comes from, and one edge is cut by itself.  Five
trees (bound `MaxTrees`) allow three operations in a row; one edit (`MaxEdits`),
of one subshape, with tracks of one and two operations, at every time between
them.  Descent is what the operations did, neither more (`DescentIsTrue`) nor
less (`DescentIsComplete`); tracks count operations (`TracksCountSteps`), and a new
shape has exactly the tags its tracks bring (`ResultsAreTagged`).
*shape_shared_subshape*: a vertex that two edges share knows its origin only when
it is reached through the first of them.

Known: of the predicates with a depth (`Shape.cpp:160`) all but
`is_descendent_of` ignore it.  Left out: selections that the user keeps as Shapes,
filters by geometry.

### NamedShapes on Solids (with MCNamedShapes, NamedShapesProofs)

The boolean operations are geometry, and `Solids` supplies as much of it as they
need on a board of square cells: a solid is a set of cells, a face a straight run
of walls, a shape a sequence of faces with identities; splitting a face along a
surface, the classifier of points, the central point of a face and sewing, which
makes touching faces anew and in another order.  All of it but the central point
is OpenCASCADE and marked external.  `NamedShapes` is the code of the
repository: which surface cuts what, which pieces are kept, which mapping
carries which names, null operands, results that are one of their operands.
Every class (`CTrimShape`, `CCutShape`, `CBopCommon`, `CMergeShapes`,
`CFuseShapes`, `CGroupShapes`) is an action that makes its whole `Perform`.

*named_shapes*: on a board of 4 x 3 cells, a box, every box, and a small one, with
one call or with a second one on the result, and all calls with null operands.
The board is large enough for boxes to be apart, to touch, to cross, to contain
one another and to be flush.  In general position
(no two solids share a wall) a cut is the difference (`CutIsDifference`), and a fuse
with children apart from one another, or a merge of solids that share whole faces,
is the union (`UnitedSolidsAreUnions`); and in any position, through both calls,
each face has the name of the solid it is a part of, and that solid, or a copy, as
its origin (`TraitsFollowFaces`).

Known: where two solids have faces on a common plane both drop the common part
(`CTrimShape.cpp:110`), and the fuse has a hole; a merge takes faces for common by their
central points alone (`CMergeShapes.cpp:137`); a null operand next to one without
a `TopoDS_Shape` is dereferenced (`CMergeShapes.cpp:87`); the parent of a fuse is copied
before its names are mapped, so that its faces have the copy as their origin
(`CFuseShapes.cpp:135`).

Left out: named shapes without a `TopoDS_Shape`, curved faces, faces that
sewing drops, a face that lies in two shells, short names and UIDs, the
intersection curves `CFuseShapes` collects.  Sewing the same face in two calls
gives faces of the same identity in the model; the scenes do not do so.

## Fairness and deadlock

Only two runs need fairness.  *make_loops_grids*: weak fairness of `Perform`, one thread
that takes its next step.  *cache_threads*: weak fairness of each thread.  No other
property is temporal.  Deadlock is checked but for *surfaces*, *exchange* and *step_names*,
where a program may be at its end; the others have a step for the end.

## What is proved

The proofs hold for every network, every size, every number of threads, loggers, surfaces
and calls; they assume only the ASSUMEs of the modules (a network's edges have ends;
there are curves and parameters for them; crossings are finite in number and integers;
calls on named shapes take what there is by then; edges of profiles have finitely many kinks,
what memory holds is integers; cells to fill are as described with `MakePatches`; shapes to export are lists of faces with names, options have a mode;
two surfaces or more are joined; points and functions are as below; sets of threads are
disjoint), which TLC evaluates for
the instances of the runs.

| theorem | says | for every | run |
|---|---|---|---|
| `MakeLoopsProofs!EveryGridIsCut` | `GridsAreCut` | number of profiles and guides, open or closed, in any numbering | *make_loops_grids* |
| `MakeLoopsProofs!ChainsOnly`, `SuccessIsClosed` | `CellsAreChains`, `SuccessMeansLoops` | network | *make_loops_grids* |
| `CurveNetworkProofs!EveryGridIsSorted` | `GridsAreSorted` | number, order and directions of curves | *networks* (the sorter alone) |
| `CurveNetworkProofs!GridsOfNetworksAreSorted` | `GridsAreSorted` | network, and sorters made again after a failure | *networks* |
| `CurveNetworkProofs!MatricesMeetTheCurves` | `ParametersMeetTheCurves` | network, grid or not, whatever unset cells hold, calls that failed before | *networks* |
| `CurveNetworkProofs!ParametersStayTrue`, `IndicesStayTrue`, `SortersOfNetworksStayTrue` | `ParametersFollowCurves`, `IndicesTellTheDirection` | network | *networks* |
| `SurfaceProofs!JoinedSurfacesAreSmooth` | `SmoothAtLast` | list of surfaces, degrees, knots, rounds | *surfaces* |
| `SurfaceProofs!LoftsFollowTheProfiles` | `FacesFollowTheProfiles` | number of profiles, edges, kinks; calls that throw | *surfaces* |
| `SurfaceProofs!PatchesFillTheFrames` | `PatchesFitTheirFrames` | network of cells, directions of edges, degrees, knots | *surfaces* |
| `ExchangeProofs!ConsoleIsAsSet` | `ConsoleFollowsTheSettings` | number of loggers and calls | *exchange* |
| `ExchangeProofs!FilesGroupAsAsked`, `LayersAreKept` | `GroupsFollowTheMode`, `LevelsFollowTheLayers` | shapes, options, registered exporters, calls | *exchange* |
| `FitAndCacheProofs!FitsKeepTheirPoints` | `FitsInterpolate` | points, degree, control points, kinks, rounds, errors | *splines* |
| `FitAndCacheProofs!ClosedFitsClose` | `FitsClose` | closed points | *splines* |
| `FitAndCacheProofs!FunctionsAreCovered` | `FunctionIsCovered` | range, degree, depth, choice of the parts that are good enough | *splines* |
| `ShapeHistoryProofs!HistoriesAreTrue`, `HistoriesAreComplete` | `DescentIsTrue`, `DescentIsComplete` | shapes, operations and what they modify, in any number | *shape_history* |
| `ShapeHistoryProofs!TracksAreFollowed` | `TracksCountSteps` | shapes, operations, tracks and lives | *shape_history* |
| `ShapeHistoryProofs!ResultsGetTheirTags` | `ResultsAreTagged` (every step) | shapes, operations, tracks and lives | *shape_history* |
| `NamedShapesProofs!FacesKeepTheirTraits` | `TraitsFollowFaces` | board, solids, calls in any number and position, null operands | *named_shapes* |
| `FitAndCacheProofs!CacheTypeCorrect`, `Valid`, `CacheIsMemoCell` | `TypeOK`, `OnlyClearInvalidates`, `IsMemoCell` | number of threads and calls | *cache_threads* |

The other theorems listed (types, the permutation of curves, mutual exclusion, complete and
lazy builds) state invariants the runs do not spend time on.

- *MakeLoopsProofs: chains.*  The patches stored say nothing about the one being
  made, so the invariant is strengthened by `QuadIsChain`: the edges found for the
  present patch meet, as far as there are some, and end at the current vertex.
  `CellStored` then shows that a fourth edge closes the chain, and that the test before
  it is stored makes a loop of it when no edge is reversed.
- *MakeLoopsProofs: grids.*  `GridInv` is the whole course of the walk.  It starts at a
  place `s` of the layout (any, where the direction is closed, else its beginning) and
  stands at row `i`, column `j` counted from there (`Walking`), in one of four ways
  (`AtFirst` to `AtFourth`), each with the corners the walk has in mind; the
  cells so far are those of `i` whole rows and of `j` columns of the next
  (`CellsUpTo`).  Before that is `NotBegun`, after it `AllIsCut`.  The lemmas on
  edges say which edge leaves or enters a vertex of a grid, so that each search of the
  code finds exactly one edge, or none where an open row ends; each action then moves
  `(i, j)`.  That the cells are all patches, each once, is a bijection between places and
  patches (`CellsArePatches`, `PatchesAreCells`, `CellsApart`), for which a grid needs two
  guides.
- *CurveNetworkProofs: the sorter, every network.*  A step changes the network in two
  ways only: by a permutation of places (`PermuteKeeps`) or by a reversal
  (`ReverseProfileKeeps`, `ReverseGuideKeeps`).  Each lemma is proved once and cited
  for every action.  That indices tell the direction needs that no curve is reversed
  twice; this holds because a curve is tested once, in its last place, and the one
  guide that is reversed earlier is the first (`Unmarked`).
- *CurveNetworkProofs: the sorter, grids.*  `GridInv` says what each part of `Perform` leaves to the next: the
  curves still cross in one order (`GridOrder`, which survives permutations and reversals);
  the first profile and the first guide start at the corner (`StartIsFound`); the
  bubble sorts have the greatest behind `n` and the greatest so far at `k`
  (`InPass`); and the first row being sorted, a test of the first two parameters
  decides the direction of a whole curve (`CurvesRunForward`).  A start exists
  because the first profile along any guide begins at a guide along which it is the
  first or the last (`StartExists`).
- *CurveNetworkProofs: the object.*  `NetworkIInv` joins the sorter's invariant with the object's: every
  place has a curve of its own (`AllCurvesPlaced`), curves may lose crossings and never get new
  ones (`NoNewCrossings`), ranges are not empty once curves have got new parameters (`NewParametersAscend`, `Ranges`),
  and the sorter was given the curves in unit ranges, with where they meet then
  (`GivenToTheSorter`).  That last part, together with the sorter's `ParametersFollowCurves`, is
  what carries over `TakeSorted`: a parameter the sorter has turned with its curve is where the
  curve, turned by the same reversals, meets the other one (`TakenCurves`,
  `TakenParameters`).  Two curves that meet once at first meet once or not at all (`MeetOnce`), so
  that the cell was written.  The calls that throw are steps like others.
- *SurfaceProofs: smoothing.*  `JoinInv`: smoothing along u comes to its end before that along v begins, and a
  round along v leaves the knots and the degree along u alone (`OneAfterTheOther`).
- *SurfaceProofs: faces of lofts.*  `FacesInv`: in the middle of a loft the shell has the edges
  skinned so far, with parameters for as many profiles as there are now, although those of a call
  that threw are kept (`Skinning`); once it is cut its faces follow the profiles (`Closing`); and
  a result was made of the wires it names (`MadeAsMeant`).  `StripsAre` and `PlaceAt` say which
  face is where once the shell is cut into intervals and resorted, `NextPlace` which comes
  after it, and `PiecesFollow` that the cut at kinks refines that order and changes no other;
  `CutFollows` puts them together, for no edges too.
- *SurfaceProofs: patches.*  An end stays, if no near knot has its point, or moves to one that has
  (`NearKnotIs`), and what is left inside is behind it (`InsideIs`, `NoSlivers`); of the three edges left, one begins where the first does,
  one touches its end and the third closes the ring (`ArrangedIs`), so that reversals leave
  each at its corners, and opposite edges get one degree and one list of knots
  (`CompatibleIs`, `SurfaceFits`).  No frame is left out, hence the patches are those of the rows, in their order
  (`RowIs`, `PatchesFit`).
- *ExchangeProofs: files.*  `ExchangeInv`: an exporter works with the options it was asked for, at
  once or when it first needs them (`IsExporter`), and a file is what its exporter made of its
  shapes, whatever is set or added later (`WrittenBy`).  That says nothing of the order in which
  `GroupFaces` goes through origins, since it says how many: joining sequences
  keeps sums (`FlattenWeighs`), so that, for every name, the faces written under it are as many as the
  shapes have.  The one thing to know of an order is that it has each origin once
  (`OriginsAreOrdered`): then the faces of a shape are those of its origins, none of them twice
  (`TotalOfDisjoint`).  Levels follow from where the parts of a joined sequence are found
  (`FlattenPlaces`).  The recursions in `Total`, `Levels` and `FlattenSeq` come to their
  sums by `RecursionRuns` and `Climb` of OrderLemmas.
- *ExchangeProofs: the console.*  `LogInv`: the console that is remembered has the verbosity asked for
  (`ConsoleIsSet`) and is where messages come to, as the logger of the process or
  as the second part of its splitter (`ConsoleIsReached`).  Loggers are only ever added, so
  that what is behind an older one stays what it was.
- *FitAndCacheProofs: fits.*  A point is approximated or interpolated, never both
  (`PointsInv`), so that rounds, which move approximated points, leave the parameters of
  the others; without rounds all parameters are the first (`AreParams`).  The knots stay
  as `computeKnots` made them (`KnotsDone`): they ascend between two full ends, and
  every kink has an inner knot of multiplicity degree, at it or within the tolerance.
  `KinkAtKnot` and `KinkBetweenKnots` show that one more kink takes none away, and
  `KnotsAreFit` goes through the list of kinks.  `SolvedIsGood` draws the
  properties from the solution that is returned.  Assumed of the points
  (`FitsAssumption`): parameters ascend, which `computeParameters` sees to where no two
  points coincide, in units in which uniform knots differ, and no inner point is nearer to an end
  than the tolerance of knots (1e-4); what happens otherwise is under "Known" above.
- *FitAndCacheProofs: functions.*  The segments that are done and the parts to do lie side by side
  and make up the range (`Covers`, `Halved`), and a part of depth d has a length that the least
  part goes into `Parts[maxDepth - d]` times (`AreParts`), so that there are no more segments
  than `Parts[maxDepth - 1]` (`FewSegments`).  That the joined curve is a spline comes down to the sum
  of its multiplicities (`SumReached`, `JoinedPoles`).  Assumed: the halves are whole
  numbers down to the greatest depth, a matter of the unit.
- *ShapeHistoryProofs: histories.*  `HistoryInv`: the inputs of a tree are nodes of earlier trees, and
  the origins of a node are nodes of the inputs that its algorithm made it of, among them all
  that `get_subshapes` returns if it is itself the first of its top (`OriginsOf`).  A search
  starts anew from the origins (`ReachFromTheFront`), and trees that come later
  change neither what it finds (`ReachStays`) nor what was made of what (`MadeByStays`).  Both
  directions then go from tree to tree: what is found was made of that top
  (`FoundIsAncestor`), and a whole shape forgets nothing (`WholeForgetsNothing`), since below
  a node each top is met a first time and the first of a part is the first of the whole
  (`FirstsAreThere`, `EarlierInAPart`).  Assumed: no shape is a part of itself
  (`PartAssumption`: parts are of a lower `Height`), as faces are made of wires, and wires of edges;
  without it a `Shape` would unfold for ever.
- *ShapeHistoryProofs: tracks.*  `TracksInv`: a node's own tracks are unused, and a root has
  inherited exactly the tracks of the inputs that had more than one step left, each worn by one.
  That says what one operation does; `TracksAreCounted` adds it up along all ways
  (`StepCases`), and `ArrivingTracks` tells what of that reaches the tags of a new shape.
- *NamedShapesProofs.*  A face is settled if its traits name a solid that has the face as a part, and
  that solid or its copy as origin (`Marked`).  `ShapesOK`: every object is an operand, that
  is, each face is settled or, in a solid or a copy, has no origin yet but the right name; and what a call
  returned is settled throughout.  `SetDerivedFromShape` settles a face that gets its traits from an
  operand (`DerivedIsMarked`), so that a mapping settles all faces that the operand's faces became
  and unsettles none (`SetTraitsGets`, `MapNamesGets`), provided that no face becomes a larger one
  (`Narrows`): splitting only narrows, and sewing keeps the walls (`SplitsNarrow`,
  `SewingKeepsWalls`).  What remains for each class is that its mappings together reach every
  face of its result, after all the sewing (`ShellifyIsSettled`, `SplitTrimIsSettled`,
  `MergedIsSettled`, `CommonIsSettled`, `FusedIsSettled`, `GroupedIsSettled`).
- *FitAndCacheProofs: the cache.*  `IInv` ties where threads are to the mutex
  (`Locked`), the object to the one thread that builds it (`Object`), the
  references to the objects and clears there were (`References`), and counts builds
  (`Built`); each property follows from it, and with it every step of the cache is a
  step of the memo cell or none.
- *OrderLemmas.*  A finite set of numbers has a least one, a greatest one, and a first place
  where a function is least; used for every search of the code that takes the first.  A loop
  whose steps are a function of the place and of what there was before has a run
  (`LoopRuns`), and what is defined for each member of a set from those of a lower rank is
  defined for all (`RecursionRuns`); used for the recursive functions of the models.  What a
  list of lists has when it is flattened (`FlattenJoins`, `FlattenKeeps`), where each
  part begins (`FlattenStarts`, `FlattenEven`), and that two of the same lengths
  are flattened in step (`FlattenInStep`).

### Only model-checked

- `Terminates`, `CallsReturn`: liveness needs fairness and ENABLED, out of the prover's
  reach.
- `CurvePassesPoints`, `KinksAreWhereAsked`, `ConcatGoesThroughAll`, `CommonKnotsAreCommon`,
  `SurfacesFollow`, `SurfacePassesCurves`, `SplinesAreValid`: what is said is what folds over lists of
  knots and points compute.  For lists of every length that is induction over data, whose
  theorems take an operator as a parameter; where the proofs go through a list all the
  same (`Climb`, `LoopRuns`), the loop is a recursive function and one step of it is short.
  Nor are they true of all constants: parameters that are rescaled are rounded to whole
  numbers, and the unit of the run is chosen so that its own stay whole.
- `CutIsDifference`, `UnitedSolidsAreUnions`: that the pieces which are kept enclose the right cells is
  geometry (walls that separate, the parity of crossings), of which the board is an
  instance; the proof about names needs only that pieces are parts.
- `JoinedSurfacesMeet`, `StripsAreJoined`: corners of surfaces that are turned and reversed as
  one is joined to the next.  Boundaries are told apart by their middles, which the model
  rounds to whole numbers, so that neither is true of all corners in a plane.
- `FirstSurfaceIsOfAClosedNetwork` is not true of all constants: in a network of many
  curves one may stick out by more than the tolerance and average out.
  `GridsGetASurface` holds for the tolerances of the code and the grids of the run.

The modules with theorems have no RECURSIVE operator.

## Findings

| run | where | what |
|---|---|---|
| *make_loops_missing_edge* | `contrib/MakeLoops.cxx:581` | an edge of a closed profile is missing: status OK, and the array written behind its end |
| *shape_shared_subshape* | `geoml/naming_choosing/Shape.h:682` | a shared subshape knows its origin on one way only |
| *interpolation_offset* | `geometry/PointsToBSplineInterpolation.cpp:198` | a closed curve of even degree whose parameters begin behind 0 does not pass its points at them |
| *step_names* | `imports/StepReader.cpp:100` | the names of all products go to the first shape |

Each run checks one property, a sentence of the documentation or of a comment, and ends
with the behaviour that violates it.  Smaller disagreements are under "Known" above.

## Not modelled

- `geometry/Transformation`, `geometry/Point` and the wrappers in `geoml/*` (curves,
  surfaces, primitives, transformations, predicates, conversions): matrix arithmetic and
  calls of OpenCASCADE, without a state.
- Most of `common/CommonFunctions` and `math/*`: conversions and floating-point
  numerics.  `IntersectBSplines`, projections, `BSplineFit`, arc lengths: minimization over
  floats; what they find enters the models as a choice.
- `RectGridSurface` and `CompoundSurface`: a grid that is checked once and then only read.
- OpenCASCADE (filling, sewing, splitting, files): external; as much of it as the
  code relies on is defined and marked so.
- Lifetime of arguments: `InterpolatePointsWithKinks` keeps a reference to a handle
  of its caller; its callers keep the handle long enough.
- Logging by several threads: nothing in the library logs from a second one.

## Plan

Done: the core of the first plan (`MakeLoops`, the sorter, the cache, histories, named
shapes), its extension (`CurveNetwork`, the splines, surfaces and lofts, exchange), and
the proofs about grids, networks, smoothing, fits, functions, histories and
tracks, names of faces, faces of lofts and patches, files and the console.  Next, in this order:

1. `JoinedSurfacesMeet`, for surfaces whose boundaries have middles of their own.
2. `Shape` selections as shapes of their own, composed with `ShapeHistory`.
