------------------------------ MODULE MakeLoops ------------------------------
(***************************************************************************)
(* MakeLoops::Perform (contrib/MakeLoops.cxx): the search that cuts a      *)
(* network of guide and profile edges into four sided patches and stores   *)
(* them, row by row, in a two dimensional array.                           *)
(*                                                                         *)
(* A network is what the fuser hands to the class.  Its edges and vertices *)
(* are numbered in the order TopExp::MapShapesAndAncestors meets them, so  *)
(* "the first of a list" is the smallest number.  first and last are the   *)
(* ends of an edge in the direction its orientation gives it (the calls    *)
(* with CumOri = True); the edges in reversed carry the flag               *)
(* TopAbs_REVERSED, which only the one call without CumOri sees.  Geometry *)
(* is reduced to the continuity at which the two guide edges, or the two   *)
(* profile edges, of a vertex meet.  layout, which Perform does not have,  *)
(* is how a grid was laid out; only what is expected of grids is about it. *)
(***************************************************************************)
EXTENDS Naturals, FiniteSets, Sequences

CONSTANT Networks    \* the networks Perform may be called on

Continuity == 0 .. 2
NoVertex   == 0      \* the null TopoDS_Vertex

IsNetwork(n) ==
  /\ n.vertices \in SUBSET (Nat \ {NoVertex})
  /\ n.edges \in SUBSET Nat /\ IsFiniteSet(n.edges)
  /\ n.first \in [n.edges -> n.vertices]
  /\ n.last \in [n.edges -> n.vertices]
  /\ n.guides \in SUBSET n.edges
  /\ n.profiles \in SUBSET n.edges
  /\ n.reversed \in SUBSET n.edges
  /\ n.guideJoint \in [n.vertices -> Continuity]
  /\ n.profileJoint \in [n.vertices -> Continuity]

ASSUME NetworksAssumption == \A n \in Networks : IsNetwork(n)

VARIABLES
  net,              \* myGrid with myGuideEdges and myProfileEdges
  pc,               \* where Perform stands
  status,           \* myStatus
  cells,            \* myCells: the four edges of every patch found
  continuities,     \* myContinuities: one entry for every patch found
  cellGrid,         \* myCellGrid: cellGrid[i][j]
  globalStart, startCorner, nextCorner, nextStartCorner, corner, curVertex,
  quad,             \* E1, E2, E3: the edges of the current patch found so far
  isFirstRow, rowLength

object == <<status, cells, continuities, cellGrid>>
search == <<globalStart, startCorner, nextCorner, nextStartCorner, corner,
            curVertex, quad, isFirstRow, rowLength>>
vars   == <<net, pc, object, search>>

(***************************************************************************)
(* The network as Perform reads it.                                        *)
(***************************************************************************)
Starting(v) == {e \in net.edges : net.first[e] = v}
Ending(v)   == {e \in net.edges : net.last[e] = v}

\* An edge is listed once for each of its ends: a ring counts twice.
Degree(v, kind) == Cardinality(Starting(v) \cap kind)
                     + Cardinality(Ending(v) \cap kind)
Extent(v)       == Degree(v, net.edges)

FirstIn(S) == CHOOSE x \in S : \A y \in S : x <= y

\* TopExp::FirstVertex without CumOri: the start of the edge as it was built.
BuiltFirst(e) == IF e \in net.reversed THEN net.last[e] ELSE net.first[e]

Overfull(v) == Degree(v, net.guides) > 2 \/ Degree(v, net.profiles) > 2

MinExtent(v) == \A w \in net.vertices : Extent(v) <= Extent(w)

\* The continuity maps: C0 at a vertex where fewer than two edges meet.
GuideContinuity(v)   == IF Degree(v, net.guides) = 2 THEN net.guideJoint[v] ELSE 0
ProfileContinuity(v) == IF Degree(v, net.profiles) = 2 THEN net.profileJoint[v] ELSE 0

StartingCorners == {v \in net.vertices :
                      /\ MinExtent(v)
                      /\ Starting(v) \cap net.profiles # {}
                      /\ Starting(v) \ net.profiles # {}}

\* The continuity of a patch: the highest one at its four corners.
PatchContinuity(corners) ==
  CHOOSE c \in Continuity :
    LET all == {GuideContinuity(v) : v \in corners}
                 \cup {ProfileContinuity(v) : v \in corners}
    IN  c \in all /\ \A d \in all : d <= c

(***************************************************************************)
(* A new object, and Perform step by step.                                 *)
(***************************************************************************)
Init ==
  /\ net \in Networks
  /\ pc = "vertices"
  /\ status = "OK"
  /\ cells = <<>> /\ continuities = <<>> /\ cellGrid = <<>>
  /\ globalStart = NoVertex /\ startCorner = NoVertex /\ nextCorner = NoVertex
  /\ nextStartCorner = NoVertex /\ corner = NoVertex /\ curVertex = NoVertex
  /\ quad = <<>> /\ isFirstRow = TRUE /\ rowLength = 0

Return(s) ==
  /\ pc' = "done"
  /\ status' = s
  /\ UNCHANGED <<net, cells, continuities, cellGrid, search>>

NoVertices ==
  /\ pc = "vertices"
  /\ net.vertices = {}
  /\ Return("FAIL_NODATA")

NotRectangular ==
  /\ pc = "vertices"
  /\ \E v \in net.vertices : Overfull(v)
  /\ Return("FAIL")

NoStartingCorner ==
  /\ pc = "vertices"
  /\ net.vertices # {}
  /\ \A v \in net.vertices : ~ Overfull(v)
  /\ StartingCorners = {}
  /\ Return("FAIL_STARTINGPOINT")

FindStartingCorner ==
  /\ pc = "vertices"
  /\ \A v \in net.vertices : ~ Overfull(v)
  /\ StartingCorners # {}
  /\ pc' = "first"
  /\ globalStart' = FirstIn(StartingCorners)
  /\ startCorner' = globalStart'
  /\ nextCorner' = globalStart'
  /\ UNCHANGED <<net, object, nextStartCorner, corner, curVertex, quad,
                 isFirstRow, rowLength>>

(***************************************************************************)
(* The loop.  Break leaves it; a break that finds no cell yet sets status. *)
(***************************************************************************)
Break(s) ==
  /\ pc' = "fill"
  /\ status' = s
  /\ UNCHANGED <<net, cells, continuities, cellGrid>>

BreakUnlessFound(s) == Break(IF cells = <<>> THEN s ELSE status)

\* The row that ends is the first one: its cells are the length of a row.
EndRow(found) ==
  IF isFirstRow THEN isFirstRow' = FALSE /\ rowLength' = found
                ELSE UNCHANGED <<isFirstRow, rowLength>>

FullTurn == ~ isFirstRow /\ nextCorner = globalStart

\* Closed guides: the rows are back where they began.
GuidesClosed ==
  /\ pc = "first"
  /\ FullTurn
  /\ corner' = nextCorner
  /\ Break(status)
  /\ UNCHANGED <<globalStart, startCorner, nextCorner, nextStartCorner,
                 curVertex, quad, isFirstRow, rowLength>>

FirstEdges(v) == Starting(v) \cap net.profiles

FindFirstEdge ==
  /\ pc = "first"
  /\ ~ FullTurn
  /\ FirstEdges(nextCorner) # {}
  /\ LET e1 == FirstIn(FirstEdges(nextCorner))
     IN  /\ quad' = <<e1>>
         /\ curVertex' = net.last[e1]
         /\ nextCorner' = net.last[e1]
  /\ corner' = nextCorner
  /\ pc' = "second"
  /\ UNCHANGED <<net, object, globalStart, startCorner, nextStartCorner,
                 isFirstRow, rowLength>>

\* Slip: the corner that was reached is taken for the next row.
NextRowHere == nextCorner

NextRow == nextStartCorner

\* An open profile ends at this corner: go on with the next row.
OpenProfileEnds ==
  /\ pc = "first"
  /\ ~ FullTurn
  /\ FirstEdges(nextCorner) = {}
  /\ nextStartCorner # NoVertex
  /\ corner' = nextCorner
  /\ startCorner' = NextRow
  /\ nextCorner' = NextRow
  /\ quad' = <<>>
  /\ EndRow(Len(cells))
  /\ UNCHANGED <<net, pc, object, globalStart, nextStartCorner, curVertex>>

NoFirstEdge ==
  /\ pc = "first"
  /\ ~ FullTurn
  /\ FirstEdges(nextCorner) = {}
  /\ nextStartCorner = NoVertex
  /\ corner' = nextCorner
  /\ quad' = <<>>
  /\ Break("FAIL_FIRSTEDGE")
  /\ UNCHANGED <<globalStart, startCorner, nextCorner, nextStartCorner,
                 curVertex, isFirstRow, rowLength>>

SecondEdges == Starting(curVertex) \cap net.guides

\* A profile that is back at the start of its row is closed: the next row
\* starts at the other end of this guide edge.
FindSecondEdge ==
  /\ pc = "second"
  /\ SecondEdges # {}
  /\ LET e2 == FirstIn(SecondEdges)
         closed == nextCorner = startCorner
     IN  /\ quad' = <<quad[1], e2>>
         /\ curVertex' = net.last[e2]
         /\ startCorner' = IF closed THEN net.last[e2] ELSE startCorner
         /\ nextCorner' = IF closed THEN net.last[e2] ELSE nextCorner
  /\ pc' = "third"
  /\ UNCHANGED <<net, object, globalStart, nextStartCorner, corner,
                 isFirstRow, rowLength>>

NoSecondEdge ==
  /\ pc = "second"
  /\ SecondEdges = {}
  /\ BreakUnlessFound("FAIL_SECONDEDGE")
  /\ UNCHANGED search

\* Slip: the profile edge leaves the end of the guide edge.
ThirdEdgesLeaving == Starting(curVertex) \cap net.profiles

ThirdEdges == Ending(curVertex) \cap net.profiles

FindThirdEdge ==
  /\ pc = "third"
  /\ ThirdEdges # {}
  /\ LET e3 == FirstIn(ThirdEdges)
     IN  /\ quad' = <<quad[1], quad[2], e3>>
         /\ curVertex' = net.first[e3]
         /\ nextStartCorner' = IF corner = startCorner THEN net.first[e3]
                                                       ELSE nextStartCorner
  /\ pc' = "fourth"
  /\ UNCHANGED <<net, object, globalStart, startCorner, nextCorner, corner,
                 isFirstRow, rowLength>>

NoThirdEdge ==
  /\ pc = "third"
  /\ ThirdEdges = {}
  /\ BreakUnlessFound("FAIL_THIRDEDGE")
  /\ UNCHANGED search

FourthEdges == Ending(curVertex) \cap net.guides

NoFourthEdge ==
  /\ pc = "fourth"
  /\ FourthEdges = {}
  /\ BreakUnlessFound("FAIL_FOURTHEDGE")
  /\ UNCHANGED search

\* The cell is stored before the check that its first and fourth edge meet.
StoreCell(e4) ==
  /\ cells' = Append(cells, <<quad[1], quad[2], quad[3], e4>>)
  /\ continuities' = Append(continuities,
                       PatchContinuity({net.first[quad[1]], net.first[quad[2]],
                                        net.last[quad[3]], net.last[e4]}))

\* Slip: the check is left out.
ClosesAnyPatch(e4) == TRUE

ClosesPatch(e4) == BuiltFirst(e4) = BuiltFirst(quad[1])

FindFourthEdge ==
  /\ pc = "fourth"
  /\ FourthEdges # {}
  /\ LET e4 == FirstIn(FourthEdges)
     IN  /\ StoreCell(e4)
         /\ ClosesPatch(e4)
  /\ IF nextCorner = startCorner
       THEN /\ startCorner' = NextRow
            /\ nextCorner' = NextRow
            /\ EndRow(Len(cells'))
       ELSE UNCHANGED <<startCorner, nextCorner, isFirstRow, rowLength>>
  /\ pc' = "first"
  /\ UNCHANGED <<net, status, cellGrid, globalStart, nextStartCorner, corner,
                 curVertex, quad>>

EdgesDoNotMeet ==
  /\ pc = "fourth"
  /\ FourthEdges # {}
  /\ LET e4 == FirstIn(FourthEdges)
     IN  /\ StoreCell(e4)
         /\ ~ ClosesPatch(e4)
  /\ pc' = "fill"
  /\ status' = "FAIL_FOURTHEDGE"
  /\ UNCHANGED <<net, cellGrid, search>>

(***************************************************************************)
(* After the loop: the list of cells becomes rows of rowLength cells.      *)
(* SetValue on a row the array does not have is out of range.              *)
(***************************************************************************)
ColLength == Len(cells) \div rowLength

CellByRow(i, j) == (i - 1) * rowLength + j

NoRow ==
  /\ pc = "fill"
  /\ rowLength = 0
  /\ Return("FAIL")

FillCellGrid ==
  /\ pc = "fill"
  /\ rowLength # 0
  /\ cellGrid' = [i \in 1 .. ColLength |->
                    [j \in 1 .. rowLength |-> cells[CellByRow(i, j)]]]
  /\ pc' = IF Len(cells) = ColLength * rowLength THEN "done" ELSE "out of range"
  /\ UNCHANGED <<net, status, cells, continuities, search>>

Finished == pc \in {"done", "out of range"}

Stopped == Finished /\ UNCHANGED vars

Loop ==
  \/ GuidesClosed \/ FindFirstEdge \/ OpenProfileEnds \/ NoFirstEdge
  \/ FindSecondEdge \/ NoSecondEdge
  \/ FindThirdEdge \/ NoThirdEdge
  \/ FindFourthEdge \/ NoFourthEdge \/ EdgesDoNotMeet

Perform ==
  \/ NoVertices \/ NotRectangular \/ NoStartingCorner \/ FindStartingCorner
  \/ Loop
  \/ NoRow \/ FillCellGrid

Next == Perform \/ Stopped

Spec == Init /\ [][Next]_vars

\* Perform is a plain loop in one thread: it takes its next step.
FairSpec == Spec /\ WF_vars(Perform)
-----------------------------------------------------------------------------
(***************************************************************************)
(* Properties.                                                             *)
(***************************************************************************)
Status == {"OK", "FAIL_STARTINGPOINT", "FAIL_NODATA", "FAIL_FIRSTEDGE",
           "FAIL_SECONDEDGE", "FAIL_THIRDEDGE", "FAIL_FOURTHEDGE", "FAIL"}

Phase == {"vertices", "first", "second", "third", "fourth", "fill", "done",
          "out of range"}

\* The variables of Perform and of the object keep their types, and a corner
\* the search stands on is a vertex of the network.
TypeOK ==
  /\ net \in Networks
  /\ pc \in Phase
  /\ status \in Status
  /\ cells \in Seq(net.edges \X net.edges \X net.edges \X net.edges)
  /\ continuities \in Seq(Continuity)
  /\ {globalStart, startCorner, nextCorner, nextStartCorner, corner, curVertex}
       \subseteq net.vertices \cup {NoVertex}
  /\ quad \in Seq(net.edges)
  /\ isFirstRow \in BOOLEAN
  /\ rowLength \in 0 .. Len(cells)
  /\ pc = "second" => Len(quad) = 1
  /\ pc = "third" => Len(quad) = 2
  /\ pc = "fourth" => Len(quad) = 3

\* Two profile edges joined by two guide edges, as BuildSurface needs them:
\* the second edge leaves the end of the first, the third ends where the
\* second ends, the fourth ends where the third starts.
IsChain(q) ==
  /\ q[1] \in net.profiles /\ q[3] \in net.profiles
  /\ q[2] \in net.guides /\ q[4] \in net.guides
  /\ net.last[q[1]] = net.first[q[2]]
  /\ net.last[q[2]] = net.last[q[3]]
  /\ net.first[q[3]] = net.last[q[4]]

\* The edges of the current patch are such a chain as far as they are known,
\* and curVertex is the corner the next edge is sought at.
QuadIsChain ==
  /\ pc \in {"second", "third", "fourth"} => quad[1] \in net.profiles
  /\ pc = "second" => curVertex = net.last[quad[1]]
  /\ pc \in {"third", "fourth"} => /\ quad[2] \in net.guides
                                   /\ net.last[quad[1]] = net.first[quad[2]]
  /\ pc = "third" => curVertex = net.last[quad[2]]
  /\ pc = "fourth" => /\ quad[3] \in net.profiles
                      /\ net.last[quad[2]] = net.last[quad[3]]
                      /\ curVertex = net.first[quad[3]]

IsLoop(q) == IsChain(q) /\ net.first[q[4]] = net.first[q[1]]

\* Whatever the network, every stored cell is an unbroken chain of a profile,
\* a guide, a profile and a guide edge: the search never mixes the edges of
\* two patches, although it keeps its corners from one turn to the next.
CellsAreChains == \A i \in DOMAIN cells : IsChain(cells[i])

\* A success is an array of closed patches: when Perform ends with status OK,
\* the fourth edge of every cell starts where the first one does.
SuccessMeansLoops ==
  Finished /\ status = "OK" => \A i \in DOMAIN cells : IsLoop(cells[i])

\* Why: a cell that does not close ends the loop with a failure at once.
OpenCellFails ==
  \/ pc \in {"fill", "done", "out of range"} /\ status # "OK"
  \/ \A i \in DOMAIN cells : IsLoop(cells[i])

\* The cells beside each other in myCellGrid share the guide edge between
\* them and the cells above each other the profile edge.
NeighboursShareEdges ==
  \A i \in DOMAIN cellGrid : \A j \in DOMAIN cellGrid[i] :
    /\ j + 1 \in DOMAIN cellGrid[i] => cellGrid[i][j][2] = cellGrid[i][j + 1][4]
    /\ i + 1 \in DOMAIN cellGrid => cellGrid[i][j][3] = cellGrid[i + 1][j][1]

\* The four sided meshes of the network.
Patches == {q \in UNION {{e} \X (Starting(net.last[e]) \cap net.guides)
                             \X net.profiles \X net.guides : e \in net.profiles} :
              IsLoop(q)}

\* The place behind place k of n in a ring.
After(k, n) == IF k + 1 = n THEN 0 ELSE k + 1

\* A rectangular grid: p profiles cross g guides, each pair at one vertex.  The
\* guides have an edge from each profile to the next, which makes rows of
\* patches, and the profiles from each guide to the next, which makes columns;
\* one more behind the last where they are closed.  The edges lie as they were
\* built.  Of one guide alone no closed profiles can be cut.
IsGrid(n) ==
  LET l  == n.layout
      ks == 0 .. l.p - 1
      cs == 0 .. l.g - 1
  IN  /\ l.p \in Nat \ {0} /\ l.g \in Nat \ {0, 1}
      /\ l.rows \in {l.p, l.p - 1} \ {0} /\ l.cols \in {l.g, l.g - 1}
      /\ DOMAIN l.at = ks \X cs /\ n.vertices = {l.at[x] : x \in DOMAIN l.at}
      /\ \A x, y \in DOMAIN l.at : l.at[x] = l.at[y] => x = y
      /\ DOMAIN l.profile = ks \X (0 .. l.cols - 1)
      /\ DOMAIN l.guide = (0 .. l.rows - 1) \X cs
      /\ n.profiles = {l.profile[x] : x \in DOMAIN l.profile}
      /\ n.guides = {l.guide[x] : x \in DOMAIN l.guide}
      /\ n.edges = n.profiles \cup n.guides /\ n.profiles \cap n.guides = {}
      /\ \A x \in DOMAIN l.profile : /\ n.first[l.profile[x]] = l.at[x]
                                     /\ n.last[l.profile[x]] = l.at[<<x[1], After(x[2], l.g)>>]
      /\ \A x \in DOMAIN l.guide : /\ n.first[l.guide[x]] = l.at[x]
                                   /\ n.last[l.guide[x]] = l.at[<<After(x[1], l.p), x[2]>>]
      /\ n.reversed = {}

\* Every patch of the network is found, each one once.
PatchesAreCut ==
  /\ status = "OK" /\ pc = "done"
  /\ {cells[i] : i \in DOMAIN cells} = Patches
  /\ Len(cells) = Cardinality(Patches)

\* The first index of the array counts the patches along the guides, the second
\* those along the profiles: one between two guides and, when the profiles are
\* closed, one behind the last guide.
ArrayHasTheSizeOfTheGrid ==
  /\ Len(cellGrid) = net.layout.rows
  /\ \A i \in DOMAIN cellGrid : Len(cellGrid[i]) = net.layout.cols

\* Perform cuts a grid, open or closed, into its patches, each one once, and
\* puts them into an array of the right size in which neighbours are neighbours
\* in the grid: no row is repeated or skipped where the walk turns into the next.
GridsAreCut ==
  Finished /\ IsGrid(net) =>
    PatchesAreCut /\ NeighboursShareEdges /\ ArrayHasTheSizeOfTheGrid

\* While cells were found and status is OK the array holds all of them:
\* SetValue is never called on a row that the array does not have.
\* (MakeLoops.hxx: "MAKELOOPS_OK : Algorithm successful".)
SuccessFillsTheArray == pc = "out of range" => status # "OK"

\* The loop ends, whatever single fault the grid has.
Terminates == <>Finished
=============================================================================
