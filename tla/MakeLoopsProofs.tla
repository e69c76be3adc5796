--------------------------- MODULE MakeLoopsProofs ---------------------------
(***************************************************************************)
(* What MakeLoops guarantees for every network: its types, that it never   *)
(* mixes the edges of two patches, and, when every edge lies in the        *)
(* direction it was built, that a success stands for closed patches only.  *)
(* What it guarantees for every rectangular grid: that all of it is cut.   *)
(***************************************************************************)
EXTENDS MakeLoops, OrderLemmas, TLAPS

\* The first element of a list belongs to it.
LEMMA FirstInSet ==
  ASSUME NEW S \in SUBSET Nat, S # {}
  PROVE  FirstIn(S) \in S
BY LeastNumber DEF FirstIn

\* The highest of the continuities at the corners of a patch exists.
LEMMA PatchContinuityType ==
  ASSUME IsNetwork(net), NEW corners \in SUBSET net.vertices, corners # {}
  PROVE  PatchContinuity(corners) \in Continuity
<1> DEFINE all == {GuideContinuity(v) : v \in corners}
                    \cup {ProfileContinuity(v) : v \in corners}
<1>1. all \subseteq Continuity
  BY DEF IsNetwork, GuideContinuity, ProfileContinuity, Continuity
<1>2. all # {}
  OBVIOUS
<1>3. \E c \in Continuity : c \in all /\ \A d \in all : d <= c
  <2> HIDE DEF all
  <2>1. all \subseteq {0, 1, 2}
    BY <1>1 DEF Continuity
  <2>2. CASE 2 \in all
    BY <2>1, <2>2 DEF Continuity
  <2>3. CASE 2 \notin all /\ 1 \in all
    BY <2>1, <2>3 DEF Continuity
  <2>4. CASE 2 \notin all /\ 1 \notin all
    <3>1. all = {0}
      BY <1>2, <2>1, <2>4
    <3> QED
      BY <3>1 DEF Continuity
  <2> QED
    BY <2>2, <2>3, <2>4
<1> QED
  BY <1>3, Zenon DEF PatchContinuity

(***************************************************************************)
(* Types.                                                                  *)
(***************************************************************************)
\* What the network gives: its edges are numbers, their ends vertices.
LEMMA NetworkEdges ==
  ASSUME net \in Networks
  PROVE  /\ IsNetwork(net)
         /\ net.edges \in SUBSET Nat
         /\ net.vertices \in SUBSET Nat
         /\ NoVertex \notin net.vertices
         /\ net.profiles \subseteq net.edges /\ net.guides \subseteq net.edges
         /\ \A e \in net.edges : /\ net.first[e] \in net.vertices
                                 /\ net.last[e] \in net.vertices
BY NetworksAssumption DEF IsNetwork, NoVertex

\* The edge each search finds: of its kind and at its vertex.
LEMMA EdgeFound ==
  ASSUME net \in Networks, NEW v
  PROVE  /\ FirstEdges(v) # {} =>
              /\ FirstIn(FirstEdges(v)) \in net.profiles
              /\ net.first[FirstIn(FirstEdges(v))] = v
         /\ SecondEdges # {} =>
              /\ FirstIn(SecondEdges) \in net.guides
              /\ net.first[FirstIn(SecondEdges)] = curVertex
         /\ ThirdEdges # {} =>
              /\ FirstIn(ThirdEdges) \in net.profiles
              /\ net.last[FirstIn(ThirdEdges)] = curVertex
         /\ FourthEdges # {} =>
              /\ FirstIn(FourthEdges) \in net.guides
              /\ net.last[FirstIn(FourthEdges)] = curVertex
<1>1. /\ FirstEdges(v) \in SUBSET Nat
      /\ SecondEdges \in SUBSET Nat
      /\ ThirdEdges \in SUBSET Nat
      /\ FourthEdges \in SUBSET Nat
  BY NetworkEdges DEF FirstEdges, SecondEdges, ThirdEdges, FourthEdges,
                      Starting, Ending
<1>2. FirstEdges(v) # {} => FirstIn(FirstEdges(v)) \in FirstEdges(v)
  BY <1>1, FirstInSet
<1>3. SecondEdges # {} => FirstIn(SecondEdges) \in SecondEdges
  BY <1>1, FirstInSet
<1>4. ThirdEdges # {} => FirstIn(ThirdEdges) \in ThirdEdges
  BY <1>1, FirstInSet
<1>5. FourthEdges # {} => FirstIn(FourthEdges) \in FourthEdges
  BY <1>1, FirstInSet
<1> QED
  BY <1>2, <1>3, <1>4, <1>5
     DEF FirstEdges, SecondEdges, ThirdEdges, FourthEdges, Starting, Ending

\* A cell that is stored is made of edges of the network, and its continuity
\* is one of the three.
LEMMA StoreCellType ==
  ASSUME TypeOK, QuadIsChain, pc = "fourth", NEW e4 \in net.guides,
         net.last[e4] = curVertex, StoreCell(e4)
  PROVE  /\ cells' \in Seq(net.edges \X net.edges \X net.edges \X net.edges)
         /\ continuities' \in Seq(Continuity)
         /\ Len(cells') = Len(cells) + 1
         /\ \A i \in DOMAIN cells : cells'[i] = cells[i]
         /\ cells'[Len(cells')] = <<quad[1], quad[2], quad[3], e4>>
         /\ IsChain(cells'[Len(cells')])
<1> DEFINE cell == <<quad[1], quad[2], quad[3], e4>>
           corners == {net.first[quad[1]], net.first[quad[2]],
                       net.last[quad[3]], net.last[e4]}
<1>1. /\ net \in Networks /\ quad[1] \in net.edges /\ quad[2] \in net.edges
      /\ quad[3] \in net.edges /\ e4 \in net.edges
  BY NetworkEdges DEF TypeOK, QuadIsChain
<1>2. PatchContinuity(corners) \in Continuity
  <2>1. corners \in SUBSET net.vertices /\ corners # {}
    BY <1>1, NetworkEdges
  <2> HIDE DEF corners
  <2> QED
    BY <1>1, <2>1, NetworkEdges, PatchContinuityType
<1>3. cells' = Append(cells, cell)
  BY DEF StoreCell
<1>4. continuities' = Append(continuities, PatchContinuity(corners))
  BY DEF StoreCell
<1>5. continuities' \in Seq(Continuity)
  <2> HIDE DEF corners
  <2> QED
    BY <1>2, <1>4 DEF TypeOK
<1>6. cell \in net.edges \X net.edges \X net.edges \X net.edges
  BY <1>1
<1>7. IsChain(cell)
  BY DEF IsChain, QuadIsChain
<1> QED
  <2> HIDE DEF cell
  <2>1. /\ cells' \in Seq(net.edges \X net.edges \X net.edges \X net.edges)
        /\ Len(cells') = Len(cells) + 1
        /\ \A i \in DOMAIN cells : cells'[i] = cells[i]
        /\ cells'[Len(cells')] = cell
    BY <1>3, <1>6 DEF TypeOK
  <2> QED
    BY <1>5, <1>7, <2>1 DEF cell

LEMMA ShortLists ==
  ASSUME NEW S, NEW a \in S, NEW b \in S, NEW c \in S
  PROVE  /\ <<a>> \in Seq(S) /\ Len(<<a>>) = 1
         /\ <<a, b>> \in Seq(S) /\ Len(<<a, b>>) = 2
         /\ <<a, b, c>> \in Seq(S) /\ Len(<<a, b, c>>) = 3
OBVIOUS

LEMMA EmptyList ==
  ASSUME NEW S
  PROVE  <<>> \in Seq(S)
OBVIOUS

\* The length of a row is at most the number of cells there are at its end.
LEMMA EndRowType ==
  ASSUME isFirstRow \in BOOLEAN, NEW n \in Nat, NEW m \in Nat, m <= n,
         rowLength \in 0 .. m,
         EndRow(n) \/ UNCHANGED <<isFirstRow, rowLength>>
  PROVE  isFirstRow' \in BOOLEAN /\ rowLength' \in 0 .. n
<1>1. isFirstRow' \in BOOLEAN
  BY Zenon DEF EndRow
<1>2. rowLength' = n \/ rowLength' = rowLength
  BY Zenon DEF EndRow
<1> QED
  BY <1>1, <1>2

LEMMA LenIsNat ==
  ASSUME NEW S, NEW s \in Seq(S)
  PROVE  Len(s) \in Nat
OBVIOUS

\* A list that is one element longer has one index more.
LEMMA ExtendedDomain ==
  ASSUME NEW S, NEW s \in Seq(S), NEW t \in Seq(S), Len(t) = Len(s) + 1
  PROVE  DOMAIN t = DOMAIN s \cup {Len(t)}
OBVIOUS

LEMMA InitTypeOK == Init => TypeOK
BY DEF Init, TypeOK, Phase, Status

\* Every step but the fourth edge keeps the types by itself; the fourth edge
\* needs that the edges found so far are edges of the network.
LEMMA NextTypeOK == TypeOK /\ QuadIsChain /\ [Next]_vars => TypeOK'
<1> SUFFICES ASSUME TypeOK, QuadIsChain, [Next]_vars
             PROVE  TypeOK'
  OBVIOUS
<1> USE DEF Phase, Status
<1>0. net \in Networks /\ Len(cells) \in Nat
  BY LenIsNat DEF TypeOK
<1>1. CASE NoVertices
  BY <1>1 DEF TypeOK, NoVertices, Return, search
<1>2. CASE NotRectangular
  BY <1>2 DEF TypeOK, NotRectangular, Return, search
<1>3. CASE NoStartingCorner
  BY <1>3 DEF TypeOK, NoStartingCorner, Return, search
<1>4. CASE FindStartingCorner
  <2>1. globalStart' \in net.vertices
    <3>1. StartingCorners \in SUBSET Nat
      BY <1>0, NetworkEdges DEF StartingCorners
    <3>2. FirstIn(StartingCorners) \in StartingCorners
      BY <1>4, <3>1, FirstInSet DEF FindStartingCorner
    <3> QED
      BY <1>4, <3>2 DEF FindStartingCorner, StartingCorners
  <2> QED
    BY <1>4, <2>1 DEF TypeOK, FindStartingCorner, object
<1>5. CASE GuidesClosed
  BY <1>5 DEF TypeOK, GuidesClosed, Break
<1>6. CASE FindFirstEdge
  <2> DEFINE e1 == FirstIn(FirstEdges(nextCorner))
  <2>1. e1 \in net.edges /\ net.last[e1] \in net.vertices
    BY <1>0, <1>6, EdgeFound, NetworkEdges DEF FindFirstEdge
  <2>2. quad' = <<e1>> /\ curVertex' = net.last[e1] /\ nextCorner' = net.last[e1]
    BY <1>6 DEF FindFirstEdge
  <2>3. quad' \in Seq(net.edges) /\ Len(quad') = 1
    <3> HIDE DEF e1
    <3> QED
      BY <2>1, <2>2, ShortLists, Zenon
  <2> HIDE DEF e1
  <2> QED
    BY <1>0, <1>6, <2>1, <2>2, <2>3 DEF TypeOK, FindFirstEdge, object
<1>7. CASE OpenProfileEnds
  <2>1. quad' \in Seq(net.edges)
    BY <1>7, EmptyList, Zenon DEF OpenProfileEnds
  <2>2. isFirstRow' \in BOOLEAN /\ rowLength' \in 0 .. Len(cells)
    BY <1>0, <1>7, EndRowType DEF TypeOK, OpenProfileEnds
  <2> QED
    BY <1>0, <1>7, <2>1, <2>2 DEF TypeOK, OpenProfileEnds, NextRow, object
<1>8. CASE NoFirstEdge
  BY <1>8 DEF TypeOK, NoFirstEdge, Break
<1>9. CASE FindSecondEdge
  <2> DEFINE e2 == FirstIn(SecondEdges)
  <2>1. /\ e2 \in net.edges /\ net.last[e2] \in net.vertices
        /\ quad[1] \in net.edges
    BY <1>0, <1>9, EdgeFound, NetworkEdges DEF FindSecondEdge, QuadIsChain
  <2>2. /\ quad' = <<quad[1], e2>> /\ curVertex' = net.last[e2]
        /\ startCorner' \in {startCorner, net.last[e2]}
        /\ nextCorner' \in {nextCorner, net.last[e2]}
    BY <1>9 DEF FindSecondEdge
  <2>3. quad' \in Seq(net.edges) /\ Len(quad') = 2
    <3> HIDE DEF e2
    <3> QED
      BY <2>1, <2>2, ShortLists, Zenon
  <2> HIDE DEF e2
  <2> QED
    BY <1>0, <1>9, <2>1, <2>2, <2>3 DEF TypeOK, FindSecondEdge, object
<1>10. CASE NoSecondEdge
  BY <1>10 DEF TypeOK, NoSecondEdge, BreakUnlessFound, Break, search
<1>11. CASE FindThirdEdge
  <2> DEFINE e3 == FirstIn(ThirdEdges)
  <2>1. /\ e3 \in net.edges /\ net.first[e3] \in net.vertices
        /\ quad[1] \in net.edges /\ quad[2] \in net.edges
    BY <1>0, <1>11, EdgeFound, NetworkEdges DEF FindThirdEdge, QuadIsChain
  <2>2. /\ quad' = <<quad[1], quad[2], e3>> /\ curVertex' = net.first[e3]
        /\ nextStartCorner' \in {nextStartCorner, net.first[e3]}
    BY <1>11 DEF FindThirdEdge
  <2>3. quad' \in Seq(net.edges) /\ Len(quad') = 3
    <3> HIDE DEF e3
    <3> QED
      BY <2>1, <2>2, ShortLists, Zenon
  <2> HIDE DEF e3
  <2> QED
    BY <1>0, <1>11, <2>1, <2>2, <2>3 DEF TypeOK, FindThirdEdge, object
<1>12. CASE NoThirdEdge
  BY <1>12 DEF TypeOK, NoThirdEdge, BreakUnlessFound, Break, search
<1>13. CASE FindFourthEdge
  <2> DEFINE e4 == FirstIn(FourthEdges)
  <2>1. e4 \in net.guides /\ net.last[e4] = curVertex /\ StoreCell(e4)
    BY <1>0, <1>13, EdgeFound DEF FindFourthEdge
  <2>2. /\ cells' \in Seq(net.edges \X net.edges \X net.edges \X net.edges)
        /\ continuities' \in Seq(Continuity)
        /\ Len(cells') = Len(cells) + 1
    <3> HIDE DEF e4
    <3> QED
      BY <1>13, <2>1, StoreCellType DEF FindFourthEdge
  <2>3. isFirstRow' \in BOOLEAN /\ rowLength' \in 0 .. Len(cells')
    <3>1. Len(cells') \in Nat /\ Len(cells) <= Len(cells')
      BY <1>0, <2>2
    <3>2. EndRow(Len(cells')) \/ UNCHANGED <<isFirstRow, rowLength>>
      BY <1>13, Zenon DEF FindFourthEdge
    <3>3. isFirstRow \in BOOLEAN /\ rowLength \in 0 .. Len(cells)
      BY DEF TypeOK
    <3> QED
      BY <1>0, <3>1, <3>2, <3>3, EndRowType, Zenon
  <2>4. /\ startCorner' \in {startCorner, nextStartCorner}
        /\ nextCorner' \in {nextCorner, nextStartCorner}
    BY <1>13, Zenon DEF FindFourthEdge, NextRow
  <2>5. /\ pc' = "first"
        /\ UNCHANGED <<net, status, globalStart, nextStartCorner, corner,
                       curVertex, quad>>
    BY <1>13 DEF FindFourthEdge
  <2> QED
    BY <2>2, <2>3, <2>4, <2>5 DEF TypeOK
<1>14. CASE NoFourthEdge
  BY <1>14 DEF TypeOK, NoFourthEdge, BreakUnlessFound, Break, search
<1>15. CASE EdgesDoNotMeet
  <2> DEFINE e4 == FirstIn(FourthEdges)
  <2>1. e4 \in net.guides /\ net.last[e4] = curVertex /\ StoreCell(e4)
    BY <1>0, <1>15, EdgeFound DEF EdgesDoNotMeet
  <2>2. /\ cells' \in Seq(net.edges \X net.edges \X net.edges \X net.edges)
        /\ continuities' \in Seq(Continuity)
        /\ Len(cells') = Len(cells) + 1
    <3> HIDE DEF e4
    <3> QED
      BY <1>15, <2>1, StoreCellType DEF EdgesDoNotMeet
  <2> QED
    BY <1>0, <1>15, <2>2 DEF TypeOK, EdgesDoNotMeet, search
<1>16. CASE NoRow
  BY <1>16 DEF TypeOK, NoRow, Return, search
<1>17. CASE FillCellGrid
  BY <1>17 DEF TypeOK, FillCellGrid, search
<1>18. CASE UNCHANGED vars
  BY <1>18 DEF TypeOK, vars, object, search
<1> QED
  BY <1>1, <1>2, <1>3, <1>4, <1>5, <1>6, <1>7, <1>8, <1>9, <1>10, <1>11,
     <1>12, <1>13, <1>14, <1>15, <1>16, <1>17, <1>18
     DEF Next, Perform, Loop, Stopped

(***************************************************************************)
(* Chains.                                                                 *)
(***************************************************************************)
\* The edges of the current patch are chained as they are found.
LEMMA NextQuadIsChain == TypeOK /\ QuadIsChain /\ [Next]_vars => QuadIsChain'
<1> SUFFICES ASSUME TypeOK, QuadIsChain, [Next]_vars
             PROVE  QuadIsChain'
  OBVIOUS
<1>0. net \in Networks
  BY DEF TypeOK
<1>1. CASE FindFirstEdge
  <2> DEFINE e1 == FirstIn(FirstEdges(nextCorner))
  <2>1. e1 \in net.profiles
    BY <1>0, <1>1, EdgeFound DEF FindFirstEdge
  <2>2. /\ quad' = <<e1>> /\ curVertex' = net.last[e1] /\ pc' = "second"
        /\ net' = net
    BY <1>1 DEF FindFirstEdge
  <2> HIDE DEF e1
  <2> QED
    BY <2>1, <2>2 DEF QuadIsChain
<1>2. CASE FindSecondEdge
  <2> DEFINE e2 == FirstIn(SecondEdges)
  <2>1. e2 \in net.guides /\ net.first[e2] = curVertex
    BY <1>0, <1>2, EdgeFound DEF FindSecondEdge
  <2>2. /\ quad' = <<quad[1], e2>> /\ curVertex' = net.last[e2]
        /\ pc = "second" /\ pc' = "third" /\ net' = net
    BY <1>2 DEF FindSecondEdge
  <2> HIDE DEF e2
  <2> QED
    BY <2>1, <2>2 DEF QuadIsChain
<1>3. CASE FindThirdEdge
  <2> DEFINE e3 == FirstIn(ThirdEdges)
  <2>1. e3 \in net.profiles /\ net.last[e3] = curVertex
    BY <1>0, <1>3, EdgeFound DEF FindThirdEdge
  <2>2. /\ quad' = <<quad[1], quad[2], e3>> /\ curVertex' = net.first[e3]
        /\ pc = "third" /\ pc' = "fourth" /\ net' = net
    BY <1>3 DEF FindThirdEdge
  <2> HIDE DEF e3
  <2> QED
    BY <2>1, <2>2 DEF QuadIsChain
<1>4. CASE UNCHANGED vars
  BY <1>4 DEF QuadIsChain, vars, search
<1>5. CASE pc' \in {"first", "fill", "done", "out of range"}
  BY <1>5 DEF QuadIsChain
<1> QED
  BY <1>1, <1>2, <1>3, <1>4, <1>5
     DEF Next, Perform, Loop, Stopped, NoVertices, NotRectangular,
         NoStartingCorner, FindStartingCorner, GuidesClosed, OpenProfileEnds,
         NoFirstEdge, NoSecondEdge, NoThirdEdge, FindFourthEdge, NoFourthEdge,
         EdgesDoNotMeet, NoRow, FillCellGrid, Return, Break, BreakUnlessFound

\* A step stores at most one cell, made of the edges of the current patch and
\* of a guide edge that ends where the third one starts.
LEMMA CellStored ==
  ASSUME TypeOK, QuadIsChain, [Next]_vars
  PROVE  /\ net' = net
         /\ \/ UNCHANGED cells
            \/ \E e4 \in net.guides :
                 /\ net.last[e4] = curVertex /\ StoreCell(e4) /\ pc = "fourth"
                 /\ \/ ClosesPatch(e4) /\ UNCHANGED status
                    \/ pc' = "fill" /\ status' = "FAIL_FOURTHEDGE"
<1>0. net \in Networks
  BY DEF TypeOK
<1>1. CASE FindFourthEdge \/ EdgesDoNotMeet
  <2> DEFINE e4 == FirstIn(FourthEdges)
  <2>1. e4 \in net.guides /\ net.last[e4] = curVertex
    BY <1>0, <1>1, EdgeFound DEF FindFourthEdge, EdgesDoNotMeet
  <2>2. /\ StoreCell(e4) /\ pc = "fourth" /\ net' = net
        /\ \/ ClosesPatch(e4) /\ UNCHANGED status
           \/ pc' = "fill" /\ status' = "FAIL_FOURTHEDGE"
    <3>1. CASE FindFourthEdge
      BY <3>1, Zenon DEF FindFourthEdge
    <3>2. CASE EdgesDoNotMeet
      BY <3>2, Zenon DEF EdgesDoNotMeet
    <3> QED
      BY <1>1, <3>1, <3>2
  <2> HIDE DEF e4
  <2> QED
    BY <2>1, <2>2
<1>2. CASE ~ (FindFourthEdge \/ EdgesDoNotMeet)
  <2>1. UNCHANGED <<net, cells>>
    BY <1>2
       DEF Next, Perform, Loop, Stopped, NoVertices, NotRectangular,
           NoStartingCorner, FindStartingCorner, GuidesClosed, FindFirstEdge,
           OpenProfileEnds, NoFirstEdge, FindSecondEdge, NoSecondEdge,
           FindThirdEdge, NoThirdEdge, NoFourthEdge, NoRow, FillCellGrid,
           Return, Break, BreakUnlessFound, vars, object
  <2> QED
    BY <2>1
<1> QED
  BY <1>1, <1>2

LEMMA NextCellsAreChains ==
  TypeOK /\ QuadIsChain /\ CellsAreChains /\ [Next]_vars => CellsAreChains'
<1> SUFFICES ASSUME TypeOK, QuadIsChain, CellsAreChains, [Next]_vars
             PROVE  CellsAreChains'
  OBVIOUS
<1>1. net' = net
  BY CellStored
<1>2. CASE UNCHANGED cells
  BY <1>1, <1>2 DEF CellsAreChains, IsChain
<1>3. CASE \E e4 \in net.guides :
             net.last[e4] = curVertex /\ StoreCell(e4) /\ pc = "fourth"
  <2>1. PICK e4 \in net.guides :
          net.last[e4] = curVertex /\ StoreCell(e4) /\ pc = "fourth"
    BY <1>3
  <2>2. /\ cells' \in Seq(net.edges \X net.edges \X net.edges \X net.edges)
        /\ Len(cells') = Len(cells) + 1
        /\ \A i \in DOMAIN cells : cells'[i] = cells[i]
        /\ IsChain(cells'[Len(cells')])
    BY <2>1, StoreCellType
  <2>3. DOMAIN cells' = DOMAIN cells \cup {Len(cells')}
    BY <2>2, ExtendedDomain DEF TypeOK
  <2>4. \A i \in DOMAIN cells' : IsChain(cells'[i])
    BY <2>2, <2>3 DEF CellsAreChains
  <2> QED
    BY <1>1, <2>4 DEF CellsAreChains, IsChain
<1> QED
  BY <1>2, <1>3, CellStored

(***************************************************************************)
(* The theorems.                                                           *)
(***************************************************************************)
ChainInv == TypeOK /\ QuadIsChain /\ CellsAreChains

LEMMA ChainInvariant == Spec => []ChainInv
<1>1. Init => ChainInv
  <2>1. Init => QuadIsChain /\ CellsAreChains
    BY DEF Init, QuadIsChain, CellsAreChains
  <2> QED
    BY <2>1, InitTypeOK DEF ChainInv
<1>2. ChainInv /\ [Next]_vars => ChainInv'
  BY NextTypeOK, NextQuadIsChain, NextCellsAreChains DEF ChainInv
<1> QED
  BY <1>1, <1>2, PTL DEF Spec

\* Perform keeps its corners on the network and its counters in range,
\* whatever the network.
THEOREM TypeCorrect == Spec => []TypeOK
<1>1. ChainInv => TypeOK
  BY DEF ChainInv
<1> QED
  BY <1>1, ChainInvariant, PTL

\* Every cell MakeLoops ever stores is a chain of a profile, a guide, a
\* profile and a guide edge, whatever the network.
THEOREM ChainsOnly == Spec => []CellsAreChains
<1>1. ChainInv => CellsAreChains
  BY DEF ChainInv
<1> QED
  BY <1>1, ChainInvariant, PTL

\* In a network whose edges all lie in the direction they were built, status
\* OK means that every cell is closed.
THEOREM SuccessIsClosed ==
  ASSUME \A n \in Networks : n.reversed = {}
  PROVE  Spec => []SuccessMeansLoops
<1>1. Init => OpenCellFails
  BY DEF Init, OpenCellFails
<1>2. ChainInv /\ ChainInv' /\ OpenCellFails /\ [Next]_vars => OpenCellFails'
  <2> SUFFICES ASSUME ChainInv, ChainInv', OpenCellFails, [Next]_vars
               PROVE  OpenCellFails'
    OBVIOUS
  <2>0. TypeOK /\ QuadIsChain /\ CellsAreChains' /\ net' = net
    BY CellStored DEF ChainInv
  <2>1. CASE pc \in {"fill", "done", "out of range"} /\ status # "OK"
    BY <2>1 DEF OpenCellFails, Next, Perform, Loop, Stopped, NoVertices,
      NotRectangular, NoStartingCorner, FindStartingCorner, GuidesClosed,
      FindFirstEdge, OpenProfileEnds, NoFirstEdge, FindSecondEdge,
      NoSecondEdge, FindThirdEdge, NoThirdEdge, FindFourthEdge, NoFourthEdge,
      EdgesDoNotMeet, NoRow, FillCellGrid, Return, vars, object
  <2>2. CASE (\A i \in DOMAIN cells : IsLoop(cells[i])) /\ UNCHANGED cells
    BY <2>0, <2>2 DEF OpenCellFails, IsLoop, IsChain
  <2>3. ASSUME NEW e4 \in net.guides, net.last[e4] = curVertex,
               StoreCell(e4), pc = "fourth",
               \A i \in DOMAIN cells : IsLoop(cells[i]), ClosesPatch(e4)
        PROVE  OpenCellFails'
    <3>1. /\ cells' \in Seq(net.edges \X net.edges \X net.edges \X net.edges)
          /\ Len(cells') = Len(cells) + 1
          /\ \A i \in DOMAIN cells : cells'[i] = cells[i]
          /\ cells'[Len(cells')] = <<quad[1], quad[2], quad[3], e4>>
          /\ IsChain(cells'[Len(cells')])
      BY <2>0, <2>3, StoreCellType
    <3>2. net.first[e4] = net.first[quad[1]]
      BY <2>0, <2>3 DEF ClosesPatch, BuiltFirst, TypeOK
    <3>3. IsLoop(cells'[Len(cells')])
      BY <3>1, <3>2 DEF IsLoop
    <3>4. DOMAIN cells' = DOMAIN cells \cup {Len(cells')}
      BY <2>0, <3>1, ExtendedDomain DEF TypeOK
    <3>5. \A i \in DOMAIN cells' : IsLoop(cells'[i])
      BY <2>3, <3>1, <3>3, <3>4
    <3> QED
      BY <2>0, <3>5 DEF OpenCellFails, IsLoop, IsChain
  <2>4. CASE pc' = "fill" /\ status' = "FAIL_FOURTHEDGE"
    BY <2>4 DEF OpenCellFails
  <2> QED
    BY <2>0, <2>1, <2>2, <2>3, <2>4, CellStored DEF OpenCellFails
<1>3. OpenCellFails => SuccessMeansLoops
  BY DEF OpenCellFails, SuccessMeansLoops, Finished
<1> QED
  BY <1>1, <1>2, <1>3, ChainInvariant, PTL DEF Spec

-----------------------------------------------------------------------------
(***************************************************************************)
(* The walk on a grid.  It starts at a place s of the layout l, and other  *)
(* places are told relative to it, by row i and column j, round the closed *)
(* ends.                                                                   *)
(***************************************************************************)
Places(l) == (0 .. l.p - 1) \X (0 .. l.g - 1)

Wrap(k, n) == IF k < n THEN k ELSE k - n

Place(l, s, i, j) == <<Wrap(s[1] + i, l.p), Wrap(s[2] + j, l.g)>>

Crossing(l, s, i, j)    == l.at[Place(l, s, i, j)]
ProfileEdge(l, s, i, j) == l.profile[Place(l, s, i, j)]
GuideEdge(l, s, i, j)   == l.guide[Place(l, s, i, j)]

CellAt(l, s, i, j) == <<ProfileEdge(l, s, i, j), GuideEdge(l, s, i, j + 1),
                        ProfileEdge(l, s, i + 1, j), GuideEdge(l, s, i, j)>>

\* Where a direction is open the walk starts at its beginning.
IsStart(l, s) ==
  /\ s \in Places(l)
  /\ l.rows # l.p => s[1] = 0
  /\ l.cols # l.g => s[2] = 0

\* The cells of i whole rows and of j columns of the next.
CellsUpTo(c, l, s, i, j) ==
  /\ Len(c) = i * l.cols + j
  /\ \A a \in 0 .. i - 1, b \in 0 .. l.cols - 1 : c[a * l.cols + b + 1] = CellAt(l, s, a, b)
  /\ \A b \in 0 .. j - 1 : c[i * l.cols + b + 1] = CellAt(l, s, i, b)

\* What the walk has in mind of the rows behind it and of this one.
Rows(l, s, i, j) ==
  /\ status = "OK" /\ globalStart = Crossing(l, s, 0, 0)
  /\ CellsUpTo(cells, l, s, i, j)
  /\ isFirstRow \in BOOLEAN /\ (isFirstRow <=> i = 0) /\ rowLength = IF i = 0 THEN 0 ELSE l.cols
  /\ i = l.rows => j = 0
  /\ j > 0 => nextStartCorner = Crossing(l, s, i + 1, 0)

\* A closed row is over with its last guide edge, which leads to the next.
RowAndNext(l, s, i, j) ==
  IF j + 1 = l.g
  THEN startCorner = Crossing(l, s, i + 1, 0) /\ nextCorner = Crossing(l, s, i + 1, 0)
  ELSE startCorner = Crossing(l, s, i, 0) /\ nextCorner = Crossing(l, s, i, j + 1)

AtFirst(l, s, i, j) ==
  /\ pc = "first" /\ (l.cols = l.g => j < l.cols)
  /\ startCorner = Crossing(l, s, i, 0) /\ nextCorner = Crossing(l, s, i, j)

AtSecond(l, s, i, j) ==
  /\ pc = "second" /\ j < l.cols /\ (i = l.rows => l.rows # l.p)
  /\ quad = <<ProfileEdge(l, s, i, j)>>
  /\ curVertex = Crossing(l, s, i, j + 1) /\ corner = Crossing(l, s, i, j)
  /\ startCorner = Crossing(l, s, i, 0) /\ nextCorner = Crossing(l, s, i, j + 1)

AtThird(l, s, i, j) ==
  /\ pc = "third" /\ j < l.cols /\ i < l.rows
  /\ quad = <<ProfileEdge(l, s, i, j), GuideEdge(l, s, i, j + 1)>>
  /\ curVertex = Crossing(l, s, i + 1, j + 1) /\ corner = Crossing(l, s, i, j)
  /\ RowAndNext(l, s, i, j)

AtFourth(l, s, i, j) ==
  /\ pc = "fourth" /\ j < l.cols /\ i < l.rows
  /\ quad = <<ProfileEdge(l, s, i, j), GuideEdge(l, s, i, j + 1), ProfileEdge(l, s, i + 1, j)>>
  /\ curVertex = Crossing(l, s, i + 1, j) /\ nextStartCorner = Crossing(l, s, i + 1, 0)
  /\ RowAndNext(l, s, i, j)

Walks(l, s, i, j) ==
  /\ Rows(l, s, i, j)
  /\ AtFirst(l, s, i, j) \/ AtSecond(l, s, i, j) \/ AtThird(l, s, i, j) \/ AtFourth(l, s, i, j)

NotBegun ==
  /\ pc = "vertices" /\ status = "OK" /\ cells = <<>>
  /\ isFirstRow = TRUE /\ rowLength = 0

Walking(l) == \E s \in Places(l) : IsStart(l, s)
                 /\ \E i \in 0 .. l.rows, j \in 0 .. l.cols : Walks(l, s, i, j)

GridOfCells(l, s) == [i \in 1 .. l.rows |-> [j \in 1 .. l.cols |-> CellAt(l, s, i - 1, j - 1)]]

AllIsCut(l) == \E s \in Places(l) :
  /\ IsStart(l, s)
  /\ pc \in {"fill", "done"} /\ status = "OK" /\ rowLength = l.cols
  /\ CellsUpTo(cells, l, s, l.rows, 0)
  /\ pc = "done" => cellGrid = GridOfCells(l, s)

GridInv == IsGrid(net) => NotBegun \/ Walking(net.layout) \/ AllIsCut(net.layout)

\* The sizes of a grid.
LEMMA GridSizes ==
  ASSUME NEW n, IsGrid(n), NEW l, l = n.layout
  PROVE  /\ l.p \in Nat \ {0} /\ l.g \in Nat \ {0, 1}
         /\ l.rows \in Nat \ {0} /\ (l.rows = l.p \/ l.rows = l.p - 1)
         /\ l.cols \in Nat \ {0} /\ (l.cols = l.g \/ l.cols = l.g - 1)
<1>1. /\ l.p \in Nat \ {0} /\ l.g \in Nat \ {0, 1}
      /\ l.rows \in {l.p, l.p - 1} \ {0} /\ l.cols \in {l.g, l.g - 1}
  BY DEF IsGrid
<1> QED
  BY <1>1

\* The crossings, and the edges between them.
LEMMA GridCrossings ==
  ASSUME NEW n, IsGrid(n), NEW l, l = n.layout
  PROVE  /\ \A x \in Places(l) : l.at[x] \in n.vertices
         /\ \A v \in n.vertices : \E x \in Places(l) : v = l.at[x]
         /\ \A x, y \in Places(l) : l.at[x] = l.at[y] => x = y
BY DEF IsGrid, Places

\* A profile edge leads from its place to the next of the profile.
LEMMA GridProfiles ==
  ASSUME NEW n, IsGrid(n), NEW l, l = n.layout
  PROVE  /\ \A x \in Places(l) : x[2] < l.cols =>
              /\ l.profile[x] \in n.profiles /\ n.first[l.profile[x]] = l.at[x]
              /\ n.last[l.profile[x]] = l.at[<<x[1], After(x[2], l.g)>>]
         /\ \A e \in n.profiles : \E x \in Places(l) : x[2] < l.cols /\ e = l.profile[x]
<1>1. /\ DOMAIN l.profile = (0 .. l.p - 1) \X (0 .. l.cols - 1)
      /\ n.profiles = {l.profile[x] : x \in DOMAIN l.profile}
      /\ \A x \in DOMAIN l.profile : /\ n.first[l.profile[x]] = l.at[x]
                                     /\ n.last[l.profile[x]] = l.at[<<x[1], After(x[2], l.g)>>]
  BY DEF IsGrid
<1>2. \A x : x \in DOMAIN l.profile <=> x \in Places(l) /\ x[2] < l.cols
  BY <1>1, GridSizes DEF Places
<1> QED
  BY <1>1, <1>2

\* A guide edge leads from its place to the next of the guide.
LEMMA GridGuides ==
  ASSUME NEW n, IsGrid(n), NEW l, l = n.layout
  PROVE  /\ \A x \in Places(l) : x[1] < l.rows =>
              /\ l.guide[x] \in n.guides /\ n.first[l.guide[x]] = l.at[x]
              /\ n.last[l.guide[x]] = l.at[<<After(x[1], l.p), x[2]>>]
         /\ \A e \in n.guides : \E x \in Places(l) : x[1] < l.rows /\ e = l.guide[x]
<1>1. /\ DOMAIN l.guide = (0 .. l.rows - 1) \X (0 .. l.g - 1)
      /\ n.guides = {l.guide[x] : x \in DOMAIN l.guide}
      /\ \A x \in DOMAIN l.guide : /\ n.first[l.guide[x]] = l.at[x]
                                   /\ n.last[l.guide[x]] = l.at[<<After(x[1], l.p), x[2]>>]
  BY DEF IsGrid
<1>2. \A x : x \in DOMAIN l.guide <=> x \in Places(l) /\ x[1] < l.rows
  BY <1>1, GridSizes DEF Places
<1> QED
  BY <1>1, <1>2

\* Each place of a ring has one before it.
LEMMA Ring ==
  ASSUME NEW n \in Nat \ {0}
  PROVE  /\ \A k \in 0 .. n - 1 : After(k, n) \in 0 .. n - 1
         /\ \A a, b \in 0 .. n - 1 : After(a, n) = After(b, n) => a = b
BY DEF After

\* What leaves and what enters a crossing of the grid.
LEMMA EdgesAtPlaces ==
  ASSUME IsGrid(net), NEW l, l = net.layout, NEW x \in Places(l)
  PROVE  /\ Starting(l.at[x]) \cap net.profiles = IF x[2] < l.cols THEN {l.profile[x]} ELSE {}
         /\ Starting(l.at[x]) \cap net.guides = IF x[1] < l.rows THEN {l.guide[x]} ELSE {}
         /\ Ending(l.at[<<x[1], After(x[2], l.g)>>]) \cap net.profiles =
              IF x[2] < l.cols THEN {l.profile[x]} ELSE {}
         /\ Ending(l.at[<<After(x[1], l.p), x[2]>>]) \cap net.guides =
              IF x[1] < l.rows THEN {l.guide[x]} ELSE {}
<1>0. net.profiles \subseteq net.edges /\ net.guides \subseteq net.edges
  BY DEF IsGrid
<1>1. \A y \in Places(l) : /\ y = <<y[1], y[2]>> /\ y[1] \in 0 .. l.p - 1 /\ y[2] \in 0 .. l.g - 1
                           /\ <<y[1], After(y[2], l.g)>> \in Places(l)
                           /\ <<After(y[1], l.p), y[2]>> \in Places(l)
  BY GridSizes, Ring DEF Places
<1>2. \A y, z \in Places(l) :
        /\ l.at[y] = l.at[z] => y = z
        /\ l.at[<<y[1], After(y[2], l.g)>>] = l.at[<<z[1], After(z[2], l.g)>>] => y = z
        /\ l.at[<<After(y[1], l.p), y[2]>>] = l.at[<<After(z[1], l.p), z[2]>>] => y = z
  <2> TAKE y, z \in Places(l)
  <2>1. l.at[y] = l.at[z] => y = z
    BY GridCrossings
  <2>2. ASSUME l.at[<<y[1], After(y[2], l.g)>>] = l.at[<<z[1], After(z[2], l.g)>>]
        PROVE  y = z
    <3>1. <<y[1], After(y[2], l.g)>> = <<z[1], After(z[2], l.g)>>
      BY <1>1, <2>2, GridCrossings
    <3>2. y[1] = z[1] /\ After(y[2], l.g) = After(z[2], l.g)
      BY <3>1
    <3>3. y[2] = z[2]
      <4>1. y[2] \in 0 .. l.g - 1 /\ z[2] \in 0 .. l.g - 1 /\ l.g \in Nat \ {0}
        BY <1>1, GridSizes
      <4> QED
        BY <3>2, <4>1, Ring
    <3> QED
      BY <1>1, <3>2, <3>3
  <2>3. ASSUME l.at[<<After(y[1], l.p), y[2]>>] = l.at[<<After(z[1], l.p), z[2]>>]
        PROVE  y = z
    <3>1. <<After(y[1], l.p), y[2]>> = <<After(z[1], l.p), z[2]>>
      BY <1>1, <2>3, GridCrossings
    <3>2. After(y[1], l.p) = After(z[1], l.p) /\ y[2] = z[2]
      BY <3>1
    <3>3. y[1] = z[1]
      <4>1. y[1] \in 0 .. l.p - 1 /\ z[1] \in 0 .. l.p - 1 /\ l.p \in Nat \ {0}
        BY <1>1, GridSizes
      <4> QED
        BY <3>2, <4>1, Ring
    <3> QED
      BY <1>1, <3>2, <3>3
  <2> QED
    BY <2>1, <2>2, <2>3
<1>3. ASSUME NEW e \in net.profiles
      PROVE  /\ net.first[e] = l.at[x] <=> x[2] < l.cols /\ e = l.profile[x]
             /\ net.last[e] = l.at[<<x[1], After(x[2], l.g)>>] <=> x[2] < l.cols /\ e = l.profile[x]
  <2>1. PICK y \in Places(l) : y[2] < l.cols /\ e = l.profile[y]
    BY GridProfiles
  <2>2. /\ net.first[e] = l.at[y] /\ net.last[e] = l.at[<<y[1], After(y[2], l.g)>>]
    BY <2>1, GridProfiles
  <2>3. x[2] < l.cols => /\ net.first[l.profile[x]] = l.at[x]
                         /\ net.last[l.profile[x]] = l.at[<<x[1], After(x[2], l.g)>>]
    BY GridProfiles
  <2>0. /\ l.at[y] = l.at[x] => y = x
        /\ l.at[<<y[1], After(y[2], l.g)>>] = l.at[<<x[1], After(x[2], l.g)>>] => y = x
    BY <1>2
  <2>4. e = l.profile[x] /\ x[2] < l.cols => x = y
    BY <2>0, <2>2, <2>3
  <2>5. /\ net.first[e] = l.at[x] => x = y
        /\ net.last[e] = l.at[<<x[1], After(x[2], l.g)>>] => x = y
    BY <2>0, <2>2, Zenon
  <2> QED
    BY <2>1, <2>2, <2>4, <2>5
<1>4. ASSUME NEW e \in net.guides
      PROVE  /\ net.first[e] = l.at[x] <=> x[1] < l.rows /\ e = l.guide[x]
             /\ net.last[e] = l.at[<<After(x[1], l.p), x[2]>>] <=> x[1] < l.rows /\ e = l.guide[x]
  <2>1. PICK y \in Places(l) : y[1] < l.rows /\ e = l.guide[y]
    BY GridGuides
  <2>2. /\ net.first[e] = l.at[y] /\ net.last[e] = l.at[<<After(y[1], l.p), y[2]>>]
    BY <2>1, GridGuides
  <2>3. x[1] < l.rows => /\ net.first[l.guide[x]] = l.at[x]
                         /\ net.last[l.guide[x]] = l.at[<<After(x[1], l.p), x[2]>>]
    BY GridGuides
  <2>0. /\ l.at[y] = l.at[x] => y = x
        /\ l.at[<<After(y[1], l.p), y[2]>>] = l.at[<<After(x[1], l.p), x[2]>>] => y = x
    BY <1>2
  <2>4. e = l.guide[x] /\ x[1] < l.rows => x = y
    BY <2>0, <2>2, <2>3
  <2>5. /\ net.first[e] = l.at[x] => x = y
        /\ net.last[e] = l.at[<<After(x[1], l.p), x[2]>>] => x = y
    BY <2>0, <2>2, Zenon
  <2> QED
    BY <2>1, <2>2, <2>4, <2>5
<1>5. /\ x[2] < l.cols => l.profile[x] \in net.profiles
      /\ x[1] < l.rows => l.guide[x] \in net.guides
  BY GridProfiles, GridGuides
<1> QED
  BY <1>0, <1>3, <1>4, <1>5 DEF Starting, Ending

(***************************************************************************)
(* Round the closed ends.                                                  *)
(***************************************************************************)
LEMMA Wrapped ==
  ASSUME NEW n \in Nat \ {0}, NEW k \in 0 .. n - 1
  PROVE  /\ \A i \in 0 .. n : Wrap(k + i, n) \in 0 .. n - 1
         /\ \A i \in 0 .. n - 1 : Wrap(k + (i + 1), n) = After(Wrap(k + i, n), n)
         /\ Wrap(k + n, n) = Wrap(k + 0, n) /\ Wrap(k + 0, n) = k
         /\ \A a, b \in 0 .. n - 1 : Wrap(k + a, n) = Wrap(k + b, n) => a = b
BY DEF Wrap, After

\* Of a direction that is open the walk does not turn round.
LEMMA Turn ==
  ASSUME NEW n \in Nat \ {0}, NEW k \in 0 .. n - 1, NEW m \in Nat, m = n \/ (m = n - 1 /\ k = 0),
         NEW i \in 0 .. n - 1
  PROVE  Wrap(k + i, n) < m <=> i < m
BY DEF Wrap

\* Each step of the walk leads to the next place of the layout.
LEMMA PlacesOfWalk ==
  ASSUME NEW n, IsGrid(n), NEW l, l = n.layout, NEW s, IsStart(l, s)
  PROVE  /\ \A i \in 0 .. l.p, j \in 0 .. l.g : Place(l, s, i, j) \in Places(l)
         /\ \A i \in 0 .. l.p, j \in 0 .. l.g - 1 :
              /\ Place(l, s, i, j + 1) = <<Place(l, s, i, j)[1], After(Place(l, s, i, j)[2], l.g)>>
              /\ Place(l, s, i, j)[2] < l.cols <=> j < l.cols
         /\ \A i \in 0 .. l.p - 1, j \in 0 .. l.g :
              /\ Place(l, s, i + 1, j) = <<After(Place(l, s, i, j)[1], l.p), Place(l, s, i, j)[2]>>
              /\ Place(l, s, i, j)[1] < l.rows <=> i < l.rows
         /\ \A j \in 0 .. l.g : Place(l, s, l.p, j) = Place(l, s, 0, j)
         /\ \A i \in 0 .. l.p : Place(l, s, i, l.g) = Place(l, s, i, 0)
         /\ Place(l, s, 0, 0) = s
<1>1. /\ s \in Places(l) /\ s = <<s[1], s[2]>>
      /\ s[1] \in 0 .. l.p - 1 /\ s[2] \in 0 .. l.g - 1
      /\ l.p \in Nat \ {0} /\ l.g \in Nat \ {0} /\ l.rows \in Nat /\ l.cols \in Nat
      /\ l.rows = l.p \/ (l.rows = l.p - 1 /\ s[1] = 0)
      /\ l.cols = l.g \/ (l.cols = l.g - 1 /\ s[2] = 0)
  BY GridSizes DEF IsStart, Places
<1>2. /\ \A i \in 0 .. l.p : Wrap(s[1] + i, l.p) \in 0 .. l.p - 1
      /\ \A j \in 0 .. l.g : Wrap(s[2] + j, l.g) \in 0 .. l.g - 1
      /\ \A i \in 0 .. l.p - 1 : Wrap(s[1] + (i + 1), l.p) = After(Wrap(s[1] + i, l.p), l.p)
      /\ \A j \in 0 .. l.g - 1 : Wrap(s[2] + (j + 1), l.g) = After(Wrap(s[2] + j, l.g), l.g)
      /\ Wrap(s[1] + l.p, l.p) = Wrap(s[1] + 0, l.p) /\ Wrap(s[1] + 0, l.p) = s[1]
      /\ Wrap(s[2] + l.g, l.g) = Wrap(s[2] + 0, l.g) /\ Wrap(s[2] + 0, l.g) = s[2]
  BY <1>1, Wrapped
<1>3. /\ \A i \in 0 .. l.p - 1 : Wrap(s[1] + i, l.p) < l.rows <=> i < l.rows
      /\ \A j \in 0 .. l.g - 1 : Wrap(s[2] + j, l.g) < l.cols <=> j < l.cols
  BY <1>1, Turn
<1> QED
  BY <1>1, <1>2, <1>3 DEF Place, Places

\* The walk comes to each place once.
LEMMA PlacesApart ==
  ASSUME NEW n, IsGrid(n), NEW l, l = n.layout, NEW s, IsStart(l, s),
         NEW i \in 0 .. l.p - 1, NEW j \in 0 .. l.g - 1,
         NEW a \in 0 .. l.p - 1, NEW b \in 0 .. l.g - 1
  PROVE  /\ Place(l, s, i, j) \in Places(l)
         /\ Place(l, s, i, j) = Place(l, s, a, b) => i = a /\ j = b
<1>1. /\ s[1] \in 0 .. l.p - 1 /\ s[2] \in 0 .. l.g - 1
      /\ l.p \in Nat \ {0} /\ l.g \in Nat \ {0}
  BY GridSizes DEF IsStart, Places
<1>2. i \in 0 .. l.p /\ j \in 0 .. l.g
  BY <1>1
<1>3. Wrap(s[1] + i, l.p) = Wrap(s[1] + a, l.p) => i = a
  BY <1>1 DEF Wrap
<1>4. Wrap(s[2] + j, l.g) = Wrap(s[2] + b, l.g) => j = b
  BY <1>1 DEF Wrap
<1> QED
  BY <1>2, <1>3, <1>4, PlacesOfWalk DEF Place

\* The same, place by place.
LEMMA OneColumnOn ==
  ASSUME NEW n, IsGrid(n), NEW l, l = n.layout, NEW s, IsStart(l, s),
         NEW i \in 0 .. l.p, NEW j \in 0 .. l.g - 1, NEW x, x = Place(l, s, i, j)
  PROVE  /\ x \in Places(l) /\ (x[2] < l.cols <=> j < l.cols)
         /\ Place(l, s, i, j + 1) = <<x[1], After(x[2], l.g)>>
<1>1. j \in 0 .. l.g
  BY GridSizes
<1>2. x \in Places(l)
  BY <1>1, PlacesOfWalk
<1>3. /\ Place(l, s, i, j + 1) = <<Place(l, s, i, j)[1], After(Place(l, s, i, j)[2], l.g)>>
      /\ Place(l, s, i, j)[2] < l.cols <=> j < l.cols
  BY PlacesOfWalk
<1> QED
  BY <1>2, <1>3

\* The same, one row on.
LEMMA OneRowOn ==
  ASSUME NEW n, IsGrid(n), NEW l, l = n.layout, NEW s, IsStart(l, s),
         NEW i \in 0 .. l.p - 1, NEW j \in 0 .. l.g, NEW x, x = Place(l, s, i, j)
  PROVE  /\ x \in Places(l) /\ (x[1] < l.rows <=> i < l.rows)
         /\ Place(l, s, i + 1, j) = <<After(x[1], l.p), x[2]>>
<1>1. i \in 0 .. l.p
  BY GridSizes
<1>2. x \in Places(l)
  BY <1>1, PlacesOfWalk
<1>3. /\ Place(l, s, i + 1, j) = <<After(Place(l, s, i, j)[1], l.p), Place(l, s, i, j)[2]>>
      /\ Place(l, s, i, j)[1] < l.rows <=> i < l.rows
  BY PlacesOfWalk
<1> QED
  BY <1>2, <1>3

\* The edges at the crossings of the walk, and their ends.
LEMMA ProfilesOfWalk ==
  ASSUME IsGrid(net), NEW l, l = net.layout, NEW s, IsStart(l, s),
         NEW i \in 0 .. l.p, NEW j \in 0 .. l.g - 1
  PROVE  /\ FirstEdges(Crossing(l, s, i, j)) = IF j < l.cols THEN {ProfileEdge(l, s, i, j)} ELSE {}
         /\ Ending(Crossing(l, s, i, j + 1)) \cap net.profiles =
              IF j < l.cols THEN {ProfileEdge(l, s, i, j)} ELSE {}
         /\ j < l.cols => /\ ProfileEdge(l, s, i, j) \in net.profiles
                          /\ net.first[ProfileEdge(l, s, i, j)] = Crossing(l, s, i, j)
                          /\ net.last[ProfileEdge(l, s, i, j)] = Crossing(l, s, i, j + 1)
<1> DEFINE x == Place(l, s, i, j)
<1>1. /\ x \in Places(l) /\ (x[2] < l.cols <=> j < l.cols)
      /\ Place(l, s, i, j + 1) = <<x[1], After(x[2], l.g)>>
  BY OneColumnOn
<1> HIDE DEF x
<1>2. /\ Starting(l.at[x]) \cap net.profiles = IF x[2] < l.cols THEN {l.profile[x]} ELSE {}
      /\ Ending(l.at[<<x[1], After(x[2], l.g)>>]) \cap net.profiles =
           IF x[2] < l.cols THEN {l.profile[x]} ELSE {}
  BY <1>1, EdgesAtPlaces
<1>3. x[2] < l.cols => /\ l.profile[x] \in net.profiles /\ net.first[l.profile[x]] = l.at[x]
                       /\ net.last[l.profile[x]] = l.at[<<x[1], After(x[2], l.g)>>]
  BY <1>1, GridProfiles
<1>4. /\ Crossing(l, s, i, j) = l.at[x] /\ ProfileEdge(l, s, i, j) = l.profile[x]
      /\ Crossing(l, s, i, j + 1) = l.at[<<x[1], After(x[2], l.g)>>]
  BY <1>1 DEF Crossing, ProfileEdge, x
<1> QED
  BY <1>1, <1>2, <1>3, <1>4 DEF FirstEdges

\* The same of the guides.
LEMMA GuidesOfWalk ==
  ASSUME IsGrid(net), NEW l, l = net.layout, NEW s, IsStart(l, s),
         NEW i \in 0 .. l.p - 1, NEW j \in 0 .. l.g
  PROVE  /\ Starting(Crossing(l, s, i, j)) \cap net.guides =
              IF i < l.rows THEN {GuideEdge(l, s, i, j)} ELSE {}
         /\ Ending(Crossing(l, s, i + 1, j)) \cap net.guides =
              IF i < l.rows THEN {GuideEdge(l, s, i, j)} ELSE {}
         /\ i < l.rows => /\ GuideEdge(l, s, i, j) \in net.guides
                          /\ net.first[GuideEdge(l, s, i, j)] = Crossing(l, s, i, j)
                          /\ net.last[GuideEdge(l, s, i, j)] = Crossing(l, s, i + 1, j)
<1> DEFINE x == Place(l, s, i, j)
<1>1. /\ x \in Places(l) /\ (x[1] < l.rows <=> i < l.rows)
      /\ Place(l, s, i + 1, j) = <<After(x[1], l.p), x[2]>>
  BY OneRowOn
<1> HIDE DEF x
<1>2. /\ Starting(l.at[x]) \cap net.guides = IF x[1] < l.rows THEN {l.guide[x]} ELSE {}
      /\ Ending(l.at[<<After(x[1], l.p), x[2]>>]) \cap net.guides =
           IF x[1] < l.rows THEN {l.guide[x]} ELSE {}
  BY <1>1, EdgesAtPlaces
<1>3. x[1] < l.rows => /\ l.guide[x] \in net.guides /\ net.first[l.guide[x]] = l.at[x]
                       /\ net.last[l.guide[x]] = l.at[<<After(x[1], l.p), x[2]>>]
  BY <1>1, GridGuides
<1>4. /\ Crossing(l, s, i, j) = l.at[x] /\ GuideEdge(l, s, i, j) = l.guide[x]
      /\ Crossing(l, s, i + 1, j) = l.at[<<After(x[1], l.p), x[2]>>]
  BY <1>1 DEF Crossing, GuideEdge, x
<1> QED
  BY <1>1, <1>2, <1>3, <1>4

\* The walk tells its crossings apart, but for the ends that are closed.
LEMMA CrossingsApart ==
  ASSUME NEW n, IsGrid(n), NEW l, l = n.layout, NEW s, IsStart(l, s)
  PROVE  /\ \A j \in 0 .. l.g : Crossing(l, s, l.p, j) = Crossing(l, s, 0, j)
         /\ \A i \in 0 .. l.p : Crossing(l, s, i, l.g) = Crossing(l, s, i, 0)
         /\ \A i, a \in 0 .. l.p - 1, j, b \in 0 .. l.g - 1 :
              Crossing(l, s, i, j) = Crossing(l, s, a, b) => i = a /\ j = b
<1>2. \A i, a \in 0 .. l.p - 1, j, b \in 0 .. l.g - 1 :
        Crossing(l, s, i, j) = Crossing(l, s, a, b) => i = a /\ j = b
  <2> TAKE i, a \in 0 .. l.p - 1, j, b \in 0 .. l.g - 1
  <2> HAVE Crossing(l, s, i, j) = Crossing(l, s, a, b)
  <2>1. Place(l, s, i, j) \in Places(l) /\ Place(l, s, a, b) \in Places(l)
    BY PlacesApart
  <2>2. Place(l, s, i, j) = Place(l, s, a, b)
    BY <2>1, GridCrossings DEF Crossing
  <2>3. Place(l, s, i, j) = Place(l, s, a, b) => i = a /\ j = b
    BY PlacesApart
  <2> QED
    BY <2>2, <2>3
<1>3. \A j \in 0 .. l.g : Place(l, s, l.p, j) = Place(l, s, 0, j)
  BY PlacesOfWalk
<1>4. \A i \in 0 .. l.p : Place(l, s, i, l.g) = Place(l, s, i, 0)
  BY PlacesOfWalk
<1> QED
  BY <1>2, <1>3, <1>4 DEF Crossing

\* In two rows at once: in the same column or not.
LEMMA ColumnsApart ==
  ASSUME NEW n, IsGrid(n), NEW l, l = n.layout, NEW s, IsStart(l, s),
         NEW i \in 0 .. l.p, NEW a \in 0 .. l.p, NEW j \in 0 .. l.g - 1, NEW b \in 0 .. l.g - 1,
         Crossing(l, s, i, j) = Crossing(l, s, a, b)
  PROVE  j = b
<1> DEFINE i0 == IF i = l.p THEN 0 ELSE i
           a0 == IF a = l.p THEN 0 ELSE a
<1>1. i0 \in 0 .. l.p - 1 /\ a0 \in 0 .. l.p - 1
  BY GridSizes
<1>2. \A c \in 0 .. l.g - 1 : Crossing(l, s, l.p, c) = Crossing(l, s, 0, c)
  <2>1. \A c \in 0 .. l.g - 1 : c \in 0 .. l.g
    BY GridSizes
  <2> QED
    BY <2>1, CrossingsApart
<1>3. Crossing(l, s, i, j) = Crossing(l, s, i0, j) /\ Crossing(l, s, a, b) = Crossing(l, s, a0, b)
  BY <1>2
<1> HIDE DEF i0, a0
<1>4. Crossing(l, s, i0, j) = Crossing(l, s, a0, b) => i0 = a0 /\ j = b
  BY <1>1, CrossingsApart
<1> QED
  BY <1>3, <1>4

(***************************************************************************)
(* Where the walk begins.                                                  *)
(***************************************************************************)
LEMMA FirstOfOne ==
  ASSUME NEW x \in Nat
  PROVE  FirstIn({x}) = x
BY DEF FirstIn

\* Two sets of one element or none that have none in common.
LEMMA FewEdges ==
  ASSUME NEW A, A = {} \/ \E a : A = {a}, NEW B, B = {} \/ \E b : B = {b}, A \cap B = {}
  PROVE  /\ Cardinality(A) = IF A = {} THEN 0 ELSE 1
         /\ Cardinality(B) = IF B = {} THEN 0 ELSE 1
         /\ Cardinality(A \cup B) = Cardinality(A) + Cardinality(B)
<1>0. \A C : C = {} \/ (\E c : C = {c}) => IsFiniteSet(C) /\ Cardinality(C) = IF C = {} THEN 0 ELSE 1
  <2> TAKE C
  <2>1. C = {} => IsFiniteSet(C) /\ Cardinality(C) = 0
    BY FS_EmptySet
  <2>2. ASSUME NEW c, C = {c}
        PROVE  IsFiniteSet(C) /\ Cardinality(C) = 1 /\ C # {}
    BY <2>2, FS_Singleton
  <2> QED
    BY <2>1, <2>2
<1>1. /\ Cardinality(A) = IF A = {} THEN 0 ELSE 1
      /\ Cardinality(B) = IF B = {} THEN 0 ELSE 1
      /\ IsFiniteSet(A) /\ IsFiniteSet(B)
  BY <1>0
<1>2. Cardinality(A \cup B) = Cardinality(A) + Cardinality(B) - Cardinality(A \cap B)
  BY <1>1, FS_Union
<1>3. Cardinality(A \cap B) = 0
  BY FS_EmptySet
<1> QED
  BY <1>1, <1>2, <1>3

\* How many edges of a direction a crossing has: two, but one at an open end.
Ends(k, n, m) == IF m = n \/ (0 < k /\ k < n - 1) THEN 2 ELSE 1

\* What comes from the place before and what leaves to the one behind.
LEMMA EdgesAtEnds ==
  ASSUME NEW n \in Nat \ {0}, NEW m \in Nat \ {0}, m = n \/ m = n - 1, NEW k1 \in 0 .. n - 1
  PROVE  (IF After(k1, n) < m THEN 1 ELSE 0) + (IF k1 < m THEN 1 ELSE 0) = Ends(After(k1, n), n, m)
BY DEF Ends, After

\* The degree of a crossing tells whether it lies at an end of the grid.
LEMMA DegreesOfGrid ==
  ASSUME IsNetwork(net), IsGrid(net), NEW l, l = net.layout, NEW x \in Places(l)
  PROVE  /\ Degree(l.at[x], net.profiles) = Ends(x[2], l.g, l.cols)
         /\ Degree(l.at[x], net.guides) = Ends(x[1], l.p, l.rows)
         /\ Extent(l.at[x]) = Ends(x[2], l.g, l.cols) + Ends(x[1], l.p, l.rows)
         /\ Starting(l.at[x]) \cap net.profiles # {} <=> x[2] < l.cols
         /\ Starting(l.at[x]) \ net.profiles # {} <=> x[1] < l.rows
<1> DEFINE v == l.at[x]
           Before(k, n) == IF k = 0 THEN n - 1 ELSE k - 1
           left  == <<x[1], Before(x[2], l.g)>>
           under == <<Before(x[1], l.p), x[2]>>
           SP == Starting(v) \cap net.profiles
           SG == Starting(v) \cap net.guides
           EP == Ending(v) \cap net.profiles
           EG == Ending(v) \cap net.guides
<1>1. /\ x = <<x[1], x[2]>> /\ x[1] \in 0 .. l.p - 1 /\ x[2] \in 0 .. l.g - 1
      /\ left \in Places(l) /\ under \in Places(l)
      /\ left[2] \in 0 .. l.g - 1 /\ under[1] \in 0 .. l.p - 1
      /\ x[2] = After(left[2], l.g) /\ x[1] = After(under[1], l.p)
      /\ left[1] = x[1] /\ under[2] = x[2]
  BY GridSizes DEF Places, After
<1> HIDE DEF left, under
<1>2. /\ SP = IF x[2] < l.cols THEN {l.profile[x]} ELSE {}
      /\ SG = IF x[1] < l.rows THEN {l.guide[x]} ELSE {}
  BY EdgesAtPlaces
<1>3. EP = IF left[2] < l.cols THEN {l.profile[left]} ELSE {}
  <2>1. Ending(l.at[<<left[1], After(left[2], l.g)>>]) \cap net.profiles =
              IF left[2] < l.cols THEN {l.profile[left]} ELSE {}
    BY <1>1, EdgesAtPlaces
  <2>2. <<left[1], After(left[2], l.g)>> = x
    BY <1>1
  <2> QED
    BY <2>1, <2>2
<1>4. EG = IF under[1] < l.rows THEN {l.guide[under]} ELSE {}
  <2>1. Ending(l.at[<<After(under[1], l.p), under[2]>>]) \cap net.guides =
              IF under[1] < l.rows THEN {l.guide[under]} ELSE {}
    BY <1>1, EdgesAtPlaces
  <2>2. <<After(under[1], l.p), under[2]>> = x
    BY <1>1
  <2> QED
    BY <2>1, <2>2
<1>5. /\ net.edges = net.profiles \cup net.guides /\ net.profiles \cap net.guides = {}
  BY DEF IsGrid
<1>6. /\ Starting(v) \cap net.edges = SP \cup SG /\ SP \cap SG = {}
      /\ Ending(v) \cap net.edges = EP \cup EG /\ EP \cap EG = {}
      /\ Starting(v) \ net.profiles = SG
  BY <1>5 DEF Starting, Ending
<1> HIDE DEF v, SP, SG, EP, EG
<1>7. /\ Cardinality(SP \cup SG) = Cardinality(SP) + Cardinality(SG)
      /\ Cardinality(SP) = IF x[2] < l.cols THEN 1 ELSE 0
      /\ Cardinality(SG) = IF x[1] < l.rows THEN 1 ELSE 0
  <2>1. (SP = {} \/ \E a : SP = {a}) /\ (SG = {} \/ \E b : SG = {b})
    BY <1>2
  <2>2. (SP = {} <=> ~ (x[2] < l.cols)) /\ (SG = {} <=> ~ (x[1] < l.rows))
    BY <1>2
  <2>4. SP \cap SG = {}
    BY <1>6
  <2>3. /\ Cardinality(SP \cup SG) = Cardinality(SP) + Cardinality(SG)
        /\ Cardinality(SP) = IF SP = {} THEN 0 ELSE 1
        /\ Cardinality(SG) = IF SG = {} THEN 0 ELSE 1
    BY <2>1, <2>4, FewEdges, Zenon
  <2> QED
    BY <2>2, <2>3
<1>11. /\ Cardinality(EP \cup EG) = Cardinality(EP) + Cardinality(EG)
       /\ Cardinality(EP) = IF left[2] < l.cols THEN 1 ELSE 0
       /\ Cardinality(EG) = IF under[1] < l.rows THEN 1 ELSE 0
  <2>1. (EP = {} \/ \E a : EP = {a}) /\ (EG = {} \/ \E b : EG = {b})
    BY <1>3, <1>4
  <2>2. (EP = {} <=> ~ (left[2] < l.cols)) /\ (EG = {} <=> ~ (under[1] < l.rows))
    BY <1>3, <1>4
  <2>4. EP \cap EG = {}
    BY <1>6
  <2>3. /\ Cardinality(EP \cup EG) = Cardinality(EP) + Cardinality(EG)
        /\ Cardinality(EP) = IF EP = {} THEN 0 ELSE 1
        /\ Cardinality(EG) = IF EG = {} THEN 0 ELSE 1
    BY <2>1, <2>4, FewEdges, Zenon
  <2> QED
    BY <2>2, <2>3
<1>8. Cardinality(SP) + Cardinality(EP) = Ends(x[2], l.g, l.cols)
  <2>1. l.g \in Nat \ {0} /\ l.cols \in Nat \ {0} /\ (l.cols = l.g \/ l.cols = l.g - 1)
    BY GridSizes
  <2>2. left[2] \in 0 .. l.g - 1 /\ x[2] = After(left[2], l.g)
    BY <1>1
  <2>3. (IF After(left[2], l.g) < l.cols THEN 1 ELSE 0) + (IF left[2] < l.cols THEN 1 ELSE 0)
           = Ends(After(left[2], l.g), l.g, l.cols)
    BY <2>1, <2>2, EdgesAtEnds
  <2> QED
    BY <1>7, <1>11, <2>2, <2>3
<1>9. Cardinality(SG) + Cardinality(EG) = Ends(x[1], l.p, l.rows)
  <2>1. l.p \in Nat \ {0} /\ l.rows \in Nat \ {0} /\ (l.rows = l.p \/ l.rows = l.p - 1)
    BY GridSizes
  <2>2. under[1] \in 0 .. l.p - 1 /\ x[1] = After(under[1], l.p)
    BY <1>1
  <2>3. (IF After(under[1], l.p) < l.rows THEN 1 ELSE 0) + (IF under[1] < l.rows THEN 1 ELSE 0)
           = Ends(After(under[1], l.p), l.p, l.rows)
    BY <2>1, <2>2, EdgesAtEnds
  <2> QED
    BY <1>7, <1>11, <2>2, <2>3
<1>10. /\ Degree(v, net.profiles) = Cardinality(SP) + Cardinality(EP)
       /\ Degree(v, net.guides) = Cardinality(SG) + Cardinality(EG)
       /\ Extent(v) = Cardinality(SP \cup SG) + Cardinality(EP \cup EG)
  BY <1>6 DEF Degree, Extent, SP, SG, EP, EG
<1>12. (SP # {} <=> x[2] < l.cols) /\ (SG # {} <=> x[1] < l.rows)
  BY <1>2
<1>13. /\ Starting(l.at[x]) \cap net.profiles # {} <=> x[2] < l.cols
       /\ Starting(l.at[x]) \ net.profiles # {} <=> x[1] < l.rows
  BY <1>6, <1>12 DEF v, SP
<1>14. Extent(v) = Ends(x[2], l.g, l.cols) + Ends(x[1], l.p, l.rows)
  BY <1>7, <1>8, <1>9, <1>10, <1>11
<1> QED
  BY <1>8, <1>9, <1>10, <1>13, <1>14 DEF v

\* A grid has a corner to start at, and every such corner is a start of the walk.
LEMMA GridStarts ==
  ASSUME IsNetwork(net), IsGrid(net), NEW l, l = net.layout
  PROVE  /\ net.vertices # {} /\ \A v \in net.vertices : ~ Overfull(v)
         /\ StartingCorners # {}
         /\ \A v \in StartingCorners : \E s \in Places(l) : IsStart(l, s) /\ v = Crossing(l, s, 0, 0)
<1> DEFINE o == <<0, 0>>
<1>0. /\ l.p \in Nat \ {0} /\ l.g \in Nat \ {0, 1}
      /\ l.rows \in Nat \ {0} /\ (l.rows = l.p \/ l.rows = l.p - 1)
      /\ l.cols \in Nat \ {0} /\ (l.cols = l.g \/ l.cols = l.g - 1)
  BY GridSizes
<1>1. o \in Places(l) /\ o[1] = 0 /\ o[2] = 0
  BY <1>0 DEF Places
<1> HIDE DEF o
<1>2. /\ \A x \in Places(l) : l.at[x] \in net.vertices
      /\ \A v \in net.vertices : \E x \in Places(l) : v = l.at[x]
  BY GridCrossings
<1>3. \A x \in Places(l) : x[1] \in 0 .. l.p - 1 /\ x[2] \in 0 .. l.g - 1
  BY DEF Places
<1>4. \A x \in Places(l) :
        /\ Degree(l.at[x], net.profiles) = Ends(x[2], l.g, l.cols)
        /\ Degree(l.at[x], net.guides) = Ends(x[1], l.p, l.rows)
        /\ Extent(l.at[x]) = Ends(x[2], l.g, l.cols) + Ends(x[1], l.p, l.rows)
        /\ Starting(l.at[x]) \cap net.profiles # {} <=> x[2] < l.cols
        /\ Starting(l.at[x]) \ net.profiles # {} <=> x[1] < l.rows
  BY DegreesOfGrid
<1>5. /\ \A k : Ends(k, l.g, l.cols) \in {1, 2} /\ Ends(k, l.p, l.rows) \in {1, 2}
      /\ \A k \in Int : Ends(0, l.g, l.cols) <= Ends(k, l.g, l.cols)
      /\ \A k \in Int : Ends(0, l.p, l.rows) <= Ends(k, l.p, l.rows)
  BY <1>0 DEF Ends
<1>6. \A v \in net.vertices : ~ Overfull(v)
  <2> TAKE v \in net.vertices
  <2>1. PICK x \in Places(l) : v = l.at[x]
    BY <1>2
  <2>2. Degree(v, net.guides) \in {1, 2} /\ Degree(v, net.profiles) \in {1, 2}
    BY <1>4, <1>5, <2>1
  <2> QED
    BY <2>2 DEF Overfull
<1>7. l.at[o] \in StartingCorners
  <2>1. ASSUME NEW w \in net.vertices
        PROVE  Extent(l.at[o]) <= Extent(w)
    <3>1. PICK x \in Places(l) : w = l.at[x]
      BY <1>2
    <3>2. /\ Extent(l.at[o]) = Ends(0, l.g, l.cols) + Ends(0, l.p, l.rows)
          /\ Extent(w) = Ends(x[2], l.g, l.cols) + Ends(x[1], l.p, l.rows)
      BY <1>1, <1>4, <3>1
    <3>3. x[1] \in Int /\ x[2] \in Int
      BY <1>0, <1>3
    <3>4. /\ Ends(0, l.g, l.cols) <= Ends(x[2], l.g, l.cols)
          /\ Ends(0, l.p, l.rows) <= Ends(x[1], l.p, l.rows)
      BY <1>5, <3>3
    <3>5. /\ Ends(0, l.g, l.cols) \in Int /\ Ends(x[2], l.g, l.cols) \in Int
          /\ Ends(0, l.p, l.rows) \in Int /\ Ends(x[1], l.p, l.rows) \in Int
      BY <1>5
    <3> QED
      BY <3>2, <3>4, <3>5
  <2>2. Starting(l.at[o]) \cap net.profiles # {} /\ Starting(l.at[o]) \ net.profiles # {}
    BY <1>0, <1>1, <1>4
  <2> QED
    BY <1>1, <1>2, <2>1, <2>2 DEF StartingCorners, MinExtent
<1>8. ASSUME NEW v \in StartingCorners
      PROVE  \E s \in Places(l) : IsStart(l, s) /\ v = Crossing(l, s, 0, 0)
  <2>1. /\ v \in net.vertices /\ Extent(v) <= Extent(l.at[o])
        /\ Starting(v) \cap net.profiles # {} /\ Starting(v) \ net.profiles # {}
    BY <1>1, <1>2 DEF StartingCorners, MinExtent
  <2>2. PICK s \in Places(l) : v = l.at[s]
    BY <1>2, <2>1
  <2>3. s[2] < l.cols /\ s[1] < l.rows
    BY <1>4, <2>1, <2>2
  <2>4. Ends(s[2], l.g, l.cols) + Ends(s[1], l.p, l.rows) <= Ends(0, l.g, l.cols) + Ends(0, l.p, l.rows)
    BY <1>1, <1>4, <2>1, <2>2
  <2>5. s[1] \in 0 .. l.p - 1 /\ s[2] \in 0 .. l.g - 1
    BY <1>3
  <2>6. IsStart(l, s)
    <3>1. Ends(s[2], l.g, l.cols) = Ends(0, l.g, l.cols) /\ Ends(s[1], l.p, l.rows) = Ends(0, l.p, l.rows)
      BY <1>0, <2>4, <2>5 DEF Ends
    <3>2. l.rows # l.p => s[1] = 0
      BY <1>0, <2>3, <2>5, <3>1 DEF Ends
    <3>3. l.cols # l.g => s[2] = 0
      BY <1>0, <2>3, <2>5, <3>1 DEF Ends
    <3> QED
      BY <3>2, <3>3 DEF IsStart
  <2>7. Place(l, s, 0, 0) = s
    BY <2>6, PlacesOfWalk
  <2> QED
    BY <2>2, <2>6, <2>7 DEF Crossing
<1> QED
  BY <1>1, <1>2, <1>6, <1>7, <1>8

(***************************************************************************)
(* The list of cells, row after row.                                       *)
(***************************************************************************)
LEMMA RowsBefore ==
  ASSUME NEW n \in Nat, NEW i \in Nat, NEW a \in 0 .. i - 1, NEW b \in 0 .. n - 1
  PROVE  a * n \in Nat /\ i * n \in Nat /\ a * n + b + 1 <= i * n
<1> DEFINE d == i - a - 1
<1>1. d \in Nat /\ i = a + 1 + d
  OBVIOUS
<1> HIDE DEF d
<1>2. i * n = a * n + n + d * n /\ d * n \in Nat /\ a * n \in Nat
  BY <1>1
<1> QED
  BY <1>2

\* A cell that is appended is the next of its row,
LEMMA OneMoreCell ==
  ASSUME NEW S, NEW c \in Seq(S), NEW l, l.cols \in Nat, NEW s, NEW i \in Nat, NEW j \in Nat,
         CellsUpTo(c, l, s, i, j), NEW e \in S, e = CellAt(l, s, i, j)
  PROVE  CellsUpTo(Append(c, e), l, s, i, j + 1)
<1> DEFINE m == l.cols
<1>0. m \in Nat /\ i * m \in Nat
  OBVIOUS
<1>1. /\ Len(c) = i * m + j
      /\ \A a \in 0 .. i - 1, b \in 0 .. m - 1 : c[a * m + b + 1] = CellAt(l, s, a, b)
      /\ \A b \in 0 .. j - 1 : c[i * m + b + 1] = CellAt(l, s, i, b)
  BY DEF CellsUpTo
<1>2. /\ Len(Append(c, e)) = Len(c) + 1 /\ Append(c, e)[Len(c) + 1] = e
      /\ \A x \in 1 .. Len(c) : Append(c, e)[x] = c[x]
  OBVIOUS
<1> HIDE DEF m
<1>3. Len(Append(c, e)) = i * m + (j + 1)
  BY <1>0, <1>1, <1>2
<1>4. ASSUME NEW a \in 0 .. i - 1, NEW b \in 0 .. m - 1
      PROVE  Append(c, e)[a * m + b + 1] = CellAt(l, s, a, b)
  <2>1. a * m \in Nat /\ a * m + b + 1 <= i * m
    BY <1>0, RowsBefore
  <2>2. a * m + b + 1 \in 1 .. Len(c)
    <3> DEFINE q == a * m
               w == i * m
    <3>1. q \in Nat /\ w \in Nat /\ q + b + 1 <= w /\ Len(c) = w + j
      BY <1>0, <1>1, <2>1
    <3> HIDE DEF q, w
    <3>2. q + b + 1 \in 1 .. Len(c)
      BY <3>1
    <3> QED
      BY <3>2 DEF q
  <2> QED
    BY <1>1, <1>2, <2>2
<1>5. ASSUME NEW b \in 0 .. (j + 1) - 1
      PROVE  Append(c, e)[i * m + b + 1] = CellAt(l, s, i, b)
  <2>1. CASE b = j
    <3>1. i * m + b + 1 = Len(c) + 1
      BY <1>0, <1>1, <2>1
    <3> QED
      BY <1>2, <2>1, <3>1
  <2>2. CASE b # j
    <3>1. b \in 0 .. j - 1
      BY <2>2
    <3>2. i * m + b + 1 \in 1 .. Len(c)
      <4> DEFINE w == i * m
      <4>1. w \in Nat /\ Len(c) = w + j
        BY <1>0, <1>1
      <4> HIDE DEF w
      <4>2. w + b + 1 \in 1 .. Len(c)
        BY <3>1, <4>1
      <4> QED
        BY <4>2 DEF w
    <3> QED
      BY <1>1, <1>2, <3>1, <3>2
  <2> QED
    BY <2>1, <2>2
<1> QED
  BY <1>3, <1>4, <1>5 DEF CellsUpTo, m

\* and behind the last one of a row the next row begins.
LEMMA OneMoreRow ==
  ASSUME NEW c, NEW l, l.cols \in Nat, NEW s, NEW i \in Nat, CellsUpTo(c, l, s, i, l.cols)
  PROVE  CellsUpTo(c, l, s, i + 1, 0)
<1> DEFINE m == l.cols
<1>1. /\ Len(c) = i * m + m
      /\ \A a \in 0 .. i - 1, b \in 0 .. m - 1 : c[a * m + b + 1] = CellAt(l, s, a, b)
      /\ \A b \in 0 .. m - 1 : c[i * m + b + 1] = CellAt(l, s, i, b)
  BY DEF CellsUpTo
<1>2. (i + 1) * m = i * m + m /\ m \in Nat /\ i * m \in Nat
  OBVIOUS
<1> HIDE DEF m
<1>3. Len(c) = (i + 1) * m + 0
  BY <1>1, <1>2
<1>4. ASSUME NEW a \in 0 .. (i + 1) - 1, NEW b \in 0 .. m - 1
      PROVE  c[a * m + b + 1] = CellAt(l, s, a, b)
  <2>1. a = i \/ a \in 0 .. i - 1
    OBVIOUS
  <2> QED
    BY <1>1, <2>1
<1>5. \A b \in 0 .. 0 - 1 : c[(i + 1) * m + b + 1] = CellAt(l, s, i + 1, b)
  OBVIOUS
<1> QED
  BY <1>3, <1>4, <1>5 DEF CellsUpTo, m

(***************************************************************************)
(* Every step of the walk goes one edge on.                                *)
(***************************************************************************)
LEMMA StillWalking ==
  ASSUME NEW l, NEW s, IsStart(l, s), NEW i \in 0 .. l.rows, NEW j \in 0 .. l.cols, Walks(l, s, i, j)'
  PROVE  Walking(l)'
<1>1. s \in Places(l)
  BY DEF IsStart
<1> QED
  BY <1>1 DEF Walking

\* The search for the starting corner finds a start of the walk.
LEMMA WalkBegins ==
  ASSUME TypeOK, IsGrid(net), NEW l, l = net.layout, NotBegun, Perform
  PROVE  Walking(l)'
<1>0. net \in Networks /\ IsNetwork(net)
  BY NetworksAssumption DEF TypeOK
<1>1. /\ net.vertices # {} /\ (\A v \in net.vertices : ~ Overfull(v)) /\ StartingCorners # {}
      /\ \A v \in StartingCorners : \E s \in Places(l) : IsStart(l, s) /\ v = Crossing(l, s, 0, 0)
  BY <1>0, GridStarts
<1>2. FindStartingCorner
  BY <1>1 DEF Perform, NotBegun, NoVertices, NotRectangular, NoStartingCorner, Loop, GuidesClosed,
      FindFirstEdge, OpenProfileEnds, NoFirstEdge, FindSecondEdge, NoSecondEdge, FindThirdEdge,
      NoThirdEdge, FindFourthEdge, NoFourthEdge, EdgesDoNotMeet, NoRow, FillCellGrid
<1>3. globalStart' \in StartingCorners
  <2>1. StartingCorners \in SUBSET Nat
    BY <1>0, NetworkEdges DEF StartingCorners
  <2> QED
    BY <1>1, <1>2, <2>1, FirstInSet DEF FindStartingCorner
<1>4. PICK s \in Places(l) : IsStart(l, s) /\ globalStart' = Crossing(l, s, 0, 0)
  BY <1>1, <1>3
<1>5. /\ l.cols \in Nat \ {0} /\ l.rows \in Nat \ {0}
  BY GridSizes
<1>6. CellsUpTo(<<>>, l, s, 0, 0)
  BY <1>5 DEF CellsUpTo
<1>7. Rows(l, s, 0, 0)'
  BY <1>2, <1>4, <1>5, <1>6 DEF Rows, FindStartingCorner, NotBegun, object
<1>8. AtFirst(l, s, 0, 0)'
  BY <1>2, <1>4, <1>5 DEF AtFirst, FindStartingCorner
<1>9. 0 \in 0 .. l.rows /\ 0 \in 0 .. l.cols
  BY <1>5
<1> QED
  BY <1>4, <1>7, <1>8, <1>9, StillWalking DEF Walks

\* A crossing is a vertex of the network, hence none that is null.
LEMMA CrossingsAreVertices ==
  ASSUME net \in Networks, IsGrid(net), NEW l, l = net.layout, NEW s, IsStart(l, s),
         NEW i \in 0 .. l.p, NEW j \in 0 .. l.g
  PROVE  Crossing(l, s, i, j) \in net.vertices /\ Crossing(l, s, i, j) # NoVertex
<1>1. Place(l, s, i, j) \in Places(l)
  BY PlacesOfWalk
<1>2. Crossing(l, s, i, j) \in net.vertices
  BY <1>1, GridCrossings DEF Crossing
<1> QED
  BY <1>2, NetworkEdges

\* The first edge is sought, the row is over, or the whole turn.
LEMMA FirstStep ==
  ASSUME TypeOK, IsGrid(net), NEW l, l = net.layout, NEW s, IsStart(l, s),
         NEW i \in 0 .. l.rows, NEW j \in 0 .. l.cols,
         Rows(l, s, i, j), AtFirst(l, s, i, j), Perform
  PROVE  Walking(l)' \/ AllIsCut(l)'
<1>0. net \in Networks /\ net.profiles \subseteq Nat /\ net.guides \subseteq Nat
  BY NetworkEdges DEF TypeOK
<1>1. /\ l.rows \in Nat \ {0} /\ l.cols \in Nat \ {0} /\ l.g \in Nat \ {0, 1} /\ l.p \in Nat \ {0}
      /\ (l.cols = l.g \/ l.cols = l.g - 1) /\ (l.rows = l.p \/ l.rows = l.p - 1)
  BY GridSizes
<1>2. /\ i \in Nat /\ j \in Nat /\ i \in 0 .. l.p /\ j \in 0 .. l.g - 1
  BY <1>1 DEF AtFirst
<1>3. /\ pc = "first" /\ startCorner = Crossing(l, s, i, 0) /\ nextCorner = Crossing(l, s, i, j)
      /\ l.cols = l.g => j < l.cols
  BY DEF AtFirst
<1>4. /\ status = "OK" /\ globalStart = Crossing(l, s, 0, 0)
      /\ CellsUpTo(cells, l, s, i, j)
      /\ isFirstRow \in BOOLEAN /\ (isFirstRow <=> i = 0) /\ rowLength = IF i = 0 THEN 0 ELSE l.cols
      /\ i = l.rows => j = 0
      /\ j > 0 => nextStartCorner = Crossing(l, s, i + 1, 0)
  BY DEF Rows
<1>5. FullTurn <=> i = l.rows /\ l.rows = l.p
  <2>1. CASE i = l.p
    <3>1. j = 0 /\ i = l.rows /\ i # 0
      BY <1>1, <1>4, <2>1
    <3>2. Crossing(l, s, i, 0) = Crossing(l, s, 0, 0)
      <4>1. 0 \in 0 .. l.g
        BY <1>1
      <4> QED
        BY <2>1, <4>1, CrossingsApart
    <3> QED
      BY <1>3, <1>4, <2>1, <3>1, <3>2 DEF FullTurn
  <2>2. CASE i # l.p
    <3>1. i \in 0 .. l.p - 1 /\ 0 \in 0 .. l.p - 1 /\ 0 \in 0 .. l.g - 1
      BY <1>1, <1>2, <2>2
    <3>2. Crossing(l, s, i, j) = Crossing(l, s, 0, 0) => i = 0
      BY <1>2, <3>1, CrossingsApart
    <3> QED
      BY <1>3, <1>4, <2>2, <3>2 DEF FullTurn
  <2> QED
    BY <2>1, <2>2
<1>6. FirstEdges(nextCorner) = IF j < l.cols THEN {ProfileEdge(l, s, i, j)} ELSE {}
  BY <1>2, <1>3, ProfilesOfWalk
<1>7. CASE GuidesClosed
  <2>1. i = l.rows /\ j = 0 /\ i # 0
    BY <1>1, <1>4, <1>5, <1>7 DEF GuidesClosed
  <2>2. /\ pc' = "fill" /\ status' = status /\ cells' = cells /\ rowLength' = rowLength
    BY <1>7 DEF GuidesClosed, Break
  <2>3. s \in Places(l)
    BY DEF IsStart
  <2>4. /\ IsStart(l, s) /\ pc' \in {"fill", "done"} /\ status' = "OK" /\ rowLength' = l.cols
        /\ CellsUpTo(cells', l, s, l.rows, 0) /\ pc' # "done"
    BY <1>4, <2>1, <2>2
  <2> QED
    BY <2>3, <2>4 DEF AllIsCut
<1>8. CASE FindFirstEdge
  <2>1. j < l.cols /\ ~ (i = l.rows /\ l.rows = l.p)
    BY <1>5, <1>6, <1>8 DEF FindFirstEdge
  <2>2. /\ ProfileEdge(l, s, i, j) \in net.profiles
        /\ net.last[ProfileEdge(l, s, i, j)] = Crossing(l, s, i, j + 1)
    BY <1>2, <2>1, ProfilesOfWalk
  <2>3. FirstIn(FirstEdges(nextCorner)) = ProfileEdge(l, s, i, j)
    BY <1>0, <1>6, <2>1, <2>2, FirstOfOne
  <2>4. AtSecond(l, s, i, j)'
    BY <1>3, <1>8, <2>1, <2>2, <2>3 DEF FindFirstEdge, AtSecond
  <2>5. Rows(l, s, i, j)'
    BY <1>4, <1>8 DEF FindFirstEdge, Rows, object
  <2> QED
    BY <2>4, <2>5, StillWalking DEF Walks
<1>9. ASSUME FirstEdges(nextCorner) = {}
      PROVE  /\ j = l.cols /\ l.cols # l.g /\ i < l.rows /\ j > 0
             /\ nextStartCorner = Crossing(l, s, i + 1, 0) /\ nextStartCorner # NoVertex
  <2>1. j = l.cols /\ l.cols # l.g /\ i < l.rows /\ j > 0 /\ i + 1 \in 0 .. l.p /\ 0 \in 0 .. l.g
    BY <1>1, <1>2, <1>3, <1>4, <1>6, <1>9
  <2>2. Crossing(l, s, i + 1, 0) # NoVertex
    BY <1>0, <2>1, CrossingsAreVertices
  <2> QED
    BY <1>4, <2>1, <2>2
<1>10. CASE OpenProfileEnds
  <2>1. /\ j = l.cols /\ l.cols # l.g /\ i < l.rows
        /\ nextStartCorner = Crossing(l, s, i + 1, 0)
    BY <1>9, <1>10 DEF OpenProfileEnds
  <2>2. /\ pc' = "first" /\ status' = status /\ globalStart' = globalStart /\ cells' = cells
        /\ startCorner' = nextStartCorner /\ nextCorner' = nextStartCorner /\ EndRow(Len(cells))
    BY <1>3, <1>10 DEF OpenProfileEnds, NextRow, object
  <2>3. CellsUpTo(cells, l, s, i + 1, 0)
    BY <1>1, <1>2, <1>4, <2>1, OneMoreRow
  <2>4. i = 0 => Len(cells) = l.cols
    BY <1>1, <1>4, <2>1 DEF CellsUpTo
  <2>5. isFirstRow' = FALSE /\ rowLength' = l.cols
    BY <1>4, <2>2, <2>4 DEF EndRow
  <2>6. Rows(l, s, i + 1, 0)'
    <3>1. i + 1 # 0 /\ ~ (0 > 0)
      BY <1>2
    <3>2. /\ status' = "OK" /\ globalStart' = Crossing(l, s, 0, 0)
          /\ CellsUpTo(cells', l, s, i + 1, 0)
          /\ isFirstRow' \in BOOLEAN /\ (isFirstRow' <=> i + 1 = 0)
          /\ rowLength' = IF i + 1 = 0 THEN 0 ELSE l.cols
      BY <1>4, <2>2, <2>3, <2>5, <3>1
    <3> QED
      BY <3>1, <3>2 DEF Rows
  <2>7. AtFirst(l, s, i + 1, 0)'
    BY <1>1, <2>1, <2>2 DEF AtFirst
  <2>8. i + 1 \in 0 .. l.rows /\ 0 \in 0 .. l.cols
    BY <1>1, <1>2, <2>1
  <2> QED
    BY <2>6, <2>7, <2>8, StillWalking DEF Walks
<1>11. CASE NoFirstEdge
  BY <1>9, <1>11 DEF NoFirstEdge
<1> QED
  BY <1>3, <1>7, <1>8, <1>10, <1>11
     DEF Perform, NoVertices, NotRectangular, NoStartingCorner, FindStartingCorner, Loop,
         FindSecondEdge, NoSecondEdge, FindThirdEdge, NoThirdEdge, FindFourthEdge,
         NoFourthEdge, EdgesDoNotMeet, NoRow, FillCellGrid

\* A grid has cells.
LEMMA ProductPositive ==
  ASSUME NEW a \in Nat \ {0}, NEW b \in Nat \ {0}
  PROVE  a * b > 0
<1> DEFINE d == a - 1
<1>1. d \in Nat /\ a = d + 1
  OBVIOUS
<1> HIDE DEF d
<1>2. a * b = d * b + b /\ d * b \in Nat
  BY <1>1
<1> QED
  BY <1>2

\* The guide edge that ends the cell is found, or behind the last open row none.
LEMMA SecondStep ==
  ASSUME TypeOK, IsGrid(net), NEW l, l = net.layout, NEW s, IsStart(l, s),
         NEW i \in 0 .. l.rows, NEW j \in 0 .. l.cols,
         Rows(l, s, i, j), AtSecond(l, s, i, j), Perform
  PROVE  Walking(l)' \/ AllIsCut(l)'
<1>0. net \in Networks /\ net.profiles \subseteq Nat /\ net.guides \subseteq Nat
  BY NetworkEdges DEF TypeOK
<1>1. /\ l.rows \in Nat \ {0} /\ l.cols \in Nat \ {0} /\ l.g \in Nat \ {0, 1} /\ l.p \in Nat \ {0}
      /\ (l.cols = l.g \/ l.cols = l.g - 1) /\ (l.rows = l.p \/ l.rows = l.p - 1)
  BY GridSizes
<1>2. /\ pc = "second" /\ j < l.cols /\ (i = l.rows => l.rows # l.p)
      /\ quad = <<ProfileEdge(l, s, i, j)>>
      /\ curVertex = Crossing(l, s, i, j + 1) /\ corner = Crossing(l, s, i, j)
      /\ startCorner = Crossing(l, s, i, 0) /\ nextCorner = Crossing(l, s, i, j + 1)
  BY DEF AtSecond
<1>3. /\ i \in Nat /\ j \in Nat /\ i \in 0 .. l.p - 1 /\ i \in 0 .. l.p /\ j + 1 \in 0 .. l.g
      /\ 0 \in 0 .. l.g - 1
  BY <1>1, <1>2
<1>4. SecondEdges = IF i < l.rows THEN {GuideEdge(l, s, i, j + 1)} ELSE {}
  BY <1>2, <1>3, GuidesOfWalk DEF SecondEdges
<1>5. nextCorner = startCorner <=> j + 1 = l.g
  <2>1. CASE j + 1 = l.g
    <3>1. Crossing(l, s, i, l.g) = Crossing(l, s, i, 0)
      BY <1>3, CrossingsApart
    <3> QED
      BY <1>2, <2>1, <3>1
  <2>2. CASE j + 1 # l.g
    <3>1. j + 1 \in 0 .. l.g - 1 /\ j + 1 # 0
      BY <1>1, <1>3, <2>2
    <3>2. Crossing(l, s, i, j + 1) = Crossing(l, s, i, 0) => j + 1 = 0
      BY <1>3, <3>1, CrossingsApart
    <3> QED
      BY <1>2, <2>2, <3>1, <3>2
  <2> QED
    BY <2>1, <2>2
<1>6. CASE FindSecondEdge
  <2> DEFINE e2 == FirstIn(SecondEdges)
  <2>1. i < l.rows
    BY <1>4, <1>6 DEF FindSecondEdge
  <2>2. /\ GuideEdge(l, s, i, j + 1) \in net.guides
        /\ net.last[GuideEdge(l, s, i, j + 1)] = Crossing(l, s, i + 1, j + 1)
    BY <1>3, <2>1, GuidesOfWalk
  <2>3. e2 = GuideEdge(l, s, i, j + 1)
    BY <1>0, <1>4, <2>1, <2>2, FirstOfOne
  <2>4. /\ pc' = "third" /\ quad' = <<quad[1], e2>> /\ curVertex' = net.last[e2] /\ corner' = corner
        /\ startCorner' = IF nextCorner = startCorner THEN net.last[e2] ELSE startCorner
        /\ nextCorner' = IF nextCorner = startCorner THEN net.last[e2] ELSE nextCorner
    BY <1>6 DEF FindSecondEdge
  <2> HIDE DEF e2
  <2>5. quad' = <<ProfileEdge(l, s, i, j), GuideEdge(l, s, i, j + 1)>>
    BY <1>2, <2>3, <2>4
  <2>6. RowAndNext(l, s, i, j)'
    <3>1. CASE j + 1 = l.g
      <4>1. i + 1 \in 0 .. l.p
        BY <1>1, <1>3
      <4>2. Crossing(l, s, i + 1, j + 1) = Crossing(l, s, i + 1, 0)
        BY <3>1, <4>1, CrossingsApart
      <4> QED
        BY <1>5, <2>2, <2>3, <2>4, <3>1, <4>2 DEF RowAndNext
    <3>2. CASE j + 1 # l.g
      BY <1>2, <1>5, <2>4, <3>2 DEF RowAndNext
    <3> QED
      BY <3>1, <3>2
  <2>7. AtThird(l, s, i, j)'
    BY <1>2, <2>1, <2>2, <2>3, <2>4, <2>5, <2>6 DEF AtThird
  <2>8. Rows(l, s, i, j)'
    BY <1>6 DEF FindSecondEdge, Rows, object
  <2> QED
    BY <2>7, <2>8, StillWalking DEF Walks
<1>7. CASE NoSecondEdge
  <2>1. i = l.rows /\ j = 0
    <3>1. ~ (i < l.rows)
      BY <1>4, <1>7 DEF NoSecondEdge
    <3>2. i = l.rows
      BY <1>1, <1>3, <3>1
    <3>3. i = l.rows => j = 0
      BY DEF Rows
    <3> QED
      BY <3>2, <3>3
  <2>2. /\ status = "OK" /\ CellsUpTo(cells, l, s, l.rows, 0) /\ rowLength = l.cols
    BY <1>1, <2>1 DEF Rows
  <2>3. pc' = "fill" /\ cells' = cells /\ rowLength' = rowLength
    BY <1>7 DEF NoSecondEdge, BreakUnlessFound, Break, search
  <2>4. cells # <<>>
    <3>1. l.rows * l.cols > 0
      BY <1>1, ProductPositive
    <3>2. Len(cells) = l.rows * l.cols + 0 /\ l.rows * l.cols \in Nat
      <4>1. Len(cells) = l.rows * l.cols + 0
        BY <2>2, Zenon DEF CellsUpTo
      <4>2. l.rows \in Nat /\ l.cols \in Nat
        BY <1>1
      <4>3. \A x, y \in Nat : x * y \in Nat
        OBVIOUS
      <4> QED
        BY <4>1, <4>2, <4>3, Zenon
    <3> DEFINE m == l.rows * l.cols
    <3>3. Len(cells) # 0
      <4>1. Len(cells) = m + 0 /\ m \in Nat /\ m > 0
        BY <3>1, <3>2
      <4> HIDE DEF m
      <4> QED
        BY <4>1
    <3> QED
      BY <3>3
  <2>5. status' = "OK"
    BY <1>7, <2>2, <2>4 DEF NoSecondEdge, BreakUnlessFound, Break
  <2>6. s \in Places(l)
    BY DEF IsStart
  <2>7. /\ IsStart(l, s) /\ pc' \in {"fill", "done"} /\ status' = "OK" /\ rowLength' = l.cols
        /\ CellsUpTo(cells', l, s, l.rows, 0) /\ pc' # "done"
    BY <2>2, <2>3, <2>5
  <2> QED
    BY <2>6, <2>7 DEF AllIsCut
<1> QED
  BY <1>2, <1>6, <1>7
     DEF Perform, NoVertices, NotRectangular, NoStartingCorner, FindStartingCorner, Loop,
         GuidesClosed, FindFirstEdge, OpenProfileEnds, NoFirstEdge, FindThirdEdge, NoThirdEdge,
         FindFourthEdge, NoFourthEdge, EdgesDoNotMeet, NoRow, FillCellGrid

\* The profile edge above is found, and at the first cell the start of the next row.
LEMMA ThirdStep ==
  ASSUME TypeOK, IsGrid(net), NEW l, l = net.layout, NEW s, IsStart(l, s),
         NEW i \in 0 .. l.rows, NEW j \in 0 .. l.cols,
         Rows(l, s, i, j), AtThird(l, s, i, j), Perform
  PROVE  Walking(l)'
<1>0. net \in Networks /\ net.profiles \subseteq Nat /\ net.guides \subseteq Nat
  BY NetworkEdges DEF TypeOK
<1>1. /\ l.rows \in Nat \ {0} /\ l.cols \in Nat \ {0} /\ l.g \in Nat \ {0, 1} /\ l.p \in Nat \ {0}
      /\ (l.cols = l.g \/ l.cols = l.g - 1) /\ (l.rows = l.p \/ l.rows = l.p - 1)
  BY GridSizes
<1>2. /\ pc = "third" /\ j < l.cols /\ i < l.rows
      /\ quad = <<ProfileEdge(l, s, i, j), GuideEdge(l, s, i, j + 1)>>
      /\ curVertex = Crossing(l, s, i + 1, j + 1) /\ corner = Crossing(l, s, i, j)
      /\ RowAndNext(l, s, i, j)
  BY DEF AtThird
<1>3. /\ i \in Nat /\ j \in Nat /\ i \in 0 .. l.p /\ i + 1 \in 0 .. l.p /\ j \in 0 .. l.g - 1
      /\ 0 \in 0 .. l.g - 1
  BY <1>1, <1>2
<1>4. /\ ThirdEdges = {ProfileEdge(l, s, i + 1, j)}
      /\ ProfileEdge(l, s, i + 1, j) \in net.profiles
      /\ net.first[ProfileEdge(l, s, i + 1, j)] = Crossing(l, s, i + 1, j)
  BY <1>2, <1>3, ProfilesOfWalk DEF ThirdEdges
<1>5. FirstIn(ThirdEdges) = ProfileEdge(l, s, i + 1, j)
  BY <1>0, <1>4, FirstOfOne
<1>6. FindThirdEdge
  BY <1>2, <1>4
     DEF Perform, NoVertices, NotRectangular, NoStartingCorner, FindStartingCorner, Loop,
         GuidesClosed, FindFirstEdge, OpenProfileEnds, NoFirstEdge, FindSecondEdge, NoSecondEdge,
         NoThirdEdge, FindFourthEdge, NoFourthEdge, EdgesDoNotMeet, NoRow, FillCellGrid
<1>7. /\ pc' = "fourth" /\ quad' = <<quad[1], quad[2], FirstIn(ThirdEdges)>>
      /\ curVertex' = net.first[FirstIn(ThirdEdges)]
      /\ nextStartCorner' = IF corner = startCorner THEN net.first[FirstIn(ThirdEdges)]
                                                    ELSE nextStartCorner
      /\ startCorner' = startCorner /\ nextCorner' = nextCorner
  BY <1>6 DEF FindThirdEdge
<1>8. nextStartCorner' = Crossing(l, s, i + 1, 0)
  <2>1. corner = startCorner => j = 0
    <3>1. startCorner = Crossing(l, s, i + 1, 0) \/ startCorner = Crossing(l, s, i, 0)
      BY <1>2 DEF RowAndNext
    <3>2. Crossing(l, s, i, j) = Crossing(l, s, i + 1, 0) => j = 0
      BY <1>3, ColumnsApart
    <3>3. Crossing(l, s, i, j) = Crossing(l, s, i, 0) => j = 0
      BY <1>3, ColumnsApart
    <3> QED
      BY <1>2, <3>1, <3>2, <3>3
  <2>2. j = 0 => corner = startCorner
    BY <1>1, <1>2 DEF RowAndNext
  <2>3. CASE j = 0
    BY <1>4, <1>5, <1>7, <2>2, <2>3
  <2>4. CASE j # 0
    <3>1. nextStartCorner = Crossing(l, s, i + 1, 0)
      BY <1>3, <2>4 DEF Rows
    <3> QED
      BY <1>7, <2>1, <2>4, <3>1
  <2> QED
    BY <2>3, <2>4
<1>9. quad' = <<ProfileEdge(l, s, i, j), GuideEdge(l, s, i, j + 1), ProfileEdge(l, s, i + 1, j)>>
  BY <1>2, <1>5, <1>7
<1>10. AtFourth(l, s, i, j)'
  BY <1>2, <1>4, <1>5, <1>7, <1>8, <1>9 DEF AtFourth, RowAndNext
<1>11. Rows(l, s, i, j)'
  BY <1>6, <1>8 DEF FindThirdEdge, Rows, object
<1> QED
  BY <1>10, <1>11, StillWalking DEF Walks

\* The patch closes; behind the last cell of a closed row the next row begins.
LEMMA FourthStep ==
  ASSUME TypeOK, IsGrid(net), NEW l, l = net.layout, NEW s, IsStart(l, s),
         NEW i \in 0 .. l.rows, NEW j \in 0 .. l.cols,
         Rows(l, s, i, j), AtFourth(l, s, i, j), Perform
  PROVE  Walking(l)'
<1>0. net \in Networks /\ net.profiles \subseteq Nat /\ net.guides \subseteq Nat
      /\ net.profiles \subseteq net.edges /\ net.guides \subseteq net.edges /\ net.reversed = {}
  BY NetworkEdges DEF TypeOK, IsGrid
<1>1. /\ l.rows \in Nat \ {0} /\ l.cols \in Nat \ {0} /\ l.g \in Nat \ {0, 1} /\ l.p \in Nat \ {0}
      /\ (l.cols = l.g \/ l.cols = l.g - 1) /\ (l.rows = l.p \/ l.rows = l.p - 1)
  BY GridSizes
<1>2. /\ pc = "fourth" /\ j < l.cols /\ i < l.rows
      /\ quad = <<ProfileEdge(l, s, i, j), GuideEdge(l, s, i, j + 1), ProfileEdge(l, s, i + 1, j)>>
      /\ curVertex = Crossing(l, s, i + 1, j) /\ nextStartCorner = Crossing(l, s, i + 1, 0)
      /\ RowAndNext(l, s, i, j)
  BY DEF AtFourth
<1>3. /\ i \in Nat /\ j \in Nat /\ i \in 0 .. l.p - 1 /\ i \in 0 .. l.p /\ i + 1 \in 0 .. l.p
      /\ j \in 0 .. l.g - 1 /\ j \in 0 .. l.g /\ j + 1 \in 0 .. l.g /\ 0 \in 0 .. l.g - 1
  BY <1>1, <1>2
<1>4. /\ FourthEdges = {GuideEdge(l, s, i, j)}
      /\ GuideEdge(l, s, i, j) \in net.guides
      /\ net.first[GuideEdge(l, s, i, j)] = Crossing(l, s, i, j)
  BY <1>2, <1>3, GuidesOfWalk DEF FourthEdges
<1>5. FirstIn(FourthEdges) = GuideEdge(l, s, i, j)
  BY <1>0, <1>4, FirstOfOne
<1>6. /\ ProfileEdge(l, s, i, j) \in net.profiles /\ ProfileEdge(l, s, i + 1, j) \in net.profiles
      /\ GuideEdge(l, s, i, j + 1) \in net.guides
      /\ net.first[ProfileEdge(l, s, i, j)] = Crossing(l, s, i, j)
  BY <1>2, <1>3, ProfilesOfWalk, GuidesOfWalk
<1>7. ClosesPatch(FirstIn(FourthEdges))
  BY <1>0, <1>2, <1>4, <1>5, <1>6 DEF ClosesPatch, BuiltFirst
<1>8. FindFourthEdge
  BY <1>2, <1>4, <1>7
     DEF Perform, NoVertices, NotRectangular, NoStartingCorner, FindStartingCorner, Loop,
         GuidesClosed, FindFirstEdge, OpenProfileEnds, NoFirstEdge, FindSecondEdge, NoSecondEdge,
         FindThirdEdge, NoThirdEdge, NoFourthEdge, EdgesDoNotMeet, NoRow, FillCellGrid
<1>9. cells' = Append(cells, CellAt(l, s, i, j))
  <2>1. cells' = Append(cells, <<quad[1], quad[2], quad[3], FirstIn(FourthEdges)>>)
    BY <1>8 DEF FindFourthEdge, StoreCell
  <2>2. <<quad[1], quad[2], quad[3], FirstIn(FourthEdges)>> = CellAt(l, s, i, j)
    BY <1>2, <1>5 DEF CellAt
  <2> QED
    BY <2>1, <2>2
<1>10. CellsUpTo(cells', l, s, i, j + 1)
  <2> DEFINE E == net.edges \X net.edges \X net.edges \X net.edges
  <2>1. CellAt(l, s, i, j) \in E
    BY <1>0, <1>4, <1>6 DEF CellAt
  <2>2. cells \in Seq(E) /\ CellsUpTo(cells, l, s, i, j)
    BY DEF TypeOK, Rows
  <2> HIDE DEF E
  <2> QED
    BY <1>1, <1>3, <1>9, <2>1, <2>2, OneMoreCell
<1>11. nextCorner = startCorner <=> j + 1 = l.g
  <2>1. CASE j + 1 = l.g
    BY <1>2, <2>1 DEF RowAndNext
  <2>2. CASE j + 1 # l.g
    <3>1. j + 1 \in 0 .. l.g - 1 /\ j + 1 # 0
      BY <1>1, <1>3, <2>2
    <3>2. Crossing(l, s, i, j + 1) = Crossing(l, s, i, 0) => j + 1 = 0
      BY <1>3, <3>1, CrossingsApart
    <3> QED
      BY <1>2, <2>2, <3>1, <3>2 DEF RowAndNext
  <2> QED
    BY <2>1, <2>2
<1>12. /\ pc' = "first" /\ status' = status /\ globalStart' = globalStart
       /\ nextStartCorner' = nextStartCorner
       /\ status = "OK" /\ globalStart = Crossing(l, s, 0, 0)
       /\ isFirstRow \in BOOLEAN /\ (isFirstRow <=> i = 0) /\ rowLength = IF i = 0 THEN 0 ELSE l.cols
  BY <1>8 DEF FindFourthEdge, Rows
<1>13. CASE j + 1 = l.g
  <2>1. /\ startCorner' = nextStartCorner /\ nextCorner' = nextStartCorner /\ EndRow(Len(cells'))
    BY <1>8, <1>11, <1>13 DEF FindFourthEdge, NextRow
  <2>2. j + 1 = l.cols /\ l.cols = l.g
    BY <1>1, <1>2, <1>3, <1>13
  <2>3. CellsUpTo(cells', l, s, i + 1, 0)
    BY <1>1, <1>3, <1>10, <2>2, OneMoreRow
  <2>4. i = 0 => Len(cells') = l.cols
    <3>1. Len(cells') = i * l.cols + l.cols
      BY <1>10, <2>2 DEF CellsUpTo
    <3> QED
      BY <1>1, <3>1
  <2>5. isFirstRow' = FALSE /\ rowLength' = l.cols
    BY <1>12, <2>1, <2>4 DEF EndRow
  <2>6. Rows(l, s, i + 1, 0)'
    <3>1. i + 1 # 0 /\ ~ (0 > 0)
      BY <1>3
    <3>2. /\ status' = "OK" /\ globalStart' = Crossing(l, s, 0, 0)
          /\ CellsUpTo(cells', l, s, i + 1, 0)
          /\ isFirstRow' \in BOOLEAN /\ (isFirstRow' <=> i + 1 = 0)
          /\ rowLength' = IF i + 1 = 0 THEN 0 ELSE l.cols
      BY <1>12, <2>3, <2>5, <3>1
    <3> QED
      BY <3>1, <3>2 DEF Rows
  <2>7. AtFirst(l, s, i + 1, 0)'
    BY <1>1, <1>2, <1>12, <2>1 DEF AtFirst
  <2>8. i + 1 \in 0 .. l.rows /\ 0 \in 0 .. l.cols
    BY <1>1, <1>2, <1>3
  <2> QED
    BY <2>6, <2>7, <2>8, StillWalking DEF Walks
<1>14. CASE j + 1 # l.g
  <2>1. UNCHANGED <<startCorner, nextCorner, isFirstRow, rowLength>>
    BY <1>8, <1>11, <1>14 DEF FindFourthEdge
  <2>2. Rows(l, s, i, j + 1)'
    <3>1. i # l.rows
      BY <1>2, <1>3
    <3> QED
      BY <1>2, <1>10, <1>12, <2>1, <3>1 DEF Rows
  <2>3. AtFirst(l, s, i, j + 1)'
    <3>1. l.cols = l.g => j + 1 < l.cols
      BY <1>1, <1>3, <1>14
    <3> QED
      BY <1>2, <1>12, <1>14, <2>1, <3>1 DEF AtFirst, RowAndNext
  <2>4. j + 1 \in 0 .. l.cols
    BY <1>1, <1>2, <1>3
  <2> QED
    BY <2>2, <2>3, <2>4, StillWalking DEF Walks
<1> QED
  BY <1>13, <1>14

\* The array is filled as the list is.
LEMMA FillStep ==
  ASSUME TypeOK, IsGrid(net), NEW l, l = net.layout, AllIsCut(l), Perform
  PROVE  AllIsCut(l)'
<1>1. PICK s \in Places(l) :
        /\ IsStart(l, s)
        /\ pc \in {"fill", "done"} /\ status = "OK" /\ rowLength = l.cols
        /\ CellsUpTo(cells, l, s, l.rows, 0)
        /\ pc = "done" => cellGrid = GridOfCells(l, s)
  BY DEF AllIsCut
<1>2. l.rows \in Nat \ {0} /\ l.cols \in Nat \ {0}
  BY GridSizes
<1>3. FillCellGrid
  BY <1>1, <1>2
     DEF Perform, NoVertices, NotRectangular, NoStartingCorner, FindStartingCorner, Loop,
         GuidesClosed, FindFirstEdge, OpenProfileEnds, NoFirstEdge, FindSecondEdge, NoSecondEdge,
         FindThirdEdge, NoThirdEdge, FindFourthEdge, NoFourthEdge, EdgesDoNotMeet, NoRow
<1>4. Len(cells) = l.rows * l.cols
  BY <1>1, <1>2 DEF CellsUpTo
<1>5. ColLength = l.rows
  BY <1>1, <1>2, <1>4 DEF ColLength
<1>6. pc' = "done"
  BY <1>1, <1>3, <1>4, <1>5 DEF FillCellGrid
<1>7. cellGrid' = GridOfCells(l, s)
  <2>1. cellGrid' = [i \in 1 .. l.rows |-> [j \in 1 .. l.cols |-> cells[CellByRow(i, j)]]]
    BY <1>1, <1>3, <1>5 DEF FillCellGrid
  <2>2. ASSUME NEW i \in 1 .. l.rows, NEW j \in 1 .. l.cols
        PROVE  cells[CellByRow(i, j)] = CellAt(l, s, i - 1, j - 1)
    <3>1. i - 1 \in 0 .. l.rows - 1 /\ j - 1 \in 0 .. l.cols - 1
      BY <1>2
    <3>2. cells[(i - 1) * l.cols + (j - 1) + 1] = CellAt(l, s, i - 1, j - 1)
      BY <1>1, <3>1 DEF CellsUpTo
    <3>3. (i - 1) * l.cols + (j - 1) + 1 = (i - 1) * l.cols + j
      BY <1>2
    <3> QED
      BY <1>1, <3>2, <3>3 DEF CellByRow
  <2> QED
    BY <2>1, <2>2 DEF GridOfCells
<1>8. status' = status /\ rowLength' = rowLength /\ cells' = cells
  BY <1>3 DEF FillCellGrid, search
<1> QED
  BY <1>1, <1>6, <1>7, <1>8 DEF AllIsCut

(***************************************************************************)
(* The walk on a grid goes on until all is cut.                            *)
(***************************************************************************)
LEMMA WalkStep ==
  ASSUME TypeOK, IsGrid(net), NEW l, l = net.layout, Walking(l), Perform
  PROVE  Walking(l)' \/ AllIsCut(l)'
<1>1. PICK s \in Places(l) : IsStart(l, s)
                 /\ \E i \in 0 .. l.rows, j \in 0 .. l.cols : Walks(l, s, i, j)
  BY DEF Walking
<1>2. PICK i \in 0 .. l.rows, j \in 0 .. l.cols : Walks(l, s, i, j)
  BY <1>1
<1>3. CASE AtFirst(l, s, i, j)
  BY <1>1, <1>2, <1>3, FirstStep DEF Walks
<1>4. CASE AtSecond(l, s, i, j)
  BY <1>1, <1>2, <1>4, SecondStep DEF Walks
<1>5. CASE AtThird(l, s, i, j)
  BY <1>1, <1>2, <1>5, ThirdStep DEF Walks
<1>6. CASE AtFourth(l, s, i, j)
  BY <1>1, <1>2, <1>6, FourthStep DEF Walks
<1> QED
  BY <1>2, <1>3, <1>4, <1>5, <1>6 DEF Walks

\* Nothing moves when no variable does.
LEMMA GridRests ==
  ASSUME NEW l, UNCHANGED vars
  PROVE  /\ NotBegun => NotBegun'
         /\ Walking(l) => Walking(l)'
         /\ AllIsCut(l) => AllIsCut(l)'
<1>1. UNCHANGED <<pc, status, cells, cellGrid, globalStart, startCorner, nextCorner,
                  nextStartCorner, corner, curVertex, quad, isFirstRow, rowLength>>
  BY DEF vars, object, search
<1>2. NotBegun => NotBegun'
  BY <1>1 DEF NotBegun
<1>3. ASSUME NEW s, NEW i, NEW j, Walks(l, s, i, j)
      PROVE  Walks(l, s, i, j)'
  <2>1. Rows(l, s, i, j)'
    BY <1>1, <1>3 DEF Walks, Rows
  <2>2. /\ AtFirst(l, s, i, j) => AtFirst(l, s, i, j)'
        /\ AtSecond(l, s, i, j) => AtSecond(l, s, i, j)'
        /\ AtThird(l, s, i, j) => AtThird(l, s, i, j)'
        /\ AtFourth(l, s, i, j) => AtFourth(l, s, i, j)'
    BY <1>1 DEF AtFirst, AtSecond, AtThird, AtFourth, RowAndNext
  <2> QED
    BY <1>3, <2>1, <2>2 DEF Walks
<1>4. Walking(l) => Walking(l)'
  <2> HAVE Walking(l)
  <2>1. PICK s \in Places(l) : IsStart(l, s)
                 /\ \E i \in 0 .. l.rows, j \in 0 .. l.cols : Walks(l, s, i, j)
    BY DEF Walking
  <2>2. PICK i \in 0 .. l.rows, j \in 0 .. l.cols : Walks(l, s, i, j)
    BY <2>1
  <2>3. Walks(l, s, i, j)'
    BY <1>3, <2>2
  <2> QED
    BY <2>1, <2>2, <2>3, StillWalking
<1>5. AllIsCut(l) => AllIsCut(l)'
  BY <1>1 DEF AllIsCut
<1> QED
  BY <1>2, <1>4, <1>5

\* The walk has not begun,
LEMMA InitGridInv == Init => GridInv
BY DEF Init, GridInv, NotBegun

\* and every step keeps to it.
LEMMA NextGridInv == ChainInv /\ GridInv /\ [Next]_vars => GridInv'
<1> SUFFICES ASSUME ChainInv, GridInv, [Next]_vars, IsGrid(net')
             PROVE  (NotBegun \/ Walking(net.layout) \/ AllIsCut(net.layout))'
  BY DEF GridInv
<1> DEFINE l == net.layout
<1>1. TypeOK /\ net' = net
  BY CellStored DEF ChainInv
<1>2. IsGrid(net) /\ (NotBegun \/ Walking(l) \/ AllIsCut(l))
  BY <1>1 DEF GridInv
<1>3. l' = l
  BY <1>1
<1> SUFFICES NotBegun' \/ Walking(l)' \/ AllIsCut(l)'
  OBVIOUS
<1>5. PICK m : m = net.layout
  OBVIOUS
<1>6. NotBegun \/ Walking(m) \/ AllIsCut(m)
  BY <1>2, <1>5
<1>7. NotBegun' \/ Walking(m)' \/ AllIsCut(m)'
  <2>1. CASE Perform
    BY <1>1, <1>2, <1>5, <1>6, <2>1, WalkBegins, WalkStep, FillStep
  <2>2. CASE UNCHANGED vars
    BY <1>6, <2>2, GridRests
  <2> QED
    BY <2>1, <2>2 DEF Next, Stopped
<1> QED
  BY <1>3, <1>5, <1>7

(***************************************************************************)
(* What is cut is the grid.                                                *)
(***************************************************************************)
\* The cells of the walk are patches of the network.
LEMMA CellsArePatches ==
  ASSUME IsGrid(net), NEW l, l = net.layout, NEW s, IsStart(l, s),
         NEW i \in 0 .. l.rows - 1, NEW j \in 0 .. l.cols - 1
  PROVE  CellAt(l, s, i, j) \in Patches
<1>1. /\ l.rows \in Nat \ {0} /\ l.cols \in Nat \ {0} /\ l.g \in Nat \ {0, 1} /\ l.p \in Nat \ {0}
      /\ (l.cols = l.g \/ l.cols = l.g - 1) /\ (l.rows = l.p \/ l.rows = l.p - 1)
  BY GridSizes
<1>2. /\ i \in 0 .. l.p - 1 /\ i \in 0 .. l.p /\ i + 1 \in 0 .. l.p /\ i < l.rows
      /\ j \in 0 .. l.g - 1 /\ j \in 0 .. l.g /\ j + 1 \in 0 .. l.g /\ j < l.cols
  BY <1>1
<1> DEFINE e1 == ProfileEdge(l, s, i, j)
           e2 == GuideEdge(l, s, i, j + 1)
           e3 == ProfileEdge(l, s, i + 1, j)
           e4 == GuideEdge(l, s, i, j)
<1>3. /\ e1 \in net.profiles /\ net.first[e1] = Crossing(l, s, i, j)
      /\ net.last[e1] = Crossing(l, s, i, j + 1)
  BY <1>2, ProfilesOfWalk
<1>4. /\ e2 \in net.guides /\ net.first[e2] = Crossing(l, s, i, j + 1)
      /\ net.last[e2] = Crossing(l, s, i + 1, j + 1)
  BY <1>2, GuidesOfWalk
<1>5. /\ e3 \in net.profiles /\ net.first[e3] = Crossing(l, s, i + 1, j)
      /\ net.last[e3] = Crossing(l, s, i + 1, j + 1)
  BY <1>2, ProfilesOfWalk
<1>6. /\ e4 \in net.guides /\ net.first[e4] = Crossing(l, s, i, j)
      /\ net.last[e4] = Crossing(l, s, i + 1, j)
  BY <1>2, GuidesOfWalk
<1>7. CellAt(l, s, i, j) = <<e1, e2, e3, e4>>
  BY DEF CellAt
<1> HIDE DEF e1, e2, e3, e4
<1>8. IsLoop(<<e1, e2, e3, e4>>)
  BY <1>3, <1>4, <1>5, <1>6 DEF IsLoop, IsChain
<1>9. e2 \in Starting(net.last[e1]) \cap net.guides
  BY <1>3, <1>4 DEF IsGrid, Starting
<1>10. <<e1, e2, e3, e4>> \in {e1} \X (Starting(net.last[e1]) \cap net.guides)
                                   \X net.profiles \X net.guides
  BY <1>5, <1>6, <1>9
<1> QED
  BY <1>3, <1>7, <1>8, <1>10 DEF Patches

\* The walk comes to every place.
LEMMA WalkedTo ==
  ASSUME NEW n, IsGrid(n), NEW l, l = n.layout, NEW s, IsStart(l, s), NEW x \in Places(l)
  PROVE  \E i \in 0 .. l.p - 1, j \in 0 .. l.g - 1 : x = Place(l, s, i, j)
<1>1. /\ s[1] \in 0 .. l.p - 1 /\ s[2] \in 0 .. l.g - 1
      /\ x = <<x[1], x[2]>> /\ x[1] \in 0 .. l.p - 1 /\ x[2] \in 0 .. l.g - 1
      /\ l.p \in Nat \ {0} /\ l.g \in Nat \ {0}
  BY GridSizes DEF IsStart, Places
<1> DEFINE i == IF x[1] >= s[1] THEN x[1] - s[1] ELSE x[1] + l.p - s[1]
           j == IF x[2] >= s[2] THEN x[2] - s[2] ELSE x[2] + l.g - s[2]
<1>2. i \in 0 .. l.p - 1 /\ Wrap(s[1] + i, l.p) = x[1]
  BY <1>1 DEF Wrap
<1>3. j \in 0 .. l.g - 1 /\ Wrap(s[2] + j, l.g) = x[2]
  BY <1>1 DEF Wrap
<1> HIDE DEF i, j
<1>4. x = Place(l, s, i, j)
  BY <1>1, <1>2, <1>3 DEF Place
<1> QED
  BY <1>2, <1>3, <1>4

\* Every patch of the network is a cell of the walk.
LEMMA PatchesAreCells ==
  ASSUME IsGrid(net), NEW l, l = net.layout, NEW s, IsStart(l, s), NEW q \in Patches
  PROVE  \E i \in 0 .. l.rows - 1, j \in 0 .. l.cols - 1 : q = CellAt(l, s, i, j)
<1>1. /\ l.rows \in Nat \ {0} /\ l.cols \in Nat \ {0} /\ l.g \in Nat \ {0, 1} /\ l.p \in Nat \ {0}
      /\ (l.cols = l.g \/ l.cols = l.g - 1) /\ (l.rows = l.p \/ l.rows = l.p - 1)
  BY GridSizes
<1>2. /\ q = <<q[1], q[2], q[3], q[4]>>
      /\ q[1] \in net.profiles /\ q[2] \in Starting(net.last[q[1]]) \cap net.guides
      /\ q[3] \in net.profiles /\ q[4] \in net.guides
      /\ net.last[q[2]] = net.last[q[3]] /\ net.first[q[3]] = net.last[q[4]]
  BY DEF Patches, IsLoop, IsChain
<1>3. PICK x \in Places(l) : x[2] < l.cols /\ q[1] = l.profile[x]
  BY <1>2, GridProfiles
<1>4. PICK i \in 0 .. l.p - 1, j \in 0 .. l.g - 1 : x = Place(l, s, i, j)
  BY WalkedTo
<1>5. /\ i \in Nat /\ j \in Nat /\ i \in 0 .. l.p /\ i + 1 \in 0 .. l.p /\ j \in 0 .. l.g
      /\ j + 1 \in 0 .. l.g
  BY <1>1
<1>6. j < l.cols
  BY <1>3, <1>4, <1>5, OneColumnOn
<1>7. q[1] = ProfileEdge(l, s, i, j)
  BY <1>3, <1>4 DEF ProfileEdge
<1>8. net.last[q[1]] = Crossing(l, s, i, j + 1)
  BY <1>5, <1>6, <1>7, ProfilesOfWalk
<1>9. Starting(Crossing(l, s, i, j + 1)) \cap net.guides =
              IF i < l.rows THEN {GuideEdge(l, s, i, j + 1)} ELSE {}
  BY <1>5, GuidesOfWalk
<1>10. i < l.rows /\ q[2] = GuideEdge(l, s, i, j + 1)
  BY <1>2, <1>8, <1>9
<1>11. net.last[q[2]] = Crossing(l, s, i + 1, j + 1)
  BY <1>5, <1>10, GuidesOfWalk
<1>12. net.profiles \subseteq net.edges /\ net.guides \subseteq net.edges
  BY DEF IsGrid
<1>13. q[3] = ProfileEdge(l, s, i + 1, j)
  <2>1. q[3] \in Ending(Crossing(l, s, i + 1, j + 1)) \cap net.profiles
    BY <1>2, <1>11, <1>12 DEF Ending
  <2>2. Ending(Crossing(l, s, i + 1, j + 1)) \cap net.profiles = {ProfileEdge(l, s, i + 1, j)}
    BY <1>5, <1>6, ProfilesOfWalk
  <2> QED
    BY <2>1, <2>2
<1>14. net.first[q[3]] = Crossing(l, s, i + 1, j)
  BY <1>5, <1>6, <1>13, ProfilesOfWalk
<1>15. q[4] = GuideEdge(l, s, i, j)
  <2>1. q[4] \in Ending(Crossing(l, s, i + 1, j)) \cap net.guides
    BY <1>2, <1>12, <1>14 DEF Ending
  <2>2. Ending(Crossing(l, s, i + 1, j)) \cap net.guides = {GuideEdge(l, s, i, j)}
    BY <1>5, <1>10, GuidesOfWalk
  <2> QED
    BY <2>1, <2>2
<1>16. q = CellAt(l, s, i, j)
  BY <1>2, <1>7, <1>10, <1>13, <1>15 DEF CellAt
<1>17. i \in 0 .. l.rows - 1 /\ j \in 0 .. l.cols - 1
  BY <1>1, <1>5, <1>6, <1>10
<1> QED
  BY <1>16, <1>17

\* No cell is cut twice.
LEMMA CellsApart ==
  ASSUME IsGrid(net), NEW l, l = net.layout, NEW s, IsStart(l, s),
         NEW i \in 0 .. l.rows - 1, NEW j \in 0 .. l.cols - 1,
         NEW a \in 0 .. l.rows - 1, NEW b \in 0 .. l.cols - 1,
         CellAt(l, s, i, j) = CellAt(l, s, a, b)
  PROVE  i = a /\ j = b
<1>1. /\ l.rows \in Nat \ {0} /\ l.cols \in Nat \ {0} /\ l.g \in Nat \ {0, 1} /\ l.p \in Nat \ {0}
      /\ (l.cols = l.g \/ l.cols = l.g - 1) /\ (l.rows = l.p \/ l.rows = l.p - 1)
  BY GridSizes
<1>2. /\ i \in 0 .. l.p - 1 /\ i \in 0 .. l.p /\ j \in 0 .. l.g - 1 /\ j < l.cols
      /\ a \in 0 .. l.p - 1 /\ a \in 0 .. l.p /\ b \in 0 .. l.g - 1 /\ b < l.cols
  BY <1>1
<1>3. ProfileEdge(l, s, i, j) = ProfileEdge(l, s, a, b)
  <2>1. CellAt(l, s, i, j)[1] = CellAt(l, s, a, b)[1]
    OBVIOUS
  <2> QED
    BY <2>1 DEF CellAt
<1>4. net.first[ProfileEdge(l, s, i, j)] = Crossing(l, s, i, j)
  BY <1>2, ProfilesOfWalk
<1>5. net.first[ProfileEdge(l, s, a, b)] = Crossing(l, s, a, b)
  BY <1>2, ProfilesOfWalk
<1> QED
  BY <1>2, <1>3, <1>4, <1>5, CrossingsApart

\* So the list holds every patch of the grid, each one once.
LEMMA AllPatchesAreCut ==
  ASSUME TypeOK, IsGrid(net), NEW l, l = net.layout, NEW s, IsStart(l, s),
         CellsUpTo(cells, l, s, l.rows, 0)
  PROVE  {cells[x] : x \in DOMAIN cells} = Patches /\ Len(cells) = Cardinality(Patches)
<1> DEFINE r == l.rows
           c == l.cols
           D == 1 .. r * c
<1>1. r \in Nat \ {0} /\ c \in Nat \ {0}
  BY GridSizes
<1>2. r * c \in Nat
  BY <1>1
<1>3. Len(cells) = r * c
  BY <1>1, <1>2 DEF CellsUpTo
<1>4. DOMAIN cells = D /\ cells = [x \in D |-> cells[x]]
  BY <1>3 DEF TypeOK
<1>5. \A a \in 0 .. r - 1, b \in 0 .. c - 1 : cells[a * c + b + 1] = CellAt(l, s, a, b)
  BY DEF CellsUpTo
<1>6. \A a \in 0 .. r - 1, b \in 0 .. c - 1 : a * c + b + 1 \in D
  <2> TAKE a \in 0 .. r - 1, b \in 0 .. c - 1
  <2>1. a * c \in Nat /\ a * c + b + 1 <= r * c
    BY <1>1, RowsBefore
  <2> DEFINE u == a * c
             w == r * c
  <2>2. u \in Nat /\ w \in Nat /\ u + b + 1 <= w /\ b \in Nat
    BY <1>1, <1>2, <2>1
  <2> HIDE DEF u, w
  <2>3. u + b + 1 \in 1 .. w
    BY <2>2
  <2> QED
    BY <2>3 DEF u, w
<1>7. ASSUME NEW x \in D
      PROVE  \E a \in 0 .. r - 1, b \in 0 .. c - 1 : x = a * c + b + 1
  <2>1. x \in 1 .. r * c
    OBVIOUS
  <2> HIDE DEF r, c
  <2> QED
    BY <1>1, <2>1, RowAndColumn
<1> HIDE DEF D
<1>8. \A x \in D : cells[x] \in Patches
  <2> TAKE x \in D
  <2>1. PICK a \in 0 .. r - 1, b \in 0 .. c - 1 : x = a * c + b + 1
    BY <1>7
  <2> QED
    BY <1>5, <2>1, CellsArePatches
<1>9. \A q \in Patches : \E x \in D : q = cells[x]
  <2> TAKE q \in Patches
  <2>1. PICK a \in 0 .. r - 1, b \in 0 .. c - 1 : q = CellAt(l, s, a, b)
    BY PatchesAreCells
  <2> QED
    BY <1>5, <1>6, <2>1
<1>10. \A x, y \in D : cells[x] = cells[y] => x = y
  <2> TAKE x, y \in D
  <2> HAVE cells[x] = cells[y]
  <2>1. PICK a \in 0 .. r - 1, b \in 0 .. c - 1 : x = a * c + b + 1
    BY <1>7
  <2>2. PICK i \in 0 .. r - 1, j \in 0 .. c - 1 : y = i * c + j + 1
    BY <1>7
  <2>3. CellAt(l, s, a, b) = CellAt(l, s, i, j)
    BY <1>5, <2>1, <2>2
  <2>4. a = i /\ b = j
    BY <2>3, CellsApart
  <2> QED
    BY <2>1, <2>2, <2>4
<1>11. cells \in Bijection(D, Patches)
  <2>1. cells \in [D -> Patches]
    BY <1>4, <1>8
  <2>2. cells \in Injection(D, Patches)
    BY <1>10, <2>1 DEF Injection, IsInjective
  <2>3. cells \in Surjection(D, Patches)
    BY <1>9, <2>1 DEF Surjection
  <2> QED
    BY <2>2, <2>3 DEF Bijection
<1>12. IsFiniteSet(D) /\ Cardinality(D) = r * c
  <2> DEFINE w == r * c
  <2>1. w \in Nat
    BY <1>2
  <2> HIDE DEF w
  <2>2. IsFiniteSet(1 .. w) /\ Cardinality(1 .. w) = w
    BY <2>1, FS_Interval
  <2> QED
    BY <2>2 DEF D, w
<1>13. Cardinality(D) = Cardinality(Patches)
  <2>1. ExistsBijection(D, Patches)
    BY <1>11, Zenon DEF ExistsBijection
  <2> QED
    BY <1>12, <2>1, FS_Bijection, Zenon
<1> QED
  BY <1>3, <1>4, <1>8, <1>9, <1>12, <1>13

\* The cells beside and above each other share an edge, and they are as many
\* as the grid has.
LEMMA GridOfCellsFits ==
  ASSUME IsGrid(net), NEW l, l = net.layout, NEW s, cellGrid = GridOfCells(l, s)
  PROVE  /\ NeighboursShareEdges
         /\ Len(cellGrid) = l.rows /\ \A i \in DOMAIN cellGrid : Len(cellGrid[i]) = l.cols
<1>1. l.rows \in Nat /\ l.cols \in Nat
  BY GridSizes
<1>2. /\ DOMAIN cellGrid = 1 .. l.rows
      /\ \A i \in 1 .. l.rows : DOMAIN cellGrid[i] = 1 .. l.cols
      /\ \A i \in 1 .. l.rows, j \in 1 .. l.cols : cellGrid[i][j] = CellAt(l, s, i - 1, j - 1)
  BY DEF GridOfCells
<1>3. Len(cellGrid) = l.rows /\ \A i \in DOMAIN cellGrid : Len(cellGrid[i]) = l.cols
  BY <1>1 DEF GridOfCells
<1>4. ASSUME NEW i \in 1 .. l.rows, NEW j \in 1 .. l.cols, j + 1 \in 1 .. l.cols
      PROVE  cellGrid[i][j][2] = cellGrid[i][j + 1][4]
  <2>1. cellGrid[i][j][2] = GuideEdge(l, s, i - 1, (j - 1) + 1)
    BY <1>2 DEF CellAt
  <2>2. cellGrid[i][j + 1][4] = GuideEdge(l, s, i - 1, (j + 1) - 1)
    BY <1>2, <1>4 DEF CellAt
  <2>3. (j - 1) + 1 = (j + 1) - 1
    BY <1>1
  <2> QED
    BY <2>1, <2>2, <2>3
<1>5. ASSUME NEW i \in 1 .. l.rows, NEW j \in 1 .. l.cols, i + 1 \in 1 .. l.rows
      PROVE  cellGrid[i][j][3] = cellGrid[i + 1][j][1]
  <2>1. cellGrid[i][j][3] = ProfileEdge(l, s, (i - 1) + 1, j - 1)
    BY <1>2 DEF CellAt
  <2>2. cellGrid[i + 1][j][1] = ProfileEdge(l, s, (i + 1) - 1, j - 1)
    BY <1>2, <1>5 DEF CellAt
  <2>3. (i - 1) + 1 = (i + 1) - 1
    BY <1>1
  <2> QED
    BY <2>1, <2>2, <2>3
<1> QED
  <2>1. ASSUME NEW i \in DOMAIN cellGrid, NEW j \in DOMAIN cellGrid[i]
        PROVE  /\ j + 1 \in DOMAIN cellGrid[i] => cellGrid[i][j][2] = cellGrid[i][j + 1][4]
               /\ i + 1 \in DOMAIN cellGrid => cellGrid[i][j][3] = cellGrid[i + 1][j][1]
    <3>1. i \in 1 .. l.rows /\ j \in 1 .. l.cols
      BY <1>2
    <3>2. j + 1 \in DOMAIN cellGrid[i] => j + 1 \in 1 .. l.cols
      BY <1>2, <3>1
    <3> QED
      BY <1>2, <1>4, <1>5, <3>1, <3>2
  <2> QED
    BY <1>3, <2>1 DEF NeighboursShareEdges

\* At the end nothing is left but a grid that is cut.
LEMMA GridInvIsEnough == TypeOK /\ GridInv => GridsAreCut
<1> SUFFICES ASSUME TypeOK, GridInv, Finished, IsGrid(net)
             PROVE  PatchesAreCut /\ NeighboursShareEdges /\ ArrayHasTheSizeOfTheGrid
  BY DEF GridsAreCut
<1>1. AllIsCut(net.layout)
  <2>1. ~ NotBegun
    BY DEF Finished, NotBegun
  <2>2. ASSUME NEW s, NEW i, NEW j
        PROVE  ~ Walks(net.layout, s, i, j)
    BY DEF Finished, Walks, AtFirst, AtSecond, AtThird, AtFourth
  <2>3. ~ Walking(net.layout)
    BY <2>2 DEF Walking
  <2> QED
    BY <2>1, <2>3 DEF GridInv
<1>2. PICK s \in Places(net.layout) :
        /\ IsStart(net.layout, s)
        /\ pc \in {"fill", "done"} /\ status = "OK"
        /\ CellsUpTo(cells, net.layout, s, net.layout.rows, 0)
        /\ pc = "done" => cellGrid = GridOfCells(net.layout, s)
  BY <1>1 DEF AllIsCut
<1>3. pc = "done" /\ cellGrid = GridOfCells(net.layout, s)
  BY <1>2 DEF Finished
<1>4. {cells[x] : x \in DOMAIN cells} = Patches /\ Len(cells) = Cardinality(Patches)
  BY <1>2, AllPatchesAreCut
<1> QED
  BY <1>2, <1>3, <1>4, GridOfCellsFits DEF PatchesAreCut, ArrayHasTheSizeOfTheGrid

\* Every grid, whatever its size and wherever the search starts on it, open or
\* closed in either direction, is cut into its patches, each one once, and
\* myCellGrid holds them as they lie.
THEOREM EveryGridIsCut == Spec => []GridsAreCut
<1>1. Init => GridInv
  BY InitGridInv
<1>2. ChainInv /\ GridInv /\ [Next]_vars => GridInv'
  BY NextGridInv
<1>3. ChainInv /\ GridInv => GridsAreCut
  BY GridInvIsEnough DEF ChainInv
<1> QED
  BY <1>1, <1>2, <1>3, ChainInvariant, PTL DEF Spec
=============================================================================
