----------------------------- MODULE CurveNetwork -----------------------------
(***************************************************************************)
(* InterpolateCurveNetwork and GordonSurfaceBuilder                        *)
(* (geometry/curve-networks): the surface through a network of profiles    *)
(* and guides.  The object keeps its own copies of the curves, sorts them  *)
(* with a CurveNetworkSorter, whose variables and actions these are, gives *)
(* them common parameters and builds three surfaces from them.  A failure  *)
(* throws out of the middle of this and leaves the curves as they are      *)
(* then; every getter performs again as long as no call has succeeded.     *)
(*                                                                         *)
(* A curve is known by its number among those the constructor was given,   *)
(* and of its shape only the crossings are kept, the parameters at which   *)
(* it meets the others.  They are relative to its range, which the code    *)
(* makes [0, 1]: 1 is One units of 0.00025.                                *)
(***************************************************************************)
EXTENDS CurveNetworkSorter, FiniteSetsExt

CONSTANTS One,        \* the parameter 1
          Networks,   \* the networks an object may be constructed with
          Leftovers   \* what the memory of a matrix may hold; of numbers, any

MaxFailures == 2      \* bound: calls a client makes in vain

SnapTol  == 4         \* 0.001
SpaceTol == 1         \* 3e-4, the tolerance of curveNetworkToSurface

\* The constructor throws unless there are two curves of both kinds.
ASSUME NetworkSizeAssumption ==
  /\ NProfiles \in Nat \ {0, 1} /\ NGuides \in Nat \ {0, 1}
  /\ One \in Nat /\ One > 2 * SnapTol

Param == 0 .. One

\* The crossings of two curves are numbered; each has a parameter on both.
AreCrossings(crossings) ==
  /\ DOMAIN crossings \subseteq Nat /\ IsFiniteSet(DOMAIN crossings)
  /\ \A x \in DOMAIN crossings : crossings[x] \in Int \X Int

CrossingsOK(m) ==
  /\ DOMAIN m = Profile
  /\ \A p \in Profile : /\ DOMAIN m[p] = Guide
                         /\ \A g \in Guide : AreCrossings(m[p][g])

ASSUME NetworksAssumption == \A w \in Networks : CrossingsOK(w.meets)

ASSUME LeftoversAssumption == Leftovers \subseteq Int

VARIABLES
  network,                     \* what the object was constructed with
  meets,                       \* meets[p][g]: the intersections of two curves as they are now
  phase,                       \* how far Perform is
  hasPerformed,                \* m_hasPerformed
  failures,                    \* how many calls of Perform have thrown
  profileAt, guideAt,          \* m_profiles, m_guides: the curve at each place
  parmsU, parmsV,              \* intersection_params_u, intersection_params_v
  newU, newV,                  \* newParametersProfiles, newParametersGuides
  done,                        \* how many curves have got the new parameters
  profEnds, guidEnds,          \* the first and the last parameter of each curve
  surfaces                     \* the members a finished Perform has set

object == <<network, hasPerformed, failures, surfaces>>
shapes == <<meets, profEnds, guidEnds>>
networkCurves == <<shapes, profileAt, guideAt>>
networkParms  == <<parmsU, parmsV, newU, newV>>
networkVars == <<object, networkCurves, networkParms, phase, done>>

(***************************************************************************)
(* reparametrizeBSpline: Perform begins with ranges that are [0, 1].       *)
(***************************************************************************)
UnitRange == <<0, One>>

InUnit(x, ends) == ((x - ends[1]) * One) \div (ends[2] - ends[1])

InUnitRange(p, g) ==
  [x \in DOMAIN meets[p][g] |->
     <<InUnit(meets[p][g][x][1], profEnds[p]), InUnit(meets[p][g][x][2], guidEnds[g])>>]

ReparametrizeToUnitRange ==
  /\ meets' = [p \in Profile |-> [g \in Guide |-> InUnitRange(p, g)]]
  /\ profEnds' = [p \in Profile |-> UnitRange] /\ guidEnds' = [g \in Guide |-> UnitRange]

(***************************************************************************)
(* ComputeIntersections: what each cell of the two matrices may hold.  A   *)
(* pair of curves that meets twice is meant to be one on the seam of       *)
(* closed curves; in the other cases nothing is written to the cell, which *)
(* holds what the memory of the matrix held.                               *)
(***************************************************************************)
Cell(i, j) == InUnitRange(profileAt[i], guideAt[j])

ProfilesClosed == network.profClosed[profileAt[0]]
GuidesClosed   == network.guidClosed[guideAt[0]]

Crossings(i, j) == Cardinality(DOMAIN Cell(i, j))

Twice(i, j) == Crossings(i, j) = 2

IsUnsetU(i, j) ==
  /\ Twice(i, j) /\ ~ GuidesClosed
  /\ ProfilesClosed => j \notin {0, NGuides - 1}
IsUnsetV(i, j) ==
  /\ Twice(i, j) /\ ~ ProfilesClosed
  /\ GuidesClosed => i \notin {0, NProfiles - 1}

UnsetU == {c \in Profile \X Guide : IsUnsetU(c[1], c[2])}
UnsetV == {c \in Profile \X Guide : IsUnsetV(c[1], c[2])}

First(i, j, which) == Cell(i, j)[Min(DOMAIN Cell(i, j))][which]
Second(i, j, which) == Cell(i, j)[Max(DOMAIN Cell(i, j))][which]

\* The cell for two intersections; left is what was in the memory of the
\* unset ones.
CellU(i, j, left) ==
  CASE IsUnsetU(i, j) -> left[<<i, j>>]
    [] ~ Twice(i, j) \/ GuidesClosed -> First(i, j, 1)
    [] OTHER -> IF (j = 0) = (First(i, j, 1) < Second(i, j, 1))
                  THEN First(i, j, 1) ELSE Second(i, j, 1)

CellV(i, j, left) ==
  CASE IsUnsetV(i, j) -> left[<<i, j>>]
    [] ~ Twice(i, j) -> First(i, j, 2)
    [] Twice(i, j) /\ GuidesClosed /\ i \in {0, NProfiles - 1} ->
         IF (i = 0) = (First(i, j, 2) < Second(i, j, 2))
           THEN First(i, j, 2) ELSE Second(i, j, 2)
    [] OTHER -> First(i, j, 2)

\* Every pair of curves has to meet, and at most twice.
CanIntersect == \A i \in Profile, j \in Guide : Crossings(i, j) \in {1, 2}

(***************************************************************************)
(* The object.                                                             *)
(***************************************************************************)
NoMatrix  == [i \in Profile |-> [j \in Guide |-> 0]]
NoSurface == [built |-> FALSE]

\* The curves and matrices a sorter is given.
SorterInput(u, v) ==
  [profParms |-> u, guidParms |-> v,
   profRange |-> [i \in Profile |-> UnitRange],
   guidRange |-> [j \in Guide |-> UnitRange]]

NetworkInit ==
  /\ network \in Networks
  /\ meets = network.meets
  /\ profEnds = [p \in Profile |-> UnitRange] /\ guidEnds = [g \in Guide |-> UnitRange]
  /\ phase = "idle" /\ hasPerformed = FALSE /\ failures = 0
  /\ profileAt = [i \in Profile |-> i] /\ guideAt = [j \in Guide |-> j]
  /\ parmsU = NoMatrix /\ parmsV = NoMatrix
  /\ newU = [j \in Guide |-> 0] /\ newV = [i \in Profile |-> 0]
  /\ done = 0 /\ surfaces = NoSurface
  /\ input = SorterInput(NoMatrix, NoMatrix) /\ pc = "start"
  /\ profiles = [i \in Profile |-> i] /\ guides = [j \in Guide |-> j]
  /\ profMinus = [i \in Profile |-> 0] /\ guidMinus = [j \in Guide |-> 0]
  /\ profReversed = {} /\ guidReversed = {}
  /\ profParms = NoMatrix /\ guidParms = NoMatrix
  /\ n = 0 /\ k = 0

Throw ==
  /\ phase' = "idle" /\ failures' = failures + 1
  /\ UNCHANGED <<network, hasPerformed, surfaces>>

\* The next part of Perform follows; nothing of the object but the curves
\* has changed.
Continue(next) ==
  /\ phase' = next
  /\ UNCHANGED object

\* Surface, SurfaceProfiles and the other getters after a success.
GetResult ==
  /\ phase = "idle" /\ hasPerformed
  /\ UNCHANGED <<networkVars, vars>>

GiveUp ==
  /\ phase = "idle" /\ ~ hasPerformed /\ failures = MaxFailures
  /\ UNCHANGED <<networkVars, vars>>

\* SortCurves makes a CurveNetworkSorter of the curves and the matrices.
NewSorter(u, v) ==
  /\ input' = SorterInput(u, v)
  /\ pc' = "start"
  /\ profiles' = [i \in Profile |-> i] /\ guides' = [j \in Guide |-> j]
  /\ profMinus' = [i \in Profile |-> 0] /\ guidMinus' = [j \in Guide |-> 0]
  /\ profReversed' = {} /\ guidReversed' = {}
  /\ profParms' = u /\ guidParms' = v
  /\ n' = 0 /\ k' = 0

Intersect ==
  /\ phase = "idle" /\ ~ hasPerformed /\ failures < MaxFailures
  /\ CanIntersect
  /\ \E leftU \in [UnsetU -> Leftovers], leftV \in [UnsetV -> Leftovers] :
       NewSorter([i \in Profile |-> [j \in Guide |-> CellU(i, j, leftU)]],
                 [i \in Profile |-> [j \in Guide |-> CellV(i, j, leftV)]])
  /\ ReparametrizeToUnitRange
  /\ Continue("sort")
  /\ UNCHANGED <<profileAt, guideAt, networkParms, done>>

DoNotIntersect ==
  /\ phase = "idle" /\ ~ hasPerformed /\ failures < MaxFailures
  /\ ~ CanIntersect
  /\ ReparametrizeToUnitRange
  /\ Throw
  /\ UNCHANGED <<profileAt, guideAt, networkParms, done, vars>>

(***************************************************************************)
(* SortCurves: the steps of the sorter.  It reverses the curves themselves *)
(* and hands back the order.                                               *)
(***************************************************************************)
Sort ==
  /\ phase = "sort"
  /\ pc \notin {"performed", "thrown"}
  /\ Next
  /\ UNCHANGED <<object, networkCurves, networkParms, phase, done>>

NoStartCorner ==
  /\ phase = "sort" /\ pc = "thrown"
  /\ Throw
  /\ UNCHANGED <<networkCurves, networkParms, done, vars>>

Turned(x, reversed) == IF reversed THEN One - x ELSE x

\* EliminateInaccuraciesNetworkIntersections on the two ends of a row or column.
Snap(x, end) == IF x - end < SnapTol /\ end - x < SnapTol THEN end ELSE x

\* Slip: only the ends of the rows and columns are looked at.
EliminatedLast(m, x, y, firsts, lasts) ==
  IF <<x, y>> \in lasts THEN Snap(m[x][y], One) ELSE m[x][y]

Eliminated(m, x, y, firsts, lasts) ==
  LET toStart == IF <<x, y>> \in firsts THEN Snap(m[x][y], 0) ELSE m[x][y]
  IN  IF <<x, y>> \in lasts THEN Snap(toStart, One) ELSE toStart

\* The curves the sorter has reversed.  Slip: their numbers taken for places.
ProfilesAtReversed == {profileAt[profiles[i]] : i \in profReversed}

TurnedProfiles == {profileAt[i] : i \in profReversed}
TurnedGuides   == {guideAt[j] : j \in guidReversed}

TakeSorted ==
  /\ phase = "sort" /\ pc = "performed"
  /\ profileAt' = [i \in Profile |-> profileAt[profiles[i]]]
  /\ guideAt' = [j \in Guide |-> guideAt[guides[j]]]
  /\ meets' = [p \in Profile |-> [g \in Guide |->
                  [x \in DOMAIN meets[p][g] |->
                     <<Turned(meets[p][g][x][1], p \in TurnedProfiles),
                       Turned(meets[p][g][x][2], g \in TurnedGuides)>>]]]
  /\ parmsU' = [i \in Profile |-> [j \in Guide |->
                  Eliminated(profParms, i, j, Profile \X {0}, Profile \X {NGuides - 1})]]
  /\ parmsV' = [i \in Profile |-> [j \in Guide |->
                  Eliminated(guidParms, i, j, {0} \X Guide, {NProfiles - 1} \X Guide)]]
  /\ Continue("average")
  /\ UNCHANGED <<profEnds, guidEnds, newU, newV, done, vars>>

(***************************************************************************)
(* MakeCurvesCompatible: the averages become the parameters of all curves. *)
(***************************************************************************)
Total(f, size) ==
  LET total[m \in 0 .. size] == IF m = 0 THEN 0 ELSE total[m - 1] + f[m - 1]
  IN  total[size]

SumU(j) == Total(Col(parmsU, j), NProfiles)
SumV(i) == Total(Row(parmsV, i), NGuides)

\* 1e-5 is less than a unit.  A negative average, of cells that were not set,
\* is no reason to throw.
HasBeginning == SumU(0) <= 0 /\ SumV(0) <= 0

Average ==
  /\ phase = "average"
  /\ HasBeginning
  /\ newU' = [j \in Guide |-> SumU(j) \div NProfiles]
  /\ newV' = [i \in Profile |-> SumV(i) \div NGuides]
  /\ done' = 0
  /\ Continue("reparametrize")
  /\ UNCHANGED <<networkCurves, parmsU, parmsV, vars>>

NoIntersectionAtBeginning ==
  /\ phase = "average"
  /\ ~ HasBeginning
  /\ Throw
  /\ UNCHANGED <<networkCurves, networkParms, done, vars>>

(***************************************************************************)
(* reparametrizeBSplineContinuouslyApprox (BSplineAlgorithms.cpp): the new *)
(* curve is at new[x] where the old one was at old[x], and it begins and   *)
(* ends with these; what lies between is taken to follow in proportion.  The *)
(* interpolation of the one by the other needs new parameters that ascend  *)
(* and old ones that do not repeat.                                        *)
(***************************************************************************)
CanReparametrize(old, new) ==
  \A x \in DOMAIN old : x + 1 \in DOMAIN old => new[x] < new[x + 1] /\ old[x] # old[x + 1]

Spans(x, old) ==
  {i \in DOMAIN old : /\ i + 1 \in DOMAIN old
                      /\ \/ old[i] <= x /\ x <= old[i + 1]
                         \/ old[i + 1] <= x /\ x <= old[i]}

\* Where x is, rounded; what lies before the first or after the last is cut off.
Reparametrized(x, old, new) ==
  LET i == Min(Spans(x, old))
      low == IF old[i] < old[i + 1] THEN i ELSE i + 1
      high == IF low = i THEN i + 1 ELSE i
      span == old[high] - old[low]
  IN  new[low] + (2 * (x - old[low]) * (new[high] - new[low]) + span) \div (2 * span)

OnNewCurve(crossings, which, old, new) ==
  [x \in {y \in DOMAIN crossings : Spans(crossings[y][which], old) # {}} |->
     [crossings[x] EXCEPT ![which] = Reparametrized(@, old, new)]]

NextCurve ==
  /\ done' = done + 1
  /\ Continue(IF done' = NProfiles + NGuides THEN "build" ELSE "reparametrize")
  /\ UNCHANGED <<profileAt, guideAt, networkParms, vars>>

ReparametrizeProfile ==
  LET p == profileAt[done]
  IN  /\ phase = "reparametrize" /\ done < NProfiles
      /\ CanReparametrize(parmsU[done], newU)
      /\ meets' = [meets EXCEPT ![p] = [g \in Guide |->
                     OnNewCurve(@[g], 1, parmsU[done], newU)]]
      /\ profEnds' = [profEnds EXCEPT ![p] = <<newU[0], newU[NGuides - 1]>>]
      /\ UNCHANGED guidEnds
      /\ NextCurve

GuideColumn == [i \in Profile |-> parmsV[i][done - NProfiles]]

ReparametrizeGuide ==
  LET g == guideAt[done - NProfiles]
  IN  /\ phase = "reparametrize" /\ done >= NProfiles
      /\ CanReparametrize(GuideColumn, newV)
      /\ meets' = [p \in Profile |-> [meets[p] EXCEPT ![g] =
                     OnNewCurve(@, 2, GuideColumn, newV)]]
      /\ guidEnds' = [guidEnds EXCEPT ![g] = <<newV[0], newV[NProfiles - 1]>>]
      /\ UNCHANGED profEnds
      /\ NextCurve

CannotReparametrize ==
  /\ phase = "reparametrize"
  /\ IF done < NProfiles THEN ~ CanReparametrize(parmsU[done], newU)
                         ELSE ~ CanReparametrize(GuideColumn, newV)
  /\ Throw
  /\ UNCHANGED <<networkCurves, networkParms, done, vars>>

(***************************************************************************)
(* GordonSurfaceBuilder: the checks of CheckCurveNetworkCompatibility, and *)
(* the three surfaces.  The tolerance is one of space; that for the ends   *)
(* of the parameters is scaled with the curves all the same.               *)
(***************************************************************************)
EndTol == SpaceTol * network.scale

IsWithin(x, y, tol) == x - y <= tol /\ y - x <= tol

\* Slip: the other end is forgotten.
SticksOutAtBeginning(new, last) == ~ IsWithin(new[0], 0, EndTol)

SticksOut(new, last) == ~ IsWithin(new[0], 0, EndTol) \/ ~ IsWithin(new[last], One, EndTol)

\* The curves at places i and j pass within the tolerance at the new parameters.
Close(i, j) ==
  \E x \in DOMAIN meets[profileAt[i]][guideAt[j]] :
    LET du == meets[profileAt[i]][guideAt[j]][x][1] - newU[j]
        dv == meets[profileAt[i]][guideAt[j]][x][2] - newV[i]
    IN  du * du + dv * dv <= SpaceTol * SpaceTol

IsCompatible ==
  /\ ~ SticksOut(newU, NGuides - 1) /\ ~ SticksOut(newV, NProfiles - 1)
  /\ \A i \in Profile, j \in Guide : Close(i, j)

\* The surface is closed where the first and the last curve are the same and
\* the other curves begin and end there.
MakeUClosed ==
  /\ network.sameGuides = {guideAt[0], guideAt[NGuides - 1]}
  /\ \A i \in Profile : network.profClosed[profileAt[i]]
MakeVClosed ==
  /\ network.sameProfiles = {profileAt[0], profileAt[NProfiles - 1]}
  /\ \A j \in Guide : network.guidClosed[guideAt[j]]

\* PointsToBSplineInterpolation::Degree, for at most three; the curves along
\* a surface are cubic.
SkinDegree(nCurves, closed) == Min({3, IF closed THEN nCurves - 2 ELSE nCurves - 1})

Tensor == [uDegree |-> SkinDegree(NGuides, MakeUClosed),
           vDegree |-> SkinDegree(NProfiles, MakeVClosed)]
ProfileSkin == [uDegree |-> 3, vDegree |-> SkinDegree(NProfiles, MakeVClosed)]
GuideSkin   == [uDegree |-> SkinDegree(NGuides, MakeUClosed), vDegree |-> 3]

\* Two equal curves alone would make a closed surface of degree 0.
CanBuild == IsCompatible /\ Tensor.uDegree > 0 /\ Tensor.vDegree > 0

\* IncreaseDegree and createCommonKnotsVectorSurface make them alike.
BuildSurfaces ==
  /\ phase = "build"
  /\ CanBuild
  /\ LET all == {Tensor, ProfileSkin, GuideSkin}
     IN  surfaces' = [built |-> TRUE,
                      uDegree |-> Max({s.uDegree : s \in all}),
                      vDegree |-> Max({s.vDegree : s \in all}),
                      uClosed |-> MakeUClosed, vClosed |-> MakeVClosed,
                      parametersGuides |-> newU, parametersProfiles |-> newV]
  /\ hasPerformed' = TRUE
  /\ phase' = "idle"
  /\ UNCHANGED <<network, failures, networkCurves, networkParms, done, vars>>

CannotBuild ==
  /\ phase = "build"
  /\ ~ CanBuild
  /\ Throw
  /\ UNCHANGED <<networkCurves, networkParms, done, vars>>

NetworkNext ==
  \/ GetResult \/ GiveUp \/ Intersect \/ DoNotIntersect
  \/ Sort \/ NoStartCorner \/ TakeSorted
  \/ Average \/ NoIntersectionAtBeginning
  \/ ReparametrizeProfile \/ ReparametrizeGuide \/ CannotReparametrize
  \/ BuildSurfaces \/ CannotBuild

NetworkSpec == NetworkInit /\ [][NetworkNext]_<<networkVars, vars>>

-----------------------------------------------------------------------------
(***************************************************************************)
(* Properties.                                                             *)
(***************************************************************************)
\* What the sorter hands back, its order, its matrices and the curves it has
\* reversed under the object's hands, is of one piece: of two curves that meet
\* once, the matrices hold where they meet, as they are placed and turned now, but
\* for what is snapped to an end.  Also in a call that follows on others which
\* threw with the curves moved, turned and in part reparametrized.
ParametersMeetTheCurves ==
  phase \in {"average", "reparametrize"} =>
    \A i \in Profile, j \in Guide :
      LET p == profileAt[i]
          g == guideAt[j]
      IN  Cardinality(DOMAIN network.meets[p][g]) = 1 =>
            \A x \in DOMAIN meets[p][g] :
              /\ phase = "average" \/ done <= i =>
                   IsWithin(parmsU[i][j], meets[p][g][x][1], SnapTol)
              /\ phase = "average" \/ done <= NProfiles + j =>
                   IsWithin(parmsV[i][j], meets[p][g][x][2], SnapTol)

\* A network that is a grid, in whatever order and direction its curves come,
\* gets its surface in the first call: none of the five ways to fail is taken.
GridsGetASurface == network.isGrid => failures = 0

\* "spline network must be 'closed'": every curve given begins and ends at
\* one it meets.
NetworkIsClosed ==
  /\ \A p \in Profile : \A end \in {0, One} : \E g \in Guide :
       \E x \in DOMAIN network.meets[p][g] :
         Snap(network.meets[p][g][x][1], end) = end
  /\ \A g \in Guide : \A end \in {0, One} : \E p \in Profile :
       \E x \in DOMAIN network.meets[p][g] :
         Snap(network.meets[p][g][x][2], end) = end

\* The first call builds nothing from a network whose curves stick out, as
\* long as the tolerance for the ends of the parameters is one.
FirstSurfaceIsOfAClosedNetwork ==
  hasPerformed /\ failures = 0 /\ EndTol = SpaceTol => NetworkIsClosed

=============================================================================
