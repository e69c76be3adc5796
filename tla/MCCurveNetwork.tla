---------------------------- MODULE MCCurveNetwork ----------------------------
(***************************************************************************)
(* Networks of three profiles and three guides: for an object that makes   *)
(* the surface through a network (CurveNetwork), and for a                 *)
(* CurveNetworkSorter alone, which takes others than that object gives it. *)
(***************************************************************************)
EXTENDS CurveNetwork, Functions

Half == One \div 2

\* Where on the profile at place i and on the guide at place j of the grid
\* the two meet.
PlainU(i, j) == << <<0, Half, One>>, <<0, Half + 300, One>>, <<0, Half + 600, One>> >>[i + 1][j + 1]
PlainV(i, j) == << <<0, Half, One>>, <<0, Half, One>>, <<0, Half + 600, One>> >>[j + 1][i + 1]

Plain == [i \in Profile |-> [j \in Guide |-> << <<PlainU(i, j), PlainV(i, j)>> >>]]

SetU(m, j, us) == [i \in Profile |-> [m[i] EXCEPT ![j] = << <<us[i + 1], PlainV(i, j)>> >>]]
SetV(m, i, v)  == [m EXCEPT ![i] = [j \in Guide |-> << <<PlainU(i, j), v>> >>]]

\* Closed curves: the first and the last of the others lie on their seam.
OnSeamU(i) == << <<One, PlainV(i, 0)>>, <<0, PlainV(i, 0)>> >>
OnSeamV(j) == << <<PlainU(0, j), One>>, <<PlainU(0, j), 0>> >>
ClosedProfiles == [i \in Profile |-> [Plain[i] EXCEPT ![0] = OnSeamU(i), ![2] = OnSeamU(i)]]
ClosedGuides == [i \in Profile |-> IF i = 1 THEN Plain[1] ELSE [j \in Guide |-> OnSeamV(j)]]

\* Every profile begins at a guide in the middle of which it crosses it.
Cyclic == [i \in Profile |-> [j \in Guide |->
             << <<((3 + j - i) % 3) * Half, ((4 + j - i) % 3) * Half>> >>]]

\* The curves of a network of the given shape in the order p, g, those in pr
\* and gr turned round; which of them are closed.
Network(shape, p, g, pr, gr, isGrid, scale, profClosed, guidClosed) ==
  [meets |-> [x \in Profile |-> [y \in Guide |->
                [z \in DOMAIN shape[p[x]][g[y]] |->
                   <<Turned(shape[p[x]][g[y]][z][1], x \in pr),
                     Turned(shape[p[x]][g[y]][z][2], y \in gr)>>]]],
   isGrid |-> isGrid, scale |-> scale,
   profClosed |-> [x \in Profile |-> profClosed],
   guidClosed |-> [y \in Guide |-> guidClosed],
   sameProfiles |-> IF guidClosed THEN {x \in Profile : p[x] # 1} ELSE {},
   sameGuides |-> IF profClosed THEN {y \in Guide : g[y] # 1} ELSE {}]

Same(S)    == [x \in S |-> x]
Rotated(S) == [x \in S |-> (x + 1) % Cardinality(S)]
Orders(S)  == {f \in [S -> S] : IsInjective(f)}

Grids ==
  {Network(Plain, p, g, pr, gr, TRUE, 1, FALSE, FALSE) :
     p \in Orders(Profile), g \in {Same(Guide), Rotated(Guide)},
     pr \in {{}, {0}, {1, 2}}, gr \in {{}, {2}, {0, 1, 2}}}

\* Grids whose ends are off by no more than is snapped and allowed.
NearGrids ==
  {Network(shape, p, Rotated(Guide), pr, {1}, TRUE, 1, FALSE, FALSE) :
     shape \in {SetU(Plain, 0, <<1, 0, 1>>), SetV(Plain, 2, One - 1)},
     p \in Orders(Profile), pr \in {{}, {1}}}

Irregular ==
  {SetU(Plain, 0, <<3, 0, 0>>),          \* snapped, but too far off
   SetU(Plain, 0, <<300, 300, 300>>),    \* sticks out at the beginning
   SetU(Plain, 2, <<3000, 3600, 3600>>), \* at the end
   SetV(Plain, 2, 3000),
   SetU(Plain, 2, <<One, 3400, One>>),   \* one of three
   SetU(Plain, 2, <<Half, One, One>>),   \* a profile meets two guides at a point
   [Plain EXCEPT ![0][1] = <<>>],        \* no intersection
   [Plain EXCEPT ![1][1] = << <<0, 0>>, <<1, 1>>, <<2, 2>> >>],
   [Plain EXCEPT ![1][1] = << <<Half, One>>, <<Half + 600, One>> >>],
   Cyclic}

IrregularNetworks ==
  {Network(shape, Same(Profile), g, {}, {}, FALSE, scale, FALSE, FALSE) :
     shape \in Irregular, g \in {Same(Guide), Rotated(Guide)}, scale \in {1, One}}

\* The curves on the seam in the first and last place, and elsewhere.
ClosedNetworks ==
  {Network(ClosedProfiles, p, g, {}, gr, g[1] = 1, 1, TRUE, FALSE) :
     p \in {Same(Profile), Rotated(Profile)}, g \in Orders(Guide), gr \in {{}, Guide}}
  \cup {Network(ClosedGuides, p, g, {}, {}, p[1] = 1, 1, FALSE, TRUE) :
          p \in Orders(Profile), g \in {Same(Guide), Rotated(Guide)}}

\* Of what an unset cell may hold: numbers before, on and after the curve.
SomeLeftovers == {-Half, 0, One, 2 * One}

AllNetworks == Grids \cup NearGrids \cup IrregularNetworks \cup ClosedNetworks

-----------------------------------------------------------------------------
(***************************************************************************)
(* The sorter alone: grids whose curves are given in any order and any     *)
(* direction, and matrices of any parameters.                              *)
(***************************************************************************)
\* The profile at place i is the p[i]-th of the grid and turned round if i is
\* in pr; likewise for the guides.  Every curve has the range 0 .. last.
GridInput(p, g, pr, gr, first, withCurves) ==
  LET last == 2 + NProfiles + NGuides
      Place(turned, x) == IF turned THEN last - first - x ELSE first + x
  IN  [profParms |-> [i \in Profile |-> [j \in Guide |-> Place(i \in pr, g[j])]],
       guidParms |-> [i \in Profile |-> [j \in Guide |-> Place(j \in gr, p[i])]],
       profRange |-> [i \in Profile |-> IF withCurves THEN <<0, last>> ELSE NullCurve],
       guidRange |-> [j \in Guide |-> IF withCurves THEN <<0, last>> ELSE NullCurve]]

GridInputs ==
  {GridInput(p, g, pr, gr, 0, TRUE) :
     p \in Orders(Profile), g \in Orders(Guide),
     pr \in SUBSET Profile, gr \in SUBSET Guide}

\* The same without curves, as the unit tests call it.
BareGridInputs ==
  {GridInput(p, g, pr, gr, 1, FALSE) :
     p \in {[i \in Profile |-> i], [i \in Profile |-> NProfiles - 1 - i]},
     g \in {[j \in Guide |-> j], [j \in Guide |-> (j + 1) % NGuides]},
     pr \in SUBSET Profile, gr \in SUBSET Guide}

AllGridInputs == GridInputs \cup BareGridInputs

\* Networks that are no grids: rows and columns that descend, have their
\* greatest parameter in the middle or repeat one, in any combination, in
\* ranges that do not end at them; one of the guides is a null handle.
Sequences(f) == {[x \in DOMAIN f |-> 2 - f[x]],
                 [x \in DOMAIN f |-> (f[x] + 1) % 3], [x \in DOMAIN f |-> f[x] \div 2]}

AnyInputs ==
  {[profParms |-> p,
    guidParms |-> [i \in Profile |-> [j \in Guide |-> g[j][i]]],
    profRange |-> [i \in Profile |-> <<-1, 3>>],
    guidRange |-> [j \in Guide |-> IF j = 0 THEN NullCurve ELSE <<0, 2>>]] :
     p \in [Profile -> Sequences([j \in Guide |-> j])],
     g \in [Guide -> Sequences([i \in Profile |-> i])]}

\* Every profile begins at a guide in the middle of which it crosses it: there
\* is no start.
CyclicInput ==
  [profParms |-> [i \in Profile |-> [j \in Guide |-> (3 + j - i) % 3]],
   guidParms |-> [i \in Profile |-> [j \in Guide |-> (4 + j - i) % 3]],
   profRange |-> [i \in Profile |-> <<0, 2>>], guidRange |-> [j \in Guide |-> <<0, 2>>]]

AllInputs == AllGridInputs \cup AnyInputs \cup {CyclicInput}

-----------------------------------------------------------------------------
AloneInit ==
  /\ Init
  /\ network = [isGrid |-> FALSE] /\ meets = <<>> /\ phase = "none"
  /\ hasPerformed = FALSE /\ failures = 0
  /\ profileAt = <<>> /\ guideAt = <<>> /\ parmsU = <<>> /\ parmsV = <<>>
  /\ newU = <<>> /\ newV = <<>> /\ done = 0
  /\ profEnds = <<>> /\ guidEnds = <<>> /\ surfaces = NoSurface

AllInit == NetworkInit \/ AloneInit

AllNext ==
  \/ NetworkNext
  \/ phase = "none" /\ Next /\ UNCHANGED networkVars

AllSpec == AllInit /\ [][AllNext]_<<networkVars, vars>>
=============================================================================
