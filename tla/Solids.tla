-------------------------------- MODULE Solids --------------------------------
(***************************************************************************)
(* What boolean_operations needs of geometry, on a board of square cells:  *)
(* a solid is a set of cells, a face a straight run of walls between cells *)
(* and a shape a sequence of faces, in the order TopExp::MapShapes meets   *)
(* them.  A wall, like a cell and a corner, is given by its middle: cells  *)
(* have two odd coordinates, corners two even ones, walls one of each.     *)
(*                                                                         *)
(* of is the identity of a face (its TShape); two pieces of one face with  *)
(* the same walls count as one.                                            *)
(***************************************************************************)
EXTENDS Integers, FiniteSets, Sequences, SequencesExt

CONSTANTS Width, Height

ASSUME BoardAssumption == Width \in Nat /\ Height \in Nat

Coordinate == {<<x, y>> : x \in 0 .. 2 * Width, y \in 0 .. 2 * Height}
Cell       == {c \in Coordinate : c[1] % 2 = 1 /\ c[2] % 2 = 1}
Wall       == {w \in Coordinate : (w[1] + w[2]) % 2 = 1}

Beside(w) == IF w[1] % 2 = 0 THEN {<<w[1] - 1, w[2]>>, <<w[1] + 1, w[2]>>}
                             ELSE {<<w[1], w[2] - 1>>, <<w[1], w[2] + 1>>}

Boundary(S) == {w \in Wall : Cardinality(Beside(w) \cap S) = 1}

\* The cells a surface encloses: on the way to them from the left it is
\* crossed an odd number of times.
Enclosed(W) ==
  {c \in Cell : Cardinality({w \in W : w[2] = c[2] /\ w[1] < c[1]}) % 2 = 1}

\* Box(l, r, b, t): the cells of a rectangle, and its four sides.
Box(l, r, b, t) == {c \in Cell : l < c[1] /\ c[1] < r /\ b < c[2] /\ c[2] < t}

Sides(name, S) ==
  LET left(w)  == w[1] % 2 = 0 /\ <<w[1] + 1, w[2]>> \in S
      right(w) == w[1] % 2 = 0 /\ <<w[1] - 1, w[2]>> \in S
      below(w) == w[2] % 2 = 0 /\ <<w[1], w[2] + 1>> \in S
      side(k, Is(_)) == [of |-> Append(name, k), walls |-> {w \in Boundary(S) : Is(w)}]
  IN  <<side(1, left), side(2, right), side(3, below),
        [of |-> Append(name, 4),
         walls |-> {w \in Boundary(S) : ~ left(w) /\ ~ right(w) /\ ~ below(w)}]>>

Surface(fs)  == UNION {f.walls : f \in ToSet(fs)}
IsSolid(fs)  == Surface(fs) = Boundary(Enclosed(Surface(fs)))

(***************************************************************************)
(* Splitting a face along a surface.                                       *)
(***************************************************************************)
Around(v) == {<<v[1] - 1, v[2]>>, <<v[1] + 1, v[2]>>, <<v[1], v[2] - 1>>, <<v[1], v[2] + 1>>}

\* The surface W comes between the neighbours u and w of a run: it crosses
\* the run at the corner where they meet, or holds one of them only.
Separates(W, u, w) ==
  LET v == <<(u[1] + w[1]) \div 2, (u[2] + w[2]) \div 2>>
  IN  (Around(v) \ {u, w}) \cap W # {} \/ (u \in W) # (w \in W)

Distance(u, w) == (u[1] - w[1]) + (u[2] - w[2])

Pieces(walls, W) ==
  LET cuts == {u \in walls : \E w \in walls : Distance(w, u) = 2 /\ Separates(W, u, w)}
      together(u, w) == \A c \in cuts : Distance(u, c) > 0 <=> Distance(w, c) > 0
  IN  {{u \in walls : together(u, w)} : w \in walls}

\* The image of a face: the pieces it is split into, or the face itself.
Images(f, W) == {[of |-> f.of, walls |-> p] : p \in Pieces(f.walls, W)}

\* GetCentralFacePoint: the middle of a run, a wall or a corner.
Middle(walls) ==
  LET least == CHOOSE u \in walls : \A w \in walls : Distance(w, u) >= 0
      most  == CHOOSE u \in walls : \A w \in walls : Distance(u, w) >= 0
  IN  <<(least[1] + most[1]) \div 2, (least[2] + most[2]) \div 2>>

\* BRepClass3d_SolidClassifier: where a point lies in the solid in W.
Place(W, p) ==
  IF (Around(p) \cup {p}) \cap W # {} THEN "ON"
  ELSE IF \E c \in Enclosed(W) : c[1] - p[1] \in -1 .. 1 /\ c[2] - p[2] \in -1 .. 1
       THEN "IN" ELSE "OUT"

\* Corners a face ends at, and whether two faces meet in one.
Ends(walls)    == {v \in Coordinate : v[1] % 2 = 0 /\ v[2] % 2 = 0
                                        /\ Cardinality(Around(v) \cap walls) = 1}
Touching(f, g) == f # g /\ Ends(f.walls) \cap Ends(g.walls) # {}

(***************************************************************************)
(* Sewing: BRepBuilderAPI_Sewing makes a face that meets another one anew, *)
(* and nothing is known of the order of the faces in the result.           *)
(***************************************************************************)
SewnFace(fs, f) ==
  IF \E g \in ToSet(fs) : Touching(f, g) THEN [f EXCEPT !.of = <<"sewn", @>>] ELSE f

Sewn(fs) == Reverse([i \in DOMAIN fs |-> SewnFace(fs, fs[i])])
=============================================================================
