---------------------------- MODULE MCShapeHistory ----------------------------
(***************************************************************************)
(* A face of two edges that share a vertex, cut twice by the same tool.    *)
(* The first cut moves the shared vertex; the second keeps it.  The result *)
(* of the first cut is joined with the face it was cut from, so that the   *)
(* face comes into the union on two ways of different length; and an edge  *)
(* of the result is cut by itself.                                         *)
(***************************************************************************)
EXTENDS ShapeHistory

MCPart ==
  [face  |-> <<"a", "d">>,   a  |-> <<"v">>,  d  |-> <<"v">>,  v |-> <<>>,
   face1 |-> <<"a1", "d1">>, a1 |-> <<"v1">>, d1 |-> <<"v1">>, v1 |-> <<>>,
   face2 |-> <<"a2", "d1">>, a2 |-> <<"v1">>,
   both  |-> <<"a1", "a">>, edge |-> <<"v1">>, tool |-> <<>>]

MCHeight ==
  [t \in DOMAIN MCPart |->
     IF t \in {"v", "v1", "tool"} THEN 0
     ELSE IF t \in {"a", "d", "a1", "d1", "a2", "edge"} THEN 1 ELSE 2]

MCSources == {"face", "tool"}

Modifies(f) == [t \in DOMAIN MCPart |-> IF t \in DOMAIN f THEN {f[t]} ELSE {}]

MCAlgorithms ==
  {[inputs |-> <<"face", "tool">>, result |-> "face1",
    modified |-> Modifies([face |-> "face1", a |-> "a1", d |-> "d1", v |-> "v1"])],
   [inputs |-> <<"face1", "tool">>, result |-> "face2",
    modified |-> Modifies([face1 |-> "face2", a1 |-> "a2"])],
   [inputs |-> <<"face1", "face">>, result |-> "both",
    modified |-> Modifies([face1 |-> "both", face |-> "both"])],
   [inputs |-> <<"d1", "tool">>, result |-> "edge", modified |-> Modifies([d1 |-> "edge"])]}
=============================================================================
