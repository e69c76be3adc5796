------------------------------ MODULE NamedShapes ------------------------------
(***************************************************************************)
(* The named shapes of topology/CNamedShape and the operations of          *)
(* boolean_operations on them: CTrimShape, CCutShape, CBopCommon,          *)
(* CMergeShapes, CFuseShapes and CGroupShapes, with CBooleanOperTools,     *)
(* which carries the traits of the faces from the operands to the result.  *)
(*                                                                         *)
(* A PNamedShape is the number of an object, 0 if it is null.  The user    *)
(* makes the solids of a scene and then one call after the other; every    *)
(* operation is one new object of the operation's class, asked once.       *)
(***************************************************************************)
EXTENDS Solids

CONSTANTS
  Scenes     \* the solids the user makes, and the calls to choose from

Null == 0
Kind == {"trim out", "trim in", "cut", "common", "merge", "fuse", "group"}

\* A call: the kind, the first operand and the others, each given by its
\* place among what the user holds by then, or 0 for a null PNamedShape.
IsCall(c, n) ==
  /\ c.kind \in Kind /\ c.x \in 0 .. n /\ c.ys \in Seq(0 .. n)
  /\ c.kind \notin {"fuse", "group"} => c.ys # <<>>

IsScene(s) ==
  /\ s.solids \in Seq(SUBSET Cell) /\ s.calls \in Seq(SUBSET UNION {s.calls[k] : k \in DOMAIN s.calls})
  /\ \A k \in DOMAIN s.calls : \A c \in s.calls[k] : IsCall(c, Len(s.solids) + k - 1)

ASSUME ScenesAssumption == \A s \in Scenes : IsScene(s)

VARIABLES
  scene,
  objects,   \* the CNamedShapes there are: shape, name, faceTraits
  held,      \* the PNamedShapes the user holds: the solids, then the results
  done,      \* the calls that returned
  ended      \* a call ended with an exception

vars == <<scene, objects, held, done, ended>>

(***************************************************************************)
(* CNamedShape and CFaceTraits.  id tells the objects apart: it is that of *)
(* an object a user may hold, of a deep copy of it or of a temporary one.  *)
(***************************************************************************)
NoOrigin == <<"none", 0>>

\* An object of an algorithm that nobody holds.
Temporary == <<"temporary", 0>>

NewTraits(name) == [name |-> name, origin |-> NoOrigin]

NewShape(id, fs, name) ==
  [id |-> id, shape |-> fs, name |-> name, traits |-> [i \in DOMAIN fs |-> NewTraits(name)]]

DeepCopy(s) ==
  [s EXCEPT !.id = <<"copy", s.id[2]>>,
            !.shape = [i \in DOMAIN s.shape |-> [s.shape[i] EXCEPT !.of = <<"copy", @>>]]]

SetShape(s, fs) == [s EXCEPT !.shape = fs]

\* Slip: the origin is always the shape the traits were copied from last.
DerivedFromLast(s, i) == [s.traits[i] EXCEPT !.origin = s.id]

SetDerivedFromShape(s, i) ==
  IF s.traits[i].origin = NoOrigin THEN [s.traits[i] EXCEPT !.origin = s.id]
                                   ELSE s.traits[i]

(***************************************************************************)
(* CBooleanOperTools.                                                      *)
(***************************************************************************)
\* from tells for a face of the source which faces of the target it becomes.
\* The last face of the source that becomes face j gives it its traits.
TraitsFrom(target, source, from, j) ==
  LET origins == {i \in DOMAIN source.shape :
                    j \in DOMAIN target.shape /\ target.shape[j] \in from[source.shape[i]]}
  IN  IF origins = {} THEN target.traits[j]
      ELSE SetDerivedFromShape(source, CHOOSE i \in origins : \A k \in origins : k <= i)

SetTraits(target, source, from) ==
  [target EXCEPT !.traits = [j \in DOMAIN target.traits |-> TraitsFrom(target, source, from, j)]]

AppendNamesToShape(source, target) ==
  SetTraits(target, source, [f \in ToSet(source.shape) |-> {f}])

MapFaceNamesAfterBOP(modified, source, result) ==
  AppendNamesToShape(source, SetTraits(result, source, modified))

Unmodified(s) == [f \in ToSet(s.shape) |-> {}]

\* The faces of a shape after sewing, and what sewing made of each.
ModifiedBySewing(fs) == [f \in ToSet(fs) |-> SewnFace(fs, f)]

\* The names of a part of what was sewn go to the result: part is as before,
\* tmpshape with the sewn faces; those are found in the result as they are.
MapPart(sewn, part, result) ==
  LET tmpshape == SetShape([part EXCEPT !.id = <<"copy", @[2]>>],
                           [i \in DOMAIN part.shape |-> sewn[part.shape[i]]])
  IN  MapFaceNamesAfterBOP(Unmodified(tmpshape), tmpshape, result)

Shellify(s) == MapPart(ModifiedBySewing(s.shape), s, SetShape(s, Sewn(s.shape)))

(***************************************************************************)
(* CTrimShape: split is the surface the pave filler cuts the faces with,   *)
(* tool the solid the central points of the pieces are compared with.      *)
(***************************************************************************)
Keep(op, place) == \/ op = "trim out" /\ place = "OUT"
                   \/ op = "trim in" /\ place = "IN"

\* In some order.
Listed(S) ==
  LET list[T \in SUBSET S] ==
        IF T = {} THEN <<>> ELSE LET x == CHOOSE x \in T : TRUE IN Append(list[T \ {x}], x)
  IN  list[S]

\* The members of a sequence that are in a set.
Those(seq, S) == FlattenSeq([i \in DOMAIN seq |-> IF seq[i] \in S THEN <<seq[i]>> ELSE <<>>])

\* First the pieces of the faces that were split, then the other faces.
FacesNotInShape(fs, split, W, op) ==
  LET kept(f) == Keep(op, Place(W, Middle(f.walls)))
      pieces(f) == Listed({g \in Images(f, split) : kept(g)})
      isSplit(f) == Images(f, split) # {f}
  IN  FlattenSeq([i \in DOMAIN fs |-> IF isSplit(fs[i]) THEN pieces(fs[i]) ELSE <<>>])
        \o Those(fs, {f \in ToSet(fs) : ~ isSplit(f) /\ kept(f)})

\* What splitting along W makes of the faces of s.
Splits(s, W) == [f \in ToSet(s.shape) |-> Images(f, W) \ {f}]

SplitTrim(source, tool, split, op, id) ==
  LET made == NewShape(id, FacesNotInShape(source.shape, split, Surface(tool.shape), op), source.name)
  IN  Shellify(MapFaceNamesAfterBOP(Splits(tool, Surface(source.shape)), tool,
                 MapFaceNamesAfterBOP(Splits(source, split), source, made)))

Trimmed(source, tool, op, id) == SplitTrim(source, tool, Surface(tool.shape), op, id)

(***************************************************************************)
(* CMergeShapes, for two shapes that are there.  BRepBuilderAPI_MakeSolid  *)
(* takes over the faces of the shells.                                     *)
(***************************************************************************)
SameFace(f, g) == Middle(f.walls) = Middle(g.walls)

WithoutCommon(fs, gs) == Those(fs, {f \in ToSet(fs) : \A g \in ToSet(gs) : ~ SameFace(f, g)})

Merged(s1, s2, id) ==
  LET fs    == WithoutCommon(s1.shape, s2.shape) \o WithoutCommon(s2.shape, s1.shape)
      sewn  == ModifiedBySewing(fs)
      made  == NewShape(id, Sewn(fs), <<"SEW_FUSE">>)
      modified(s) == [f \in ToSet(s.shape) |-> IF f \in ToSet(fs) THEN {sewn[f]} ELSE {}]
  IN  MapFaceNamesAfterBOP(modified(s2), s2, MapFaceNamesAfterBOP(modified(s1), s1, made))

(***************************************************************************)
(* CFuseShapes: the parent is trimmed by one child after the other; every  *)
(* child is trimmed by the whole parent, with the filler of what was left  *)
(* of the parent when its turn came.                                       *)
(***************************************************************************)
\* Slip: the children are not trimmed when they lie in the parent.
ChildTrimIn == "trim in"

ChildTrim == "trim out"

ParentTrims(parent, children) ==
  LET left[n \in 0 .. Len(children)] ==
        IF n = 0 THEN DeepCopy(parent)
        ELSE SplitTrim(left[n - 1], children[n], Surface(children[n].shape), "trim out", Temporary)
  IN  left

ChildTrims(parent, children, left) ==
  [n \in DOMAIN children |->
     SplitTrim(children[n], parent, Surface(left[n - 1].shape), ChildTrim, Temporary)]

Fused(parts, id) ==
  LET fs   == FlattenSeq([i \in DOMAIN parts |-> parts[i].shape])
      sewn == ModifiedBySewing(fs)
      result[n \in 0 .. Len(parts)] ==
        IF n = 0 THEN NewShape(id, Sewn(fs), <<"BOP_FUSE">>) ELSE MapPart(sewn, parts[n], result[n - 1])
  IN  result[Len(parts)]

(***************************************************************************)
(* BRepAlgoAPI_Common: the pieces of one solid in the other and, where the *)
(* two lie on the same side of a wall, one piece for both.                 *)
(***************************************************************************)
CommonFaces(s, t) ==
  LET S == Surface(s.shape)  T == Surface(t.shape)
      inside(fs, W) == UNION {{g \in Images(f, W) : Place(W, Middle(g.walls)) = "IN"} : f \in ToSet(fs)}
      shared == UNION {{g \in Images(f, T) :
                          g.walls \subseteq T /\ g.walls \subseteq Boundary(Enclosed(S) \cap Enclosed(T))} :
                         f \in ToSet(s.shape)}
  IN  Listed(inside(s.shape, T) \cup inside(t.shape, S) \cup shared)

Common(s, t, id) ==
  LET made == NewShape(id, CommonFaces(s, t), s.name)
      modified(x) == [f \in ToSet(x.shape) |->
                        {g \in ToSet(made.shape) : g.walls \subseteq f.walls} \ {f}]
  IN  MapFaceNamesAfterBOP(modified(t), t,
        MapFaceNamesAfterBOP(modified(s), s, [made EXCEPT !.name = <<"blubb">>]))

\* CGroupShapes, for two or more members.
\* The faces of a shape without those of the shapes before it.
Grouped(members, id) ==
  LET before(n) == UNION {ToSet(members[k].shape) : k \in 1 .. n - 1}
      faces == FlattenSeq([n \in DOMAIN members |->
                             Those(members[n].shape, ToSet(members[n].shape) \ before(n))])
      result[n \in 0 .. Len(members)] ==
        IF n = 0 THEN NewShape(id, faces, <<"ShapeGroup">>) ELSE AppendNamesToShape(members[n], result[n - 1])
  IN  result[Len(members)]

(***************************************************************************)
(* The calls.                                                              *)
(***************************************************************************)
Name(n)  == <<"solid", n>>
Solid(n) == NewShape(<<"object", n>>, Sides(Name(n), scene.solids[n]), Name(n))

Init ==
  /\ scene \in Scenes
  /\ objects = [n \in DOMAIN scene.solids |-> Solid(n)]
  /\ held = [n \in DOMAIN scene.solids |-> n]
  /\ done = <<>>
  /\ ended = FALSE

Calls   == IF ended \/ Len(done) = Len(scene.calls) THEN {} ELSE scene.calls[Len(done) + 1]
Held(n) == IF n = 0 THEN Null ELSE held[n]
NewId   == <<"object", Len(objects) + 1>>

Return(p) == held' = Append(held, p) /\ UNCHANGED objects

ReturnNew(s) ==
  /\ objects' = Append(objects, s)
  /\ held' = Append(held, Len(objects) + 1)

\* CTrimShape alone throws when an operand is null.
Throws(c) == c.kind \in {"trim out", "trim in"} /\ Null \in {Held(c.x), Held(c.ys[1])}

Trim(c) ==
  LET x == Held(c.x)  y == Held(c.ys[1]) IN
  /\ c.kind \in {"trim out", "trim in"}
  /\ IF Throws(c) THEN UNCHANGED <<objects, held>>
     ELSE ReturnNew(Trimmed(objects[x], objects[y], c.kind, NewId))

\* Slip: what is in the source is left of the tool's surface as well.
ToolTrimOut == "trim out"

ToolTrim == "trim in"

Cut(c) ==
  LET x == Held(c.x)  y == Held(c.ys[1]) IN
  /\ c.kind = "cut"
  /\ IF Null \in {x, y} THEN Return(Null)
     ELSE ReturnNew(Merged(Trimmed(objects[x], objects[y], "trim out", Temporary),
                           Trimmed(objects[y], objects[x], ToolTrim, Temporary), NewId))

BopCommon(c) ==
  LET x == Held(c.x)  y == Held(c.ys[1]) IN
  /\ c.kind = "common"
  /\ IF Null \in {x, y} THEN Return(Null) ELSE ReturnNew(Common(objects[x], objects[y], NewId))

\* With one operand only, the result is that operand and no copy of it.
Merge(c) ==
  LET x == Held(c.x)  y == Held(c.ys[1]) IN
  /\ c.kind = "merge"
  /\ IF x = Null THEN Return(y) ELSE IF y = Null THEN Return(x)
     ELSE ReturnNew(Merged(objects[x], objects[y], NewId))

\* The operands that are no null pointers.
Shapes(ys) ==
  LET there == Those(ys, {y \in ToSet(ys) : Held(y) # Null})
  IN  [i \in DOMAIN there |-> objects[Held(there[i])]]

Fuse(c) ==
  LET x == Held(c.x)  children == Shapes(c.ys) IN
  /\ c.kind = "fuse"
  /\ IF x = Null THEN ReturnNew(Fused(children, NewId))
     ELSE LET left == ParentTrims(objects[x], children)
          IN  ReturnNew(Fused(Append(ChildTrims(objects[x], children, left), left[Len(children)]), NewId))

Group(c) ==
  /\ c.kind = "group"
  /\ IF Len(c.ys) = 1 THEN Return(Held(c.ys[1])) ELSE ReturnNew(Grouped(Shapes(c.ys), NewId))

Finished == Calls = {} /\ UNCHANGED vars

Next ==
  \/ \E c \in Calls :
       /\ Trim(c) \/ Cut(c) \/ BopCommon(c) \/ Merge(c) \/ Fuse(c) \/ Group(c)
       /\ done' = IF Throws(c) THEN done ELSE Append(done, c)
       /\ ended' = Throws(c)
       /\ UNCHANGED scene
  \/ Finished

Spec == Init /\ [][Next]_vars

(***************************************************************************)
(* Properties.                                                             *)
(***************************************************************************)
Cells(s)     == Enclosed(Surface(s.shape))
AllSolid(ss) == \A s \in ToSet(ss) : IsSolid(s.shape)
General(ss)  == \A i, j \in DOMAIN ss : i # j => Surface(ss[i].shape) \cap Surface(ss[j].shape) = {}

\* The operands of a call that was made, and the object it returned.
Operands(k) == Shapes(<<done[k].x>> \o done[k].ys)

Result(k) == objects[held[Len(scene.solids) + k]]

MadeBy(kind) == {k \in DOMAIN done : done[k].kind = kind /\ held[Len(scene.solids) + k] # Null}

\* Solids that cross each other in general position are cut along their
\* surfaces: the two trims and the merge of CCutShape leave the surface of the
\* difference, closed.
CutIsDifference ==
  \A k \in MadeBy("cut") :
    LET ss == Operands(k) IN
    General(ss) /\ AllSolid(ss) =>
      IsSolid(Result(k).shape) /\ Cells(Result(k)) = Cells(ss[1]) \ Cells(ss[2])

\* A fuse with children that do not meet each other is the union, although
\* every child is trimmed with the filler of a parent that lost faces before.
FuseIsUnion ==
  \A k \in MadeBy("fuse") :
    LET ss == Operands(k)
        children == IF Held(done[k].x) = Null THEN ss ELSE Tail(ss) IN
    General(ss) /\ AllSolid(ss)
    /\ (\A i, j \in DOMAIN children : i # j => Cells(children[i]) \cap Cells(children[j]) = {})
    => IsSolid(Result(k).shape) /\ Cells(Result(k)) = UNION {Cells(s) : s \in ToSet(ss)}

\* Solids that share whole faces only, or nothing, are merged along these.
MergeIsUnion ==
  \A k \in {m \in MadeBy("merge") : Len(Operands(m)) = 2} :
    LET ss == Operands(k)
        meets(f, g) == f.walls = g.walls \/ (f.walls \cap g.walls = {} /\ ~ SameFace(f, g)) IN
    AllSolid(ss) /\ Cells(ss[1]) \cap Cells(ss[2]) = {}
    /\ (\A f \in ToSet(ss[1].shape), g \in ToSet(ss[2].shape) : meets(f, g))
    => IsSolid(Result(k).shape) /\ Cells(Result(k)) = Cells(ss[1]) \cup Cells(ss[2])

\* Both ways to unite solids leave their union, closed.
UnitedSolidsAreUnions == FuseIsUnion /\ MergeIsUnion

\* Through any number of calls a face keeps the name of the solid it is a part
\* of and has it, or a copy of it, as its origin.
TraitsFollowFaces ==
  \A s \in ToSet(objects) : s.id[2] > Len(scene.solids) =>
    \A i \in DOMAIN s.shape : \E n \in DOMAIN scene.solids :
      /\ s.traits[i].name = Name(n)
      /\ s.traits[i].origin \in {<<"object", n>>, <<"copy", n>>}
      /\ \E f \in ToSet(Solid(n).shape) : s.shape[i].walls \subseteq f.walls

=============================================================================
