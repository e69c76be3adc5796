----------------------------- MODULE ShapeHistory -----------------------------
(***************************************************************************)
(* Shape (geoml/naming_choosing), Operation and                            *)
(* BRepBuilderAPI_MakeShape_Operation (topology) and the boolean           *)
(* operations (geoml/boolean_ops): shapes that remember which shapes they  *)
(* were made of, and tags that follow them through modelling steps.        *)
(*                                                                         *)
(* What OpenCASCADE knows of a shape is a member of Top: two TopoDS_Shapes *)
(* that are IsSame are one top.  Part[t] lists the tops a TopoDS_Iterator  *)
(* meets in t; a top may be part of several others.  A geoml Shape points  *)
(* to a Data, and Shape(theShape) makes a tree of new ones: the Data at    *)
(* the path p of tree r is the node <<r, p>>, so an edge that two faces    *)
(* share has two nodes.                                                    *)
(***************************************************************************)
EXTENDS Integers, FiniteSets, Sequences, SequencesExt

CONSTANTS
  Part,        \* [Top -> Seq(Top)]
  Height,      \* of a top: parts are lower than the whole
  Sources,     \* the tops the user makes shapes of
  Algorithms,  \* what OpenCASCADE can do: records inputs, result, modified
  Tags, Lives, \* tags; the numbers of steps tag tracks are made for
  Targets,     \* the tops whose descendants the user tags
  MaxTrees, MaxEdits   \* bounds: trees of Data; calls of the user that tag

Top == DOMAIN Part

\* m_algo.Modified(t) is modified[t], empty for what was kept or deleted.
IsAlgorithm(a) ==
  /\ a.inputs \in Top \X Top /\ a.result \in Top
  /\ a.modified \in [Top -> SUBSET Top]

\* No shape is a part of itself: a face has wires, a wire edges, an edge vertices.
ASSUME PartAssumption ==
  /\ IsFiniteSet(Top) /\ Part \in [Top -> Seq(Top)] /\ Sources \in SUBSET Top
  /\ Height \in [Top -> Nat]
  /\ \A t \in Top : \A i \in DOMAIN Part[t] : Height[Part[t][i]] < Height[t]
ASSUME AlgorithmsAssumption == \A a \in Algorithms : IsAlgorithm(a)
ASSUME BoundsAssumption == MaxTrees \in Nat /\ MaxEdits \in Nat /\ Lives \in SUBSET Int
                           /\ Targets \in SUBSET Top

\* The paths of the tree of Data a top unfolds into.
Paths ==
  LET paths[t \in Top] ==
        {<<>>} \cup UNION {{<<i>> \o p : p \in paths[Part[t][i]]} : i \in DOMAIN Part[t]}
  IN  [t \in Top |-> paths[t]]

\* The visitors go depth first, so a node comes before its children and
\* those before its later brothers.
Earlier(p, q) ==
  \/ IsStrictPrefix(p, q)
  \/ \E i \in DOMAIN p \cap DOMAIN q :
       p[i] < q[i] /\ \A j \in 1 .. i - 1 : p[j] = q[j]

\* The top at every path, and the path where a visitor meets each top first.
TopAt ==
  LET at[t \in Top] ==
        [p \in Paths[t] |-> IF p = <<>> THEN t ELSE at[Part[t][Head(p)]][Tail(p)]]
  IN  [t \in Top |-> at[t]]

FirstPaths ==
  [t \in Top |-> {p \in Paths[t] :
                    \A q \in Paths[t] : TopAt[t][q] = TopAt[t][p] => ~ Earlier(q, p)}]

VARIABLES
  trees,     \* the tops of the roots, in the order the trees were made
  origins,   \* of every node: m_data->origins
  tags,      \*   m_data->persistent_meta_tags
  tracks,    \*   m_data->tag_tracks
  made,      \* how every tree was made: the algorithm and the input nodes
  edits

vars == <<trees, origins, tags, tracks, made, edits>>

NodesOf(r)  == {<<r, p>> : p \in Paths[trees[r]]}
Node        == UNION {NodesOf(r) : r \in DOMAIN trees}
Root(r)     == <<r, <<>>>>
TopOf(n)    == TopAt[trees[n[1]]][n[2]]
Below(n)    == {<<n[1], n[2] \o p>> : p \in Paths[TopOf(n)]}

\* select_subshapes keeps of all nodes of a top that satisfy the predicate the
\* one it meets first: its results are an unordered_set under is_same.
Select(found) ==
  {m \in found : \A o \in found : TopOf(o) = TopOf(m) => ~ Earlier(o[2], m[2])}

get_subshapes(n) == {<<n[1], n[2] \o p>> : p \in FirstPaths[TopOf(n)]}

\* Slip: the visitor goes one step too far.
HistoryOneMore(n, depth) ==
  LET reach[d \in 0 .. depth + 1] ==
        IF d = 0 THEN {n}
        ELSE LET near == reach[d - 1] IN near \cup UNION {origins[m] : m \in near}
  IN  reach[depth + 1]

\* The nodes accept_history_visitor reaches from n in at most depth steps.
History(n, depth) ==
  LET reach[d \in 0 .. depth] ==
        IF d = 0 THEN {n}
        ELSE LET near == reach[d - 1] IN near \cup UNION {origins[m] : m \in near}
  IN  reach[depth]

\* No history is longer than there are trees, so a greater depth finds no more.
is_descendent_of(n, t, depth) == \E m \in History(n, depth) : TopOf(m) = t
IsDescendent(n, t)            == is_descendent_of(n, t, Len(trees))

Init ==
  /\ trees = <<>> /\ made = <<>>
  /\ origins = [n \in {} |-> {}] /\ tags = [n \in {} |-> {}]
  /\ tracks = [n \in {} |-> <<>>]
  /\ edits = 0

\* The Data of a tree that is about to be made.
NewNodes(t) == {<<Len(trees) + 1, p>> : p \in Paths[t]}
Fresh(t, x) == [n \in NewNodes(t) |-> x]
Grow(f, new) == [n \in DOMAIN f \cup DOMAIN new |-> IF n \in DOMAIN f THEN f[n] ELSE new[n]]

\* Shape(TopoDS_Shape): no history, no tags.
Wrap(t) ==
  /\ Len(trees) < MaxTrees
  /\ trees' = Append(trees, t)
  /\ made' = Append(made, [inputs |-> <<>>])
  /\ origins' = Grow(origins, Fresh(t, {})) /\ tags' = Grow(tags, Fresh(t, {}))
  /\ tracks' = Grow(tracks, Fresh(t, <<>>))
  /\ UNCHANGED edits

(***************************************************************************)
(* The user's calls that tag.  A tag track tags the descendants of a top;  *)
(* born, since and life note where, after how many trees and for how many  *)
(* steps it was made.                                                      *)
(***************************************************************************)
Edit == edits < MaxEdits /\ edits' = edits + 1

AddMetaTag(f, N, tag) == [n \in DOMAIN f |-> IF n \in N THEN f[n] \cup {tag} ELSE f[n]]

add_meta_tag(n, tag) ==
  /\ Edit
  /\ tags' = AddMetaTag(tags, {n}, tag)
  /\ UNCHANGED <<trees, origins, tracks, made>>

add_meta_tag_to_subshapes(n, of, tag) ==
  /\ Edit
  /\ tags' = AddMetaTag(tags, Select({m \in Below(n) : IsDescendent(m, of)}), tag)
  /\ UNCHANGED <<trees, origins, tracks, made>>

add_tag_track(n, tag, of, life) ==
  /\ Edit
  /\ tracks' = [tracks EXCEPT ![n] =
                   Append(@, [tag |-> tag, of |-> of, steps |-> life,
                              born |-> n, since |-> Len(trees), life |-> life])]
  /\ UNCHANGED <<trees, origins, tags, made>>

\* The tags the tracks of a shape give to a subshape that descends from tops.
TrackTags(ts, tops) ==
  {ts[i].tag : i \in {j \in DOMAIN ts : ts[j].steps > 0 /\ ts[j].of \in tops}}

apply_tag_tracks(n) ==
  /\ Edit
  /\ tags' = [m \in DOMAIN tags |->
                IF m \in get_subshapes(n)
                  THEN tags[m] \cup TrackTags(tracks[n], {t \in Top : IsDescendent(m, t)})
                  ELSE tags[m]]
  /\ UNCHANGED <<trees, origins, tracks, made>>

(***************************************************************************)
(* Operation::value.                                                       *)
(***************************************************************************)
\* Slip: what the algorithm left alone gets no origin.
ComesFromModified(a, t, from) == t \in a.modified[from]

\* map_subshapes: a result top comes from an input top it is the same as, or
\* is a modification of.
ComesFrom(a, t, from) == t = from \/ t \in a.modified[from]

map_subshapes(a, inputs) ==
  [n \in NewNodes(a.result) |->
     IF n[2] \in FirstPaths[a.result]
       THEN {m \in UNION {get_subshapes(inputs[i]) : i \in DOMAIN inputs} :
               ComesFrom(a, TopAt[a.result][n[2]], TopOf(m))}
       ELSE {}]

\* "delete the worn out tag tracks and reduce the remaining step number of
\* the remaining tag tracks by one"

\* Slip: a track that is good for one more step is kept.
WearLate(ts) ==
  [i \in DOMAIN SelectSeq(ts, LAMBDA tt : tt.steps > 0) |->
     LET tt == SelectSeq(ts, LAMBDA x : x.steps > 0)[i] IN [tt EXCEPT !.steps = @ - 1]]

Wear(ts) ==
  LET left[i \in 0 .. Len(ts)] ==
        IF i = 0 THEN <<>>
        ELSE IF ts[i].steps > 1 THEN Append(left[i - 1], [ts[i] EXCEPT !.steps = @ - 1])
        ELSE left[i - 1]
  IN  left[Len(ts)]

\* Slip: only the tag tracks of the first input are passed on.
MergeFirst(inputs) == tracks[inputs[1]]

Merge(inputs) ==
  LET merged[i \in 0 .. Len(inputs)] ==
        IF i = 0 THEN <<>> ELSE merged[i - 1] \o tracks[inputs[i]]
  IN  merged[Len(inputs)]

value(a, inputs) ==
  /\ Len(trees) < MaxTrees
  /\ LET new    == map_subshapes(a, inputs)
         merged == Merge(inputs)
         ancestors(n) == {TopAt[a.result][n[2]]}
                           \cup {t \in Top : \E m \in new[n] : IsDescendent(m, t)}
     IN  /\ origins' = Grow(origins, new)
         /\ tags' = Grow(tags, [n \in NewNodes(a.result) |->
                       IF n[2] \in FirstPaths[a.result]
                         THEN TrackTags(merged, ancestors(n)) ELSE {}])
         /\ tracks' = Grow(tracks, [n \in NewNodes(a.result) |->
                         IF n[2] = <<>> THEN Wear(merged) ELSE <<>>])
  /\ trees' = Append(trees, a.result)
  /\ made' = Append(made, [inputs |-> inputs, algorithm |-> a])
  /\ UNCHANGED edits

\* boolean_subtract and boolean_union have two inputs.
Candidates(t) == {n \in Node : TopOf(n) = t}

Finished == Len(trees) = MaxTrees /\ edits = MaxEdits /\ UNCHANGED vars

Next ==
  \/ \E t \in Sources : Wrap(t)
  \/ \E n \in Node :
       \/ apply_tag_tracks(n)
       \/ \E tag \in Tags :
            \/ add_meta_tag(n, tag)
            \/ \E of \in Targets : \/ add_meta_tag_to_subshapes(n, of, tag)
                                   \/ \E life \in Lives : add_tag_track(n, tag, of, life)
  \/ \E a \in Algorithms :
       \E x \in Candidates(a.inputs[1]), y \in Candidates(a.inputs[2]) : value(a, <<x, y>>)
  \/ Finished

Spec == Init /\ [][Next]_vars

(***************************************************************************)
(* What the properties compare the histories with: for every tree and each *)
(* of its tops, the tops OpenCASCADE made it of and in how many operations.*)
(***************************************************************************)
InputsOf(r) == ToSet(made[r].inputs)

\* The nodes of the inputs the top t of the tree r was made of.
MadeOf(r, t) ==
  {m \in UNION {Below(n) : n \in InputsOf(r)} :
     TopOf(m) = t \/ t \in made[r].algorithm.modified[TopOf(m)]}

Ancestors ==
  LET anc[u \in (DOMAIN made) \X Top] ==
        {<<u[2], 0>>} \cup
          {<<p[1], p[2] + 1>> : p \in UNION {anc[<<m[1], TopOf(m)>>] : m \in MadeOf(u[1], u[2])}}
  IN  anc

IsFirst(n) == n[2] \in FirstPaths[trees[n[1]]]

\* Whether only whole shapes went into each tree.
Whole ==
  LET whole[r \in DOMAIN made] == \A n \in InputsOf(r) : n[2] = <<>> /\ whole[n[1]]
  IN  whole

\* After how many operations what the track tt was put on is in each tree.
StepsTo(tt) ==
  LET steps[r \in DOMAIN made] ==
        IF r <= tt.since THEN {}
        ELSE (IF tt.born \in InputsOf(r) THEN {1} ELSE {})
               \cup {k + 1 : k \in UNION {steps[n[1]] : n \in {x \in InputsOf(r) : x[2] = <<>>}}}
  IN  steps

\* The tag tracks the user made.
OwnTracks == UNION {{tt \in ToSet(tracks[n]) : tt.born = n} : n \in Node}

\* is_descendent_of never claims a descent that OpenCASCADE did not report,
\* however many operations lie between and whatever subshapes they were given.
DescentIsTrue ==
  LET anc == Ancestors
  IN  \A n \in Node : \A d \in 0 .. Len(trees) : \A m \in History(n, d) :
        \E p \in anc[<<n[1], TopOf(n)>>] : p[1] = TopOf(m) /\ p[2] <= d

\* As long as whole shapes are cut and joined, no descent is forgotten: the
\* subshapes that get_subshapes returns know every top they were made of, and
\* a search of depth d finds those of the last d operations.
DescentIsComplete ==
  LET anc == Ancestors  whole == Whole
  IN  \A n \in Node : IsFirst(n) /\ whole[n[1]] =>
        \A p \in anc[<<n[1], TopOf(n)>>] : is_descendent_of(n, p[1], p[2])

\* A tag track is in a result if there is a way to it in fewer steps than it was
\* made for, once for each length there is, and has lost one step on each operation
\* of the way.  Ways of the same length wear it alike: as members of a set they are one.
TracksCountSteps ==
  LET own == OwnTracks
  IN  \A r \in DOMAIN trees :
        {tt \in ToSet(tracks[Root(r)]) : tt.born # Root(r)} =
          UNION {{[tt EXCEPT !.steps = tt.life - k] : k \in {s \in StepsTo(tt)[r] : s < tt.life}} :
                   tt \in own}

\* The tags of a result's subshapes are those of the tracks that are not worn
\* out on a way to it and whose criterion they meet.
TagsFollowTracks ==
  LET r == Len(trees)
  IN  \A n \in NodesOf(r) : IsFirst(n) =>
        tags[n] = {tt.tag : tt \in {x \in OwnTracks :
                                      (\E k \in StepsTo(x)[r] : k <= x.life) /\ IsDescendent(n, x.of)}}
ResultsAreTagged == [][trees' # trees => TagsFollowTracks']_vars

\* Shape.h: is_descendent_of "returns true, if this shape is a historical
\* descendent of the other shape", whichever subshape of a result it is.
EverySubshapeKnowsItsOrigins ==
  LET anc == Ancestors  whole == Whole
  IN  \A n \in Node : whole[n[1]] => \A p \in anc[<<n[1], TopOf(n)>>] : IsDescendent(n, p[1])
=============================================================================
