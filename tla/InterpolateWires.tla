-------------------------- MODULE InterpolateWires --------------------------
(***************************************************************************)
(* InterpolateWires (topology): a loft through profile wires and perhaps   *)
(* guide wires, closed by a PatchShellTool.  With guides MakePatches makes *)
(* the faces; without, each edge of the profiles is skinned with a         *)
(* CurvesToSurface, and the faces are cut at the profiles and at kinks by  *)
(* TopoAlgorithms.  The work begins when the shape is asked for, and again *)
(* if it threw: a call is several steps here, one for each that may throw. *)
(*                                                                         *)
(* A wire is a sequence of edges, known by their names; an edge that comes *)
(* twice is a seam.  A face is the edge, the profile interval and the      *)
(* piece between two kinks it comes from.                                  *)
(***************************************************************************)
EXTENDS MakePatches

CONSTANTS Wires,       \* profiles: name, edges, planar
          KinksOf,     \* where the curve of an edge has kinks
          Networks,    \* what a network with guides may be: fused, loops, frames
          MaxWires,    \* bound: profiles of an object
          MaxThrows    \* bound: calls that throw

ASSUME InterpolateWiresAssumption ==
  /\ \A w \in Wires : w.edges \in Seq(DOMAIN KinksOf)
  /\ \A e \in DOMAIN KinksOf : IsFiniteSet(KinksOf[e])
  /\ \A n \in Networks : IsNetwork(n)

VARIABLES wires, guided,             \* wires, and whether there are guides
          makeSolid, makeSmooth,
          vparams,                   \* how many parameters, 0: none yet
          hasPerformed, result,
          pc, edge, faces, network,  \* of a call: the step, the edge, the faces so far
          threw                      \* the calls that have thrown

settings == <<makeSolid, makeSmooth>>
call     == <<edge, faces, network>>
vars     == <<wires, guided, settings, vparams, hasPerformed, result, pc, call, threw>>

Null == [kind |-> "null"]

-----------------------------------------------------------------------------
\* The default constructor makes a solid; the one with shapes leaves the member
\* as it is in memory.
Init ==
  /\ \/ wires = <<>> /\ guided = FALSE /\ makeSolid = TRUE
     \/ \E w \in Wires : wires = <<w>> /\ guided \in BOOLEAN /\ makeSolid \in BOOLEAN
  /\ makeSmooth = FALSE /\ vparams = 0 /\ hasPerformed = FALSE /\ result = Null
  /\ pc = "idle" /\ edge = 0 /\ faces = <<>> /\ network = <<>> /\ threw = 0

Idle == pc = "idle"

\* Bound: no wires are added behind a finished Perform, which looks at none again.
MayAdd == Idle /\ ~hasPerformed

addWire ==
  /\ MayAdd
  /\ \E n \in 1 .. 2 : \E w \in [1 .. n -> Wires] :   \* a wire, or a compound of wires
       Len(wires) + n <= MaxWires /\ wires' = wires \o w
  /\ UNCHANGED <<guided, settings, vparams, hasPerformed, result, pc, call, threw>>

addGuides ==
  /\ MayAdd /\ guided' = TRUE
  /\ UNCHANGED <<wires, settings, vparams, hasPerformed, result, pc, call, threw>>

setMakeSolid ==
  /\ Idle /\ makeSolid' \in BOOLEAN
  /\ UNCHANGED <<wires, guided, makeSmooth, vparams, hasPerformed, result, pc, call, threw>>

setMakeSmooth ==
  /\ Idle /\ makeSmooth' \in BOOLEAN
  /\ UNCHANGED <<wires, guided, makeSolid, vparams, hasPerformed, result, pc, call, threw>>

-----------------------------------------------------------------------------
NbEdges(w) == Len(w.edges)

\* The edges of a wire, each once: what TopExp::MapShapes finds.
EdgeMap(w) ==
  FlattenSeq([i \in DOMAIN w.edges |->
                IF \E j \in 1 .. i - 1 : w.edges[j] = w.edges[i] THEN <<>> ELSE <<w.edges[i]>>])

AllSame == \A w, x \in ToSet(wires) : NbEdges(w) = NbEdges(x)

NbEdgesPerProfile == Len(EdgeMap(wires[1]))

Throw ==
  /\ threw < MaxThrows /\ threw' = threw + 1 /\ pc' = "idle"
  /\ edge' = 0 /\ faces' = <<>> /\ network' = <<>>
  /\ UNCHANGED <<wires, guided, settings>>

\* BRepAlgo::ConcatenateWire makes another wire of one edge.
Concatenated(i) ==
  IF NbEdges(wires[i]) = 1 THEN wires[i]
  ELSE [wires[i] EXCEPT !.name = Append(@, "concatenated"), !.edges = <<@[1]>>, !.at = i]

\* makeLoftWithGuides up to CloseShape: a status that is not OK is logged, the
\* result is null, and the loft counts as performed.
makeLoftWithGuides ==
  /\ Idle /\ ~hasPerformed /\ wires # <<>> /\ guided
  /\ wires' = [i \in DOMAIN wires |-> Concatenated(i)]
  /\ network' \in Networks
  /\ faces' = Patches(network', "CoonsStyle")
  /\ IF Status(network') = OK
     THEN pc' = "close" /\ UNCHANGED <<hasPerformed, result>>
     ELSE pc' = "idle" /\ hasPerformed' = TRUE /\ result' = Null
  /\ UNCHANGED <<guided, settings, vparams, edge, threw>>

\* makeLoftWithoutGuides.
makeLoftWithoutGuides ==
  /\ Idle /\ ~hasPerformed /\ wires # <<>> /\ ~guided
  /\ IF AllSame
     THEN /\ pc' = "skin" /\ edge' = 1 /\ faces' = <<>> /\ network' = <<>>
          /\ UNCHANGED <<wires, guided, settings, threw>>
     ELSE Throw
  /\ UNCHANGED <<vparams, hasPerformed, result>>

\* CurvesToSurface through the curves of one edge, at the parameters of the
\* first edge if they are there already.
HasEdge(i) == \A w \in ToSet(wires) : i <= Len(EdgeMap(w))

Kinks(i) == UNION {KinksOf[EdgeMap(w)[i]] : w \in ToSet(wires)}

CanSkin == Len(wires) > 1 /\ vparams \in {0, Len(wires)}

SkinEdge ==
  /\ pc = "skin" /\ edge <= NbEdgesPerProfile /\ HasEdge(edge) /\ CanSkin
  /\ faces' = Append(faces, [edge |-> edge, kinks |-> Kinks(edge)])
  /\ vparams' = Len(wires) /\ edge' = edge + 1
  /\ UNCHANGED <<wires, guided, settings, hasPerformed, result, pc, network, threw>>

\* Also curves that fit may be refused, of different parameter ranges.
SkinThrows ==
  /\ pc = "skin" /\ edge <= NbEdgesPerProfile
  /\ Throw
  /\ UNCHANGED <<vparams, hasPerformed, result>>

-----------------------------------------------------------------------------
\* TopoAlgorithms: the faces cut at the profiles, put into the order of the
\* coons patches, and cut at their kinks.
NbIntervals == vparams - 1

CutShellAtUVParameters(shell) ==
  FlattenSeq([n \in DOMAIN shell |->
    [v \in 1 .. NbIntervals |-> [edge |-> shell[n].edge, v |-> v, kinks |-> shell[n].kinks]]])

\* Slip: the order in which they come, taken for that of the other branch.
ResortedByEdges(cut) ==
  [n \in DOMAIN cut |-> cut[((n - 1) \div NbIntervals) * NbIntervals + ((n - 1) % NbIntervals) + 1]]

ResortFaces(cut) ==
  [n \in DOMAIN cut |->
     cut[((n - 1) % NbEdgesPerProfile) * NbIntervals + (n - 1) \div NbEdgesPerProfile + 1]]

CutShellAtKinks(shell) ==
  FlattenSeq([n \in DOMAIN shell |->
    [k \in 1 .. Cardinality(shell[n].kinks) + 1 |-> [edge |-> shell[n].edge, v |-> shell[n].v, piece |-> k]]])

Cut ==
  /\ pc = "skin" /\ edge > NbEdgesPerProfile
  /\ faces' = CutShellAtKinks(ResortFaces(CutShellAtUVParameters(faces)))
  /\ pc' = "close"
  /\ UNCHANGED <<wires, guided, settings, vparams, hasPerformed, result, edge, network, threw>>

-----------------------------------------------------------------------------
\* CloseShape, with a PatchShellTool on its stack.  AddSideCap makes a cap in the
\* plane of a wire, or in another surface, or none; the caps are sewn to a shell
\* that is not closed already, and what comes of it is called closed.
FirstWire == wires[1]
LastWire == wires[Len(wires)]

IsSame(w, x) == w.name = x.name /\ w.at = x.at

AddSideCap(w) == IF w.cap = "none" THEN <<>> ELSE <<w.name>>

Sidecaps == IF ~IsSame(FirstWire, LastWire) /\ makeSolid THEN AddSideCap(FirstWire) \o AddSideCap(LastWire) ELSE <<>>

\* Sewing finds a ring closed, whichever copies of its first profile it begins
\* and ends with.
IsRing == FirstWire.name[1] = LastWire.name[1]

CloseShape ==
  /\ pc = "close" /\ faces # <<>>
  /\ result' = [kind |-> IF makeSolid THEN "solid" ELSE "shell", faces |-> faces,
                caps |-> IF IsRing THEN <<>> ELSE Sidecaps,
                of |-> wires, network |-> network]   \* of, network: what it is made of
  /\ hasPerformed' = TRUE /\ pc' = "idle"
  /\ edge' = 0 /\ faces' = <<>> /\ network' = <<>>
  /\ UNCHANGED <<wires, guided, settings, vparams, threw>>

\* MakeShells throws unless the faces are sewn to one face or shell.
CloseThrows ==
  /\ pc = "close"
  /\ result' = [kind |-> "open", faces |-> faces]
  /\ Throw
  /\ UNCHANGED <<vparams, hasPerformed>>

Next ==
  \/ addWire \/ addGuides \/ setMakeSolid \/ setMakeSmooth
  \/ makeLoftWithGuides \/ makeLoftWithoutGuides
  \/ SkinEdge \/ SkinThrows \/ Cut \/ CloseShape \/ CloseThrows

Spec == Init /\ [][Next]_vars

-----------------------------------------------------------------------------
Performed == hasPerformed /\ result # Null

\* The pieces of an edge of the profiles, and the order of the coons patches.
NbPieces(i, ws) == Cardinality(UNION {KinksOf[EdgeMap(w)[i]] : w \in ToSet(ws)}) + 1

Before(f, g) == f.v < g.v \/ (f.v = g.v /\ (f.edge < g.edge \/ (f.edge = g.edge /\ f.piece < g.piece)))

Follow(fs, ws) ==
  /\ \A i \in 1 .. Len(EdgeMap(ws[1])) : \A k \in 1 .. NbPieces(i, ws) : \A v \in 1 .. Len(ws) - 1 :
       \E j \in DOMAIN fs : fs[j] = [edge |-> i, v |-> v, piece |-> k]
  /\ \A j \in 1 .. Len(fs) - 1 : Before(fs[j], fs[j + 1])

\* A loft without guides has a face for each edge, profile interval and piece
\* between kinks, interval by interval and edge by edge: "make sure the order is
\* the same as for the COONS Patch algorithm".  Also after calls that threw with
\* the parameters of fewer profiles.
FacesFollowTheProfiles == Performed /\ result.network = <<>> => Follow(result.faces, result.of)

\* A face for each cell, filled between boundaries that fit; where a curve has a
\* knot with the point of an end beside it, no sliver is left between them.
Fit(fs, cells) ==
  /\ Len(fs) = Len(cells)
  /\ \A n \in DOMAIN cells :
       /\ fs[n].cell = cells[n].edges
       /\ FitsFrame(fs[n].surface)
       /\ \A i \in 1 .. 4 : HasNoSlivers(cells[n].edges[i])

\* With guides no cell is left out, whichever way its edges run, and the
\* surface of each is filled between boundaries that fit and have no slivers.
PatchesFitTheirFrames ==
  Performed /\ result.network # <<>> => Fit(result.faces, FlattenSeq(result.network.frames))
=============================================================================
