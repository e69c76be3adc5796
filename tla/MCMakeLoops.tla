----------------------------- MODULE MCMakeLoops -----------------------------
(***************************************************************************)
(* Networks for MakeLoops: rectangular grids of p profiles and g guides,   *)
(* open or closed in each direction, and what becomes of them when one     *)
(* edge is missing, turned round or carries the reversed orientation.      *)
(***************************************************************************)
EXTENDS MakeLoops

\* p profiles cross g guides at the vertices (k, l); closed guides run from
\* the last profile to the first one, closed profiles from the last guide.
Grid(p, g, guidesClosed, profilesClosed, backward) ==
  LET size  == p * g
      V(k, l) == LET v == (k % p) * g + (l % g)
                 IN  IF backward THEN size - v ELSE v + 1
      rows  == IF guidesClosed THEN p ELSE p - 1
      cols  == IF profilesClosed THEN g ELSE g - 1
      P(k, l) == k * cols + l + 1
      G(k, l) == p * cols + k * g + l + 1
      profiles == {P(k, l) : k \in 0 .. p - 1, l \in 0 .. cols - 1}
      guides   == {G(k, l) : k \in 0 .. rows - 1, l \in 0 .. g - 1}
      edges == profiles \cup guides
      kOf(e) == IF e \in profiles THEN (e - 1) \div cols
                                  ELSE (e - 1 - p * cols) \div g
      lOf(e) == IF e \in profiles THEN (e - 1) % cols
                                  ELSE (e - 1 - p * cols) % g
  IN  [vertices |-> 1 .. size, edges |-> edges,
       first |-> [e \in edges |-> V(kOf(e), lOf(e))],
       last  |-> [e \in edges |-> IF e \in profiles
                                    THEN V(kOf(e), lOf(e) + 1)
                                    ELSE V(kOf(e) + 1, lOf(e))],
       guides |-> guides, profiles |-> profiles, reversed |-> {},
       guideJoint   |-> [v \in 1 .. size |-> v % 3],
       profileJoint |-> [v \in 1 .. size |-> (v \div 2) % 3],
       layout |-> [p |-> p, g |-> g, rows |-> rows, cols |-> cols,
                   at      |-> [x \in (0 .. p - 1) \X (0 .. g - 1) |-> V(x[1], x[2])],
                   profile |-> [x \in (0 .. p - 1) \X (0 .. cols - 1) |-> P(x[1], x[2])],
                   guide   |-> [x \in (0 .. rows - 1) \X (0 .. g - 1) |-> G(x[1], x[2])]]]

Grids(ps, gs) ==
  {Grid(p, g, gc, pc_, b) :
     p \in ps, g \in gs, gc \in BOOLEAN, pc_ \in BOOLEAN, b \in BOOLEAN}

\* Every grid of up to four profiles and two to four guides that has a patch.
RegularNetworks == {n \in Grids(1 .. 4, 2 .. 4) : n.layout.rows > 0 /\ n.layout.cols > 0}

\* They are what the expectations of grids are about.
ASSUME RegularNetworksAreGrids == \A n \in RegularNetworks : IsGrid(n)

(***************************************************************************)
(* One fault in a grid.                                                    *)
(***************************************************************************)
Without(n, e) ==
  LET edges == n.edges \ {e}
  IN  [n EXCEPT !.edges = edges,
                !.first = [x \in edges |-> n.first[x]],
                !.last  = [x \in edges |-> n.last[x]],
                !.guides = @ \ {e}, !.profiles = @ \ {e}]

Turned(n, e) == [n EXCEPT !.first[e] = n.last[e], !.last[e] = n.first[e]]

\* The edges that turning round changes.
Spans(n) == {e \in n.edges : n.first[e] # n.last[e]}

\* An edge that carries the orientation REVERSED.
Reoriented(n, e) == [n EXCEPT !.reversed = {e}]

\* A third guide edge at the first vertex of the network.
Bridged(n) ==
  LET edges == n.edges \cup {50}
      far   == CHOOSE v \in n.vertices : \A w \in n.vertices : w <= v
  IN  [n EXCEPT !.edges = edges, !.guides = @ \cup {50},
                !.first = [x \in edges |-> IF x = 50 THEN 1 ELSE n.first[x]],
                !.last  = [x \in edges |-> IF x = 50 THEN far ELSE n.last[x]]]

SmallGrids == {n \in Grids(1 .. 3, 1 .. 3) : n.layout.rows > 0 /\ n.layout.cols > 0}

\* An edge is missing, turned round, reversed or one too many; no edge at all.
FaultyNetworks ==
  UNION {{Without(n, e) : e \in n.edges} \cup {Turned(n, e) : e \in Spans(n)}
           \cup {Reoriented(n, e) : e \in Spans(n)} \cup {Bridged(n)} : n \in SmallGrids}
    \cup {Grid(0, 0, TRUE, TRUE, FALSE)}

\* Only those with a missing edge.
NetworksWithAGap == UNION {{Without(n, e) : e \in n.edges} : n \in SmallGrids}

AllNetworks == RegularNetworks \cup FaultyNetworks
=============================================================================
