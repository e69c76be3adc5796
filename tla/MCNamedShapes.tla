----------------------------- MODULE MCNamedShapes -----------------------------
(***************************************************************************)
(* A large solid, one anywhere on the board and a small one, and calls     *)
(* with them, with what these return and with null operands.               *)
(***************************************************************************)
EXTENDS NamedShapes

Rectangles ==
  {Box(l, r, b, t) : l \in {0, 2, 4, 6}, r \in {2, 4, 6, 8}, b \in {0, 2, 4}, t \in {2, 4, 6}} \ {{}}

Call(kind, x, ys) == [kind |-> kind, x |-> x, ys |-> ys]

Operations(x, y) ==
  {Call(kind, x, <<y>>) : kind \in Kind \ {"group"}} \cup {Call("group", 0, <<x, y>>)}

\* Bounds: three solids and two calls; the second call takes the result of the
\* first, which is the fourth thing the user holds, and the third solid.
FirstCalls  == Operations(1, 2) \cup {Call("fuse", 1, <<2, 3>>), Call("fuse", 0, <<2, 0, 3>>)}
SecondCalls == Operations(4, 3)
NullCalls   == Operations(0, 1) \cup Operations(1, 0) \cup Operations(0, 0)
                 \cup {Call("group", 0, <<1>>), Call("group", 0, <<0>>), Call("fuse", 1, <<>>)}

Scene(S, calls) == [solids |-> S, calls |-> calls]

AllScenes ==
  {Scene(<<Box(2, 8, 0, 4), B, Box(4, 6, 2, 6)>>, <<FirstCalls>>) : B \in Rectangles}
    \cup {Scene(<<Box(2, 8, 2, 4), B, Box(0, 4, 0, 6)>>, <<FirstCalls, SecondCalls>>) : B \in Rectangles}
    \cup {Scene(<<Box(2, 8, 0, 4), Box(0, 4, 2, 6)>>, <<NullCalls>>)}

=============================================================================
