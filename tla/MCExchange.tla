------------------------------ MODULE MCExchange ------------------------------
(***************************************************************************)
(* A shape with faces of two origins and of none, two of which have the    *)
(* same name, and a shape of wires, for Exchange.                          *)
(***************************************************************************)
EXTENDS Exchange

Face(name, origin) == [name |-> name, origin |-> origin]

Wing == [name |-> <<"wing">>, wires |-> 0,
         faces |-> <<Face(<<"skin">>, <<"hull">>), Face(<<"tip">>, NoOrigin),
                     Face(<<"skin">>, <<"cutter">>), Face(<<"rib">>, <<"hull">>)>>]
Axes == [name |-> <<"axes">>, wires |-> 2, faces |-> <<>>]

MCShapes == {Wing, Axes}
MCOptions == {IgesOptions("FACES", "UIDandFaceName")}
MCShapeOptions == {[kind |-> "iges", layer |-> 1]}

\* A writer of another library takes one of the types of a class for itself.
MCRegistered == {[types |-> <<"stp", "x_t">>, class |-> "iges",
                   options |-> IgesOptions("FACES", "FaceNameOnly")]}
=============================================================================
