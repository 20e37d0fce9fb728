------------------------- MODULE MCMaskedDiagnostic -------------------------
(* Layouts with spans that start and end inside blocks, touch, overlap and   *)
(* leave gaps; scripts that change the view at a block boundary and inside,  *)
(* repeat it, and do not return to the global view.                          *)
EXTENDS MaskedDiagnostic

MCLayouts == {
    [prompt |-> 6, sink |-> <<0, 1>>, window |-> <<5, 6>>, segments |-> << <<1, 2>>, <<3, 5>> >>],
    [prompt |-> 5, sink |-> <<0, 0>>, window |-> <<4, 5>>, segments |-> << <<0, 3>>, <<2, 2>> >>] }

Piece(n, m, r) == [tokens |-> n, mode |-> m, refs |-> r]

MCScripts == {
    <<Piece(1, "focus", {2}), Piece(2, "local", {}), Piece(1, "global", {})>>,
    <<Piece(2, "focus", {1, 2}), Piece(1, "focus", {1}), Piece(1, "global", {})>>,
    <<Piece(1, "global", {}), Piece(1, "local", {})>> }
=============================================================================
