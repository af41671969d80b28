------------------------------ MODULE MCScreen ------------------------------
(* Instance: a row of three cells and two overlapping windows, the submenu *)
(* over the dock.                                                         *)
EXTENDS Screen

Rect(px, py, pw, ph) == [x |-> px, y |-> py, w |-> pw, h |-> ph]
Win(r) == [rect |-> r, target |-> r, min |-> FALSE]

MCLayouts == {<<>>, <<Win(Rect(0, 0, 1, 1)), Win(Rect(0, 0, 2, 1))>>}
MCNew == Win(Rect(1, 0, 1, 1))
MCSpots == {Rect(0, 0, 1, 1), Rect(1, 0, 1, 1)}
MCMenuAt == Rect(1, 0, 1, 1)
MCSubAt == Rect(2, 0, 1, 1)
MCPlaces == {<<0, 0>>, <<1, 0>>, <<2, 0>>}
MCDock == Rect(2, 0, 1, 1)
MCTip == Rect(1, 0, 1, 1)
=============================================================================
