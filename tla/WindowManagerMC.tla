-------------------------- MODULE WindowManagerMC --------------------------
(***************************************************************************)
(* Instances of the window manager for TLC.                                *)
(***************************************************************************)
EXTENDS WindowOrder

\* One value is enough where geometry is not the question.
OneCoord == {0}
OneExtent == {0}

\* Off the left edge, inside, and too far right to fit.
EdgeCoords == {-50, 100, 900}

\* The default, a value that may be kept, and one larger than the screen.
EdgeExtents == {0, 400, 2000}
=============================================================================
