--------------------------- MODULE MCReleaseUpdates ---------------------------
(* Two updates at a time, so that a slow one meets a newer one, and two    *)
(* requests, one of them sent before the checks were turned off and on.    *)
EXTENDS ReleaseUpdates

CONSTANTS U1, U2, C1, C2
=============================================================================
