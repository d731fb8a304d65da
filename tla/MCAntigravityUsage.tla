------------------------ MODULE MCAntigravityUsage ------------------------
(* Processes refreshing Antigravity usage; the clock reaches past the *)
(* minimum interval, the authentication pause and the age limit.          *)
EXTENDS AntigravityUsage

CONSTANTS P1, P2, P3
=============================================================================
