-------------------------- MODULE MCMenubarInstances --------------------------
(* Four processes: a menubar that hangs, the restart that replaces it and  *)
(* a command in its way.                                                   *)
EXTENDS MenubarInstances

CONSTANTS P1, P2, P3, P4
=============================================================================
