-------------------------- MODULE MCScheduleSave --------------------------
(* Two processes, both tasks, one interval with an hour and one without. *)
EXTENDS ScheduleSave

CONSTANTS P1, P2, daily, sixHours
=============================================================================
