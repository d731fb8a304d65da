---------------------------- MODULE MCUpdateRows ----------------------------
(* Two providers, and as many runs at a time as the store could start for  *)
(* them.  Providers and runs are interchangeable in every safety property. *)
EXTENDS UpdateRows, TLC

CONSTANTS T1, T2, R1, R2

Symmetry == Permutations({T1, T2}) \union Permutations({R1, R2})
=============================================================================
