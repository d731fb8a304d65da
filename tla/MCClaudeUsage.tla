---------------------------- MODULE MCClaudeUsage ----------------------------
(* Two processes fetching Claude usage: a 429 names no wait, one the client *)
(* waits out, or one beyond the maximum, and numbers outlive the age limit.  *)
EXTENDS ClaudeUsage, TLC

CONSTANTS P1, P2

ProcSymmetry == Permutations(Proc)
=============================================================================
