----------------------------- MODULE UsageAnswers -----------------------------
(***************************************************************************)
(* What the popover promises of its refreshes: one at a time, each         *)
(* answered once, and what is shown is the answer to the last one that     *)
(* ended, never an older one's.                                            *)
(***************************************************************************)
EXTENDS Integers

VARIABLES
    busy,    \* a refresh is running
    asked,   \* the number of the last refresh started
    shown    \* the number of the refresh whose answer is shown

vars == << busy, asked, shown >>

Init == busy = FALSE /\ asked = -1 /\ shown = -1

Start ==
    /\ ~busy
    /\ busy' = TRUE
    /\ asked' \in Int /\ asked' > asked
    /\ UNCHANGED shown

Answer ==
    /\ busy
    /\ busy' = FALSE
    /\ shown' = asked
    /\ UNCHANGED asked

Next == Start \/ Answer

Spec == Init /\ [][Next]_vars
=============================================================================
