---------------------------- MODULE MCUsageAlert ----------------------------
(* A small instance of UsageAlert: one provider with one window besides its *)
(* own value, two configurations (a lower and a raised threshold, the second *)
(* with a quiet timer), and one scope to snooze.                             *)
EXTENDS UsageAlert

CONSTANTS P1, P2, codex, fiveHours

MCProvider == {codex}
MCWindow == {fiveHours}

Table(w, d) == [n \in ThresholdName |-> IF n = fiveHours THEN w
                                        ELSE IF n = Default THEN d ELSE 0]
NoTable == Table(0, 0)

\* A low threshold from the global default with the quiet timer on until 1,
\* and one the user has raised for this provider and window.
MCConfig == { [provider |-> [p \in MCProvider |-> NoTable], global |-> Table(0, 1),
               pct |-> 4, quiet |-> 1],
              [provider |-> [p \in MCProvider |-> Table(2, 0)], global |-> Table(1, 0),
               pct |-> 4, quiet |-> 0] }

Row(u, b) == [percent |-> TRUE, used |-> u, buckets |-> [w \in MCWindow |-> b]]

\* The number mirrored into the row's own value, and one of its own.
MCReading == { [p \in MCProvider |-> Row(2, 2)], [p \in MCProvider |-> Row(3, 2)] }

MCScope == { << codex, Unnamed >> }
=============================================================================
