----------------------------- MODULE UpdateSlots -----------------------------
(***************************************************************************)
(* What the update runs of the menu bar app promise: a provider is changed *)
(* only by the one run that holds its slot, and the run of all enabled     *)
(* providers holds its slots alone.  The one exception is named: the       *)
(* installer of a killed `oct` may still finish its provider.              *)
(***************************************************************************)
EXTENDS Naturals

CONSTANTS Tools, Runs

VARIABLES
    holders,    \* of each provider: the runs that hold its slot
    sweeping,   \* the run of all enabled providers, a set of at most one
    version,    \* of each provider: the version on disk, 0 for none
    strays      \* providers a killed run may still be installing

vars == << holders, sweeping, version, strays >>

Init ==
    /\ holders = [t \in Tools |-> {}]
    /\ sweeping = {}
    /\ version \in [Tools -> Nat]
    /\ strays = {}

\* A row's run takes its provider's slot beside other rows' runs.
ClaimRow(r, t) ==
    /\ sweeping = {}
    /\ holders[t] = {}
    /\ holders' = [holders EXCEPT ![t] = {r}]
    /\ UNCHANGED << sweeping, version, strays >>

\* The run of all enabled providers takes their slots when nothing is held.
ClaimAll(r, ts) ==
    /\ sweeping = {}
    /\ \A t \in Tools : holders[t] = {}
    /\ holders' = [t \in Tools |-> IF t \in ts THEN {r} ELSE {}]
    /\ sweeping' = {r}
    /\ UNCHANGED << version, strays >>

Install(t) ==
    /\ holders[t] # {} \/ t \in strays
    /\ version' \in [Tools -> Nat]
    /\ \A u \in Tools \ {t} : version'[u] = version[u]
    /\ strays' \in {strays, strays \ {t}}
    /\ UNCHANGED << holders, sweeping >>

\* A run is killed in the middle of an installer, or a stray one ends.
Stray(t) ==
    /\ \/ holders[t] # {} /\ strays' = strays \union {t}
       \/ strays' = strays \ {t}
    /\ UNCHANGED << holders, sweeping, version >>

Release(r) ==
    /\ holders' = [t \in Tools |-> holders[t] \ {r}]
    /\ sweeping' = sweeping \ {r}
    /\ UNCHANGED << version, strays >>

Next ==
    \/ \E r \in Runs, t \in Tools : ClaimRow(r, t)
    \/ \E r \in Runs, ts \in (SUBSET Tools) \ {{}} : ClaimAll(r, ts)
    \/ \E t \in Tools : Install(t)
    \/ \E t \in Tools : Stray(t)
    \/ \E r \in Runs : Release(r)

Spec == Init /\ [][Next]_vars
=============================================================================
