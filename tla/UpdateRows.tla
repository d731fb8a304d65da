----------------------------- MODULE UpdateRows -----------------------------
(***************************************************************************)
(* The update runs of the settings window (ConfigurationStore.swift) over  *)
(* the `oct agent-update --json` processes it starts                       *)
(* (OctCLIService.swift).  One run may update every enabled provider, or   *)
(* runs of single rows may go in parallel; the chip of each row follows    *)
(* the events; the window may close and open again while a run goes on.    *)
(***************************************************************************)
EXTENDS AgentUpdate

CONSTANTS
    MaxStarts,   \* bound on the runs started
    MaxOpens     \* bound on the times the window opens

ASSUME BoundAssumption == MaxStarts \in Nat /\ MaxOpens \in Nat

VARIABLES
    open,               \* the settings window is on screen
    toolUpdateStates,   \* of each provider: its chip, "none" for no state
    isAgentUpdating,    \* a run of all enabled providers is in flight
    singleUpdates,      \* singleUpdateBinaries
    flight,             \* of each run: the locals of runProviderUpdate
    failureReport,      \* providers of the alert, {} for no alert
    outdated,           \* providers whose versionChecks entry says outdated
    isCheckingVersions,
    opening,            \* onAppear's task has not reached the check yet
    starts, opens       \* runs started and windows opened, for the bounds

uiVars == << open, toolUpdateStates, isAgentUpdating, singleUpdates, flight,
             failureReport, outdated, isCheckingVersions, opening, starts, opens >>
vars == << procVars, uiVars >>

\* `watched` is history: the window was open since the run began.
NoFlight == [on |-> FALSE, all |-> FALSE, tools |-> {}, sawRunDone |-> FALSE,
             failures |-> {}, threw |-> FALSE, watched |-> FALSE]

Init ==
    /\ ProcInit
    /\ open = FALSE
    /\ toolUpdateStates = [t \in Tools |-> "none"]
    /\ isAgentUpdating = FALSE
    /\ singleUpdates = {}
    /\ flight = [r \in Runs |-> NoFlight]
    /\ failureReport = {}
    /\ outdated = {}
    /\ isCheckingVersions = FALSE
    /\ opening = FALSE
    /\ starts = 0 /\ opens = 0

-----------------------------------------------------------------------------
(* Starting a run.  The guards and the flags are one step of the main      *)
(* actor: nothing is awaited between them.                                 *)

TakeOff(r, all, ts) ==
    /\ starts < MaxStarts /\ starts' = starts + 1
    /\ flight' = [flight EXCEPT ![r] =
        [NoFlight EXCEPT !.on = TRUE, !.all = all, !.tools = ts, !.watched = TRUE]]

\* The button below the rows, with the enabled providers of the draft.
RunAll(r, ts, installMissing) ==
    /\ open /\ ~flight[r].on
    /\ ~isAgentUpdating /\ singleUpdates = {}
    /\ isAgentUpdating' = TRUE
    /\ toolUpdateStates' = [t \in Tools |-> IF t \in ts THEN "updating" ELSE "none"]
    /\ TakeOff(r, TRUE, ts)
    /\ Spawn(r, ts, installMissing)
    /\ UNCHANGED << installed, pipe, strays, probe, open, singleUpdates,
                    failureReport, outdated, isCheckingVersions, opening, opens >>

\* isProviderUpdateOffered: the row shows its update button.
Offered(t) == open /\ toolUpdateStates[t] = "none" /\ t \in outdated

\* Mutant: a row is not asked whether a run of its own is in flight.
RunRowAgain(r, t) ==
    /\ Offered(t) /\ ~flight[r].on
    /\ ~isAgentUpdating
    /\ singleUpdates' = singleUpdates \union {t}
    /\ toolUpdateStates' = [toolUpdateStates EXCEPT ![t] = "updating"]
    /\ TakeOff(r, FALSE, {t})
    /\ Spawn(r, {t}, FALSE)
    /\ UNCHANGED << installed, pipe, strays, probe, open, isAgentUpdating,
                    failureReport, outdated, isCheckingVersions, opening, opens >>

RunRow(r, t) ==
    /\ Offered(t) /\ ~flight[r].on
    /\ ~isAgentUpdating /\ t \notin singleUpdates
    /\ singleUpdates' = singleUpdates \union {t}
    /\ toolUpdateStates' = [toolUpdateStates EXCEPT ![t] = "updating"]
    /\ TakeOff(r, FALSE, {t})
    /\ Spawn(r, {t}, FALSE)
    /\ UNCHANGED << installed, pipe, strays, probe, open, isAgentUpdating,
                    failureReport, outdated, isCheckingVersions, opening, opens >>

\* runEventStream throws before or at process.run().
LaunchFails(r) ==
    /\ flight[r].on /\ child[r].at = "detect"
    /\ child' = [child EXCEPT ![r] = Ended(r)]
    /\ flight' = [flight EXCEPT ![r].threw = TRUE]
    /\ UNCHANGED << installed, pipe, strays, probe, open, toolUpdateStates,
                    isAgentUpdating, singleUpdates, failureReport, outdated,
                    isCheckingVersions, opening, starts, opens >>

\* Mutant: the watchdog guards the launch and not the run.
WatchdogOfLaunch(r) ==
    /\ flight[r].on /\ ~flight[r].threw /\ child[r].at = "detect"
    /\ flight' = [flight EXCEPT ![r].threw = TRUE]
    /\ Kill(r)
    /\ UNCHANGED << installed, pipe, probe, open, toolUpdateStates,
                    isAgentUpdating, singleUpdates, failureReport, outdated,
                    isCheckingVersions, opening, starts, opens >>

\* The watchdog of runEventStream (agentUpdateTimeout).
Watchdog(r) ==
    /\ flight[r].on /\ ~flight[r].threw
    /\ flight' = [flight EXCEPT ![r].threw = TRUE]
    /\ IF Running(r) THEN Kill(r) ELSE UNCHANGED << child, strays >>
    /\ UNCHANGED << installed, pipe, probe, open, toolUpdateStates,
                    isAgentUpdating, singleUpdates, failureReport, outdated,
                    isCheckingVersions, opening, starts, opens >>

-----------------------------------------------------------------------------
(* The events of a run, in the order of its pipe.                          *)

\* Mutant: a provider the run passed over is no failure.
ChipOfSkip(status) ==
    CASE status = "updated" -> "updated"
      [] status = "up_to_date" -> "upToDate"
      [] status = "failed" -> "failed"
      [] status = "npm_missing" -> "npmMissing"
      [] OTHER -> "none"

Chip(status) ==
    CASE status = "updated" -> "updated"
      [] status = "up_to_date" -> "upToDate"
      [] status \in {"failed", "skipped"} -> "failed"
      [] status = "npm_missing" -> "npmMissing"
      [] OTHER -> "none"

\* An event about a row without a state is dropped: the window has closed.
ApplyToolDone(r, t, status) ==
    IF toolUpdateStates[t] = "none"
    THEN UNCHANGED << toolUpdateStates, flight, outdated >>
    ELSE /\ toolUpdateStates' = [toolUpdateStates EXCEPT ![t] = Chip(status)]
         /\ flight' = [flight EXCEPT ![r].failures =
                IF Chip(status) = "failed" THEN @ \union {t} ELSE @]
         /\ outdated' = IF status \in {"updated", "up_to_date"}
                        THEN outdated \ {t} ELSE outdated

ApplyEvent(r, e) ==
    \/ e.event = "tool_done" /\ ApplyToolDone(r, e.tool, e.status)
    \/ /\ e.event = "run_done"
       /\ flight' = [flight EXCEPT ![r].sawRunDone = TRUE]
       /\ UNCHANGED << toolUpdateStates, outdated >>

TakeEvent(r) ==
    /\ flight[r].on /\ pipe[r] # << >>
    /\ pipe' = [pipe EXCEPT ![r] = Tail(@)]
    /\ ApplyEvent(r, Head(pipe[r]))
    /\ UNCHANGED << installed, child, strays, probe, open, isAgentUpdating,
                    singleUpdates, failureReport, isCheckingVersions, opening,
                    starts, opens >>

-----------------------------------------------------------------------------
(* The end of a run: its process is gone and its events are drained.       *)

\* Mutant: only a run that reported its end resets its rows.
ResetChipsOfDone(r) ==
    toolUpdateStates' = [t \in Tools |->
        IF flight[r].sawRunDone /\ t \in flight[r].tools
              /\ toolUpdateStates[t] = "updating"
        THEN "none" ELSE toolUpdateStates[t]]

\* Rows the run never reached must not stay on "Updating...".
ResetChips(r) ==
    toolUpdateStates' = [t \in Tools |->
        IF t \in flight[r].tools /\ toolUpdateStates[t] = "updating"
        THEN "none" ELSE toolUpdateStates[t]]

EndRunFlight(r) ==
    IF flight[r].all
    THEN isAgentUpdating' = FALSE /\ UNCHANGED singleUpdates
    ELSE singleUpdates' = singleUpdates \ flight[r].tools /\ UNCHANGED isAgentUpdating

Land(r) ==
    /\ flight[r].on /\ child[r].at = "gone" /\ pipe[r] = << >>
    /\ ResetChips(r)
    /\ EndRunFlight(r)
    /\ flight' = [flight EXCEPT ![r] = NoFlight]
    /\ child' = [child EXCEPT ![r] = Idle]
    /\ UNCHANGED << installed, pipe, strays, probe, open, outdated,
                    isCheckingVersions, opening, starts, opens >>

FinalizeAgentUpdate(r) ==
    /\ ~flight[r].threw
    /\ Land(r)
    /\ failureReport' = IF flight[r].sawRunDone /\ flight[r].failures # {}
                        THEN flight[r].failures ELSE failureReport

RunThrew(r) ==
    /\ flight[r].threw
    /\ Land(r)
    /\ UNCHANGED failureReport

-----------------------------------------------------------------------------
(* The window and its version check.                                       *)

\* onAppear: the check follows the load of the draft, which may take a while.
OpenWindow ==
    /\ ~open
    /\ opens < MaxOpens /\ opens' = opens + 1
    /\ open' = TRUE
    /\ opening' = TRUE
    /\ UNCHANGED << procVars, toolUpdateStates, isAgentUpdating, singleUpdates,
                    flight, failureReport, outdated, isCheckingVersions,
                    starts >>

CheckAgentVersions ==
    /\ opening
    /\ opening' = FALSE
    /\ IF ~isAgentUpdating /\ singleUpdates = {} /\ ~isCheckingVersions
       THEN /\ isCheckingVersions' = TRUE
            /\ probe' = [NoProbe EXCEPT !.at = "reading"]
       ELSE UNCHANGED << isCheckingVersions, probe >>
    /\ UNCHANGED << installed, child, pipe, strays, open, toolUpdateStates,
                    isAgentUpdating, singleUpdates, flight, failureReport, outdated,
                    starts, opens >>

\* A tool_check event is published as it comes, before the check has ended.
TakeCheckEvent ==
    /\ \E t \in probe.left :
          /\ outdated' = IF t \in probe.behind THEN outdated \union {t}
                                              ELSE outdated \ {t}
          /\ probe' = [probe EXCEPT !.left = @ \ {t}, !.behind = @ \ {t}]
    /\ UNCHANGED << installed, child, pipe, strays, open, toolUpdateStates,
                    isAgentUpdating, singleUpdates, flight, failureReport,
                    isCheckingVersions, opening, starts, opens >>

\* A check that does not reach check_done drops all that was known.
EndCheck ==
    /\ probe.at # "off"
    /\ \/ probe.at = "writing" /\ probe.left = {} /\ UNCHANGED outdated
       \/ outdated' = {}
    /\ probe' = NoProbe
    /\ isCheckingVersions' = FALSE
    /\ UNCHANGED << installed, child, pipe, strays, open, toolUpdateStates,
                    isAgentUpdating, singleUpdates, flight, failureReport, opening,
                    starts, opens >>

\* settingsWindowDidClose: the store and its runs outlive the window.
CloseWindow ==
    /\ open
    /\ open' = FALSE
    /\ toolUpdateStates' = [t \in Tools |-> "none"]
    /\ failureReport' = {}
    /\ flight' = [r \in Runs |-> [flight[r] EXCEPT !.watched = FALSE]]
    /\ UNCHANGED << procVars, isAgentUpdating, singleUpdates, outdated,
                    isCheckingVersions, opening, starts, opens >>

DismissFailureReport ==
    /\ open /\ failureReport # {}
    /\ failureReport' = {}
    /\ UNCHANGED << procVars, open, toolUpdateStates, isAgentUpdating,
                    singleUpdates, flight, outdated, isCheckingVersions, opening,
                    starts, opens >>

-----------------------------------------------------------------------------
Process == (\E r \in Runs : ProcNext(r)) \/ StrayEnds \/ CollectLatestVersions

Next ==
    \/ Process /\ UNCHANGED uiVars
    \/ \E r \in Runs, ts \in (SUBSET Tools) \ {{}}, m \in BOOLEAN : RunAll(r, ts, m)
    \/ \E r \in Runs, t \in Tools : RunRow(r, t)
    \/ \E r \in Runs : LaunchFails(r)
    \/ \E r \in Runs : Watchdog(r)
    \/ \E r \in Runs : TakeEvent(r)
    \/ \E r \in Runs : FinalizeAgentUpdate(r)
    \/ \E r \in Runs : RunThrew(r)
    \/ OpenWindow \/ CheckAgentVersions \/ TakeCheckEvent \/ EndCheck
    \/ CloseWindow \/ DismissFailureReport

\* The watchdog always fires, and the main actor always comes to the events
\* and to the end of a run.  Nothing is asked of `oct` or of an installer.
Fairness == \A r \in Runs :
    /\ WF_vars(Watchdog(r))
    /\ WF_vars(TakeEvent(r))
    /\ WF_vars(FinalizeAgentUpdate(r))
    /\ WF_vars(RunThrew(r))

Spec == Init /\ [][Next]_vars /\ Fairness

-----------------------------------------------------------------------------
Flights == [on : BOOLEAN, all : BOOLEAN, tools : SUBSET Tools,
            sawRunDone : BOOLEAN, failures : SUBSET Tools,
            threw : BOOLEAN, watched : BOOLEAN]
Chips == {"none", "updating", "updated", "upToDate", "failed", "npmMissing"}

\* Every variable holds a value of its kind.
TypeOK ==
    /\ ProcTypeOK
    /\ open \in BOOLEAN /\ isAgentUpdating \in BOOLEAN
    /\ isCheckingVersions \in BOOLEAN /\ opening \in BOOLEAN
    /\ toolUpdateStates \in [Tools -> Chips]
    /\ singleUpdates \in SUBSET Tools /\ outdated \in SUBSET Tools
    /\ failureReport \in SUBSET Tools
    /\ flight \in [Runs -> Flights]
    /\ starts \in 0..MaxStarts /\ opens \in 0..MaxOpens

\* A row is held - its chip spins, or a flag blocks another run of it - only
\* while a run that owns the row is in flight: after every way a run can end
\* (done, aborted, killed, never started) and whatever the window did
\* meanwhile, nothing is left behind (ConfigurationStore.swift 357-381).
Held(t) == isAgentUpdating \/ t \in singleUpdates \/ toolUpdateStates[t] = "updating"
Owned(t) == \E r \in Runs : flight[r].on /\ (flight[r].all \/ t \in flight[r].tools)
HeldRowsAreOwned == \A t \in Tools : Held(t) => Owned(t)

\* When a run reports its end and its window was open all along, each
\* provider `oct` counted as failed is in the alert, or its row names the
\* missing npm (update.go failureCount against failures of the store).
FailuresAreReported == [][ \A r \in Runs :
    FinalizeAgentUpdate(r) /\ flight[r].watched /\ flight[r].sawRunDone =>
        \A t \in child[r].failed :
            t \in failureReport' \/ toolUpdateStates'[t] = "npmMissing" ]_vars

\* Whatever `oct` does, a row that is held is free again some time.
RowsSettle == \A t \in Tools : Held(t) ~> ~Held(t)

\* The store and its processes implement the slots: one run per provider, a
\* run of all of them only alone, and no provider changed outside its slot
\* except by a stray installer (runAgentUpdateNow, the guards at 252 and 260).
Slots == INSTANCE UpdateSlots WITH
    holders <- [t \in Tools |-> {r \in Runs : flight[r].on /\ t \in flight[r].tools}],
    sweeping <- {r \in Runs : flight[r].on /\ flight[r].all},
    version <- installed
SlotsAreKept == Slots!Spec
=============================================================================
