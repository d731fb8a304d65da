---------------------------- MODULE ReleaseUpdates ----------------------------
(***************************************************************************)
(* The menubar app's release updates over the `oct update` processes of    *)
(* SelfUpdate: the monitor that polls for releases and may install them by *)
(* itself (ReleaseUpdateMonitor.swift), and the installer behind the       *)
(* update buttons (ReleaseUpdateInstaller.swift).  One session of the app, *)
(* of release 1.                                                           *)
(***************************************************************************)
EXTENDS SelfUpdate

CONSTANTS
    Checks,     \* the requests of checkNow that may be in flight at once
    MaxChecks,  \* bound on the requests sent
    MaxToggles  \* bound on the times a setting is changed

ASSUME ChecksAssumption == IsFiniteSet(Checks) /\ MaxChecks \in Nat /\ MaxToggles \in Nat

VARIABLES
    checksOn,    \* automaticallyChecksForUpdates
    installsOn,  \* automaticallyInstallUpdates
    available,   \* the tag of availableUpdate, 0 for none
    generation,  \* checkGeneration
    attempted,   \* autoAttemptedTags
    check,       \* the requests in flight
    isUpdating,  \* of the installer
    asking,      \* the alert of requestUpdate is up
    sent, toggles

monitorVars == << checksOn, installsOn, available, generation, attempted, check, sent, toggles >>
vars == << released, installed, temp, run, updates, monitorVars, isUpdating, asking >>

currentVersion == 1

\* tag: the newest release when the request was sent, 0 for no request; late:
\* the checks were turned off since.
NoCheck == [generation |-> 0, tag |-> 0, late |-> FALSE]
InFlight(c) == check[c].tag # 0

-----------------------------------------------------------------------------
(* ReleaseUpdateInstaller.                                                 *)

\* service.runSelfUpdate: `oct update --yes`, by the app.
LaunchUpdate(u) == Start(u, "app") /\ isUpdating' = TRUE

\* The alert's loop is modal: the user reaches nothing else of the app, but
\* answers to requests are still delivered.
RequestUpdate ==
    /\ available # 0 /\ ~isUpdating /\ ~asking
    /\ asking' = TRUE
    /\ UNCHANGED << updateVars, monitorVars, isUpdating >>

\* isUpdating is not looked at again after the alert.
AnswerAlert(u) ==
    /\ asking /\ asking' = FALSE
    /\ \/ LaunchUpdate(u)
       \/ UNCHANGED << run, updates, isUpdating >>
    /\ UNCHANGED << released, installed, temp, monitorVars >>

\* Mutant: a failed update keeps the flag.
UpdateAnsweredWell(u) ==
    /\ run[u].at = "ended"
    /\ isUpdating' = ~run[u].ok
    /\ run' = [run EXCEPT ![u] = Off]
    /\ UNCHANGED << released, installed, temp, updates, monitorVars, asking >>
\* performUpdate goes on: done or failed, the installer is free.
UpdateAnswered(u) ==
    /\ run[u].at = "ended"
    /\ isUpdating' = FALSE
    /\ run' = [run EXCEPT ![u] = Off]
    /\ UNCHANGED << released, installed, temp, updates, monitorVars, asking >>

-----------------------------------------------------------------------------
(* ReleaseUpdateMonitor.                                                   *)

shouldAttemptAutoInstall(tag) == tag # 0 /\ installsOn' /\ tag \notin attempted

\* requestAutomaticUpdate does nothing while an update runs; the tag is marked
\* all the same.
maybeAutoInstall(tag) ==
    IF shouldAttemptAutoInstall(tag)
    THEN /\ attempted' = attempted \union {tag}
         /\ IF isUpdating THEN UNCHANGED << run, updates, isUpdating >>
            ELSE \E u \in Updaters : LaunchUpdate(u)
    ELSE UNCHANGED << attempted, run, updates, isUpdating >>

\* By the timer, every five minutes, and when the checks are turned on.
CheckNow(c) ==
    /\ checksOn /\ ~InFlight(c) /\ sent < MaxChecks
    /\ sent' = sent + 1
    /\ check' = [check EXCEPT ![c] = [NoCheck EXCEPT !.tag = released, !.generation = generation]]
    /\ UNCHANGED << updateVars, checksOn, installsOn, available, generation, attempted,
                    toggles, isUpdating, asking >>

\* Errors and rate limits: what was known stays.
CheckFails(c) ==
    /\ InFlight(c)
    /\ check' = [check EXCEPT ![c] = NoCheck]
    /\ UNCHANGED << updateVars, checksOn, installsOn, available, generation, attempted,
                    sent, toggles, isUpdating, asking >>

updateIfNewer(tag) == IF tag > currentVersion THEN tag ELSE 0

\* Mutant: only the setting is looked at again.
IsWanted(c) == checksOn
\* The guard of checkNow after its await.
IsCurrent(c) == checksOn /\ check[c].generation = generation

\* The server answered with what was the newest at some time in between.
CheckAnswered(c) ==
    /\ InFlight(c)
    /\ check' = [check EXCEPT ![c] = NoCheck]
    /\ UNCHANGED << released, installed, temp, checksOn, installsOn, generation,
                    sent, toggles, asking >>
    /\ IF IsCurrent(c)
       THEN /\ \E tag \in check[c].tag..released : available' = updateIfNewer(tag)
            /\ maybeAutoInstall(available')
       ELSE UNCHANGED << available, attempted, run, updates, isUpdating >>

Toggle == ~asking /\ toggles < MaxToggles /\ toggles' = toggles + 1

\* Turned on, polling begins with a check at once: CheckNow.
setAutomaticallyChecksForUpdates ==
    /\ Toggle
    /\ checksOn' = ~checksOn
    /\ IF checksOn
       THEN /\ generation' = generation + 1 /\ available' = 0
            /\ check' = [c \in Checks |-> [check[c] EXCEPT !.late = InFlight(c)]]
       ELSE UNCHANGED << generation, available, check >>
    /\ UNCHANGED << updateVars, installsOn, attempted, sent, isUpdating, asking >>

setAutomaticallyInstallUpdates ==
    /\ Toggle
    /\ installsOn' = ~installsOn
    /\ maybeAutoInstall(available)
    /\ UNCHANGED << released, installed, temp, checksOn, available, generation, check,
                    sent, asking >>

-----------------------------------------------------------------------------
\* A session with the checks off begins when they are turned on.
Init ==
    /\ UpdateInit
    /\ checksOn = TRUE /\ installsOn \in BOOLEAN
    /\ available = 0 /\ generation = 0 /\ attempted = {}
    /\ check = [c \in Checks |-> NoCheck]
    /\ isUpdating = FALSE /\ asking = FALSE
    /\ sent = 0 /\ toggles = 0

Process(u) == UpdateStep(u) /\ UNCHANGED << monitorVars, isUpdating, asking >>

Next ==
    \/ Publish /\ UNCHANGED << monitorVars, isUpdating, asking >>
    \/ RequestUpdate
    \/ setAutomaticallyChecksForUpdates \/ setAutomaticallyInstallUpdates
    \/ \E u \in Updaters : Process(u) \/ AnswerAlert(u) \/ UpdateAnswered(u)
    \/ \E c \in Checks : CheckNow(c) \/ CheckFails(c) \/ CheckAnswered(c)

\* The service kills an update after twelve minutes, and its answer is
\* delivered; the user owes the app nothing, nor does the network.
Watchdog(u) == run[u].by = "app" /\ Killed(u)
Fairness == \A u \in Updaters :
    /\ WF_vars(Watchdog(u) /\ UNCHANGED << monitorVars, isUpdating, asking >>)
    /\ WF_vars(UpdateAnswered(u))

Spec == Init /\ [][Next]_vars /\ Fairness

-----------------------------------------------------------------------------
TypeOK ==
    /\ UpdateTypeOK
    /\ checksOn \in BOOLEAN /\ installsOn \in BOOLEAN
    /\ isUpdating \in BOOLEAN /\ asking \in BOOLEAN
    /\ available \in 0..MaxRelease /\ attempted \subseteq 1..MaxRelease
    /\ generation \in Nat /\ sent \in 0..MaxChecks /\ toggles \in 0..MaxToggles
    /\ check \in [Checks -> [generation : Nat, tag : 0..MaxRelease, late : BOOLEAN]]

\* An answer to a request sent before the checks were turned off shows nothing
\* and starts nothing, even when they are on again by then (checkNow 181).
LateAnswersAreDropped ==
    [][ \A c \in Checks :
          CheckAnswered(c) /\ check[c].late => UNCHANGED << available, run >> ]_vars

\* However an update ends - done, failed, killed after twelve minutes - the
\* installer is free again: no button stays on "updating" (performUpdate).
UpdatingEnds == isUpdating ~> ~isUpdating
=============================================================================
