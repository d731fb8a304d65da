--------------------------- MODULE MenubarInstances ---------------------------
(***************************************************************************)
(* The processes of the menubar on macOS: the helpers and the `oct menubar *)
(* ...` commands that look for running instances in the process table,     *)
(* stop them and start new ones (cmd/menubar.go, menubar_darwin.go,        *)
(* menubar_stop_darwin.go, menubar_launch_darwin.go,                       *)
(* menubar_daemon_darwin.go), launchd with the login item of               *)
(* loginitem_darwin.go, and the app's restart script (OctCLIService).  One *)
(* track of the two.                                                       *)
(***************************************************************************)
EXTENDS Integers, FiniteSets

CONSTANTS
    Procs,        \* the processes there may be at once
    MaxCommands,  \* bound on the commands run
    MaxLogins     \* bound on the logins after the first

ASSUME ProcsAssumption == IsFiniteSet(Procs)
ASSUME BoundsAssumption == MaxCommands \in Nat /\ MaxLogins \in Nat

VARIABLES
    helperInstalled, \* the Swift helper is where resolveMenubarHelperPath looks
    plist,           \* the login item is in ~/Library/LaunchAgents
    loaded,          \* launchd has loaded it
    proc,            \* the process table
    restart,         \* the latest restart: none, going, back or disturbed
    commands, logins

menubarVars == << helperInstalled, plist, loaded, proc, restart, commands, logins >>

\* kind: helper, legacy (the systray menubar) or the command's words; at: where
\* a command is, up for a menubar; owned: started by launchd; termed: a SIGTERM
\* is pending; targets: the instances a command stopped; alone: no other command
\* has begun since, and ps did not fail it; script: started by the app's restart.
Gone == [kind |-> "none", at |-> "none", child |-> FALSE, owned |-> FALSE,
         termed |-> FALSE, targets |-> {}, alone |-> FALSE, script |-> FALSE]

\* --foreground adds nothing to one of the others.
Flags == {"--daemon", "--daemon --legacy", "--foreground", "--legacy"}
Kinds == Flags \union {"bare", "enable", "disable", "status", "stop"}

Menubars == {q \in Procs : proc[q].kind \in {"helper", "legacy"}}
Free(q)  == proc[q].kind = "none"
\* Where a new process goes: which entry it takes makes no difference.
Fresh(q) == Free(q) /\ q = CHOOSE s \in Procs : Free(s)

\* isMenubarStopTarget: helpers, and every other `oct` with the word menubar
\* among its arguments, a settings window's `oct menubar daemon --json` too.
Instances(p) == {q \in Procs \ {p} : proc[q].kind \notin {"none", "stop"}}

Only(f) == proc' = f /\ UNCHANGED << helperInstalled, plist, loaded, commands, logins >>
At(p, at) == [proc EXCEPT ![p].at = at]
\* A process that is gone is waited for no more.
Without(ps) == [q \in Procs |-> IF q \in ps THEN Gone
                                ELSE [proc[q] EXCEPT !.targets = @ \ ps]]
End(p)    == Without({p})
\* q is started, and p goes on as r.
Spawned(p, r, q, kind, child) ==
    [proc EXCEPT ![p] = r,
                 ![q] = [Gone EXCEPT !.kind = kind, !.child = child,
                           !.alone = child /\ proc[p].alone,
                           !.at = IF child THEN "look" ELSE "up"]]

-----------------------------------------------------------------------------
Disturbed == restart' = IF restart = "going" THEN "disturbed" ELSE restart

Begin(p, r) ==
    /\ Fresh(p) /\ commands < MaxCommands
    /\ commands' = commands + 1
    /\ proc' = [q \in Procs |->
                  IF q = p THEN [r EXCEPT !.alone = \A s \in Procs \ {p} :
                                            Free(s) \/ s \in Menubars]
                  ELSE [proc[q] EXCEPT !.alone = FALSE]]
    /\ UNCHANGED << helperInstalled, plist, loaded, logins >>

Run(p, kind) ==
    /\ Begin(p, [Gone EXCEPT !.kind = kind, !.at = IF kind = "stop" THEN "stop" ELSE "look"])
    /\ Disturbed

\* restartHelperDetached: the shell's words hold "menubar stop", so it is no
\* target; the app ends whatever comes of it.
Restart(p) ==
    /\ \E h \in Menubars : proc[h].kind = "helper"
    /\ Begin(p, [Gone EXCEPT !.kind = "stop", !.at = "stop", !.script = TRUE])
    /\ restart' = IF proc'[p].alone THEN "going" ELSE "disturbed"

\* A menubar quits or crashes; a process ends of its SIGTERM, or hangs on.
Exit(q) ==
    /\ q \in Menubars \/ proc[q].termed
    /\ Only(End(q)) /\ UNCHANGED restart

-----------------------------------------------------------------------------
\* handleExistingMenubarInstance has to look, unless its parent has
\* (OCT_MENUBAR_CHILD).
HasToLook(p) == proc[p].at = "look" /\ proc[p].kind \in Flags /\ ~proc[p].child

EnablesItem(p) ==
    /\ proc[p].at = "look" /\ proc[p].kind \in {"bare", "enable"} /\ helperInstalled

\* menubarCmd: bare is the full setup when there is a helper.
Look(p) ==
    /\ proc[p].at = "look" /\ UNCHANGED restart
    /\ \/ /\ proc[p].kind = "bare" /\ ~helperInstalled
          /\ Only(At(p, "launch"))
       \/ /\ proc[p].kind \in Flags /\ (proc[p].child \/ Instances(p) = {})
          /\ Only(At(p, "launch"))
       \/ /\ HasToLook(p) /\ Instances(p) # {}
          /\ Only(At(p, "stop"))

\* findMenubarInstancePIDs when ps fails: on as if none ran, beside those that do.
LookBlind(p) ==
    /\ Instances(p) # {} /\ UNCHANGED restart
    /\ \/ HasToLook(p) /\ Only([proc EXCEPT ![p].at = "launch", ![p].alone = FALSE])
       \/ EnablesItem(p) /\ Only([proc EXCEPT ![p].at = "load", ![p].alone = FALSE])

\* The answer no, which only a terminal can give.
Declined(p) ==
    /\ HasToLook(p) /\ Instances(p) # {} /\ ~proc[p].script
    /\ Only(End(p)) /\ UNCHANGED restart

\* stopMenubarInstances.  The script sleeps and goes on with --daemon.
Termed(targets) ==
    [q \in Procs |-> [proc[q] EXCEPT !.termed = @ \/ q \in targets]]
Restarting(p) == proc[p].script /\ proc[p].kind = "stop"
GoesOnStarting(p) == [proc[p] EXCEPT !.kind = "--daemon", !.at = "look"]

Stop(p) ==
    /\ proc[p].at = "stop" /\ UNCHANGED restart
    /\ LET targets == Instances(p)
       IN Only([Termed(targets) EXCEPT ![p] =
            CASE Restarting(p) -> GoesOnStarting(p)
              [] ~proc[p].script /\ proc[p].kind = "stop" -> Gone
              [] proc[p].kind # "stop" ->
                   [proc[p] EXCEPT !.at = "wait", !.targets = targets]])

\* ps fails, or a SIGTERM is refused: the command ends and starts nothing, but
\* the script's shell goes on from its first command to its second.
StopFails(p) ==
    /\ proc[p].at = "stop"
    /\ \E signalled \in SUBSET Instances(p) :
          /\ signalled # Instances(p) \/ signalled = {}
          /\ Only([Termed(signalled) EXCEPT ![p] =
                     IF Restarting(p) THEN GoesOnStarting(p) ELSE Gone])
    /\ IF Restarting(p) THEN UNCHANGED restart ELSE Disturbed

\* Mutant: a straggler is left running after the three seconds.
WaitNoLonger(p) ==
    /\ proc[p].at = "wait" /\ UNCHANGED restart
    /\ Only([proc EXCEPT ![p].at = "launch", ![p].targets = {}])
\* Mutant: no time limit.
WaitForEver(p) ==
    /\ proc[p].at = "wait" /\ UNCHANGED restart
    /\ proc[p].targets = {}
    /\ Only(At(p, "launch"))
\* waitForMenubarExit: gone, or three seconds are over and they are killed.
WaitForExit(p) ==
    /\ proc[p].at = "wait" /\ UNCHANGED restart
    /\ Only([Without(proc[p].targets) EXCEPT ![p].at = "launch", ![p].targets = {}])

-----------------------------------------------------------------------------
Back(p) == restart' = IF proc[p].script /\ restart = "going" THEN "back" ELSE restart

\* startMenubarDetached: the helper, or without one oct itself again, as a
\* child.  --legacy wants no helper, and is handed on to the child.
LaunchDetached(p, q) ==
    /\ proc[p].at = "launch" /\ Fresh(q)
    /\ \/ /\ proc[p].kind \in {"bare", "--daemon"} /\ helperInstalled
          /\ Only(Spawned(p, Gone, q, "helper", FALSE)) /\ Back(p)
       \/ /\ proc[p].kind \in {"bare", "--daemon"} /\ ~helperInstalled
          /\ Only(Spawned(p, Gone, q, "bare", TRUE)) /\ UNCHANGED restart
       \/ /\ proc[p].kind = "--daemon --legacy"
          /\ Only(Spawned(p, Gone, q, "--legacy", TRUE)) /\ UNCHANGED restart

\* runMenubar: the helper, waited for until it shows, or the systray right here.
LaunchHere(p, q) ==
    /\ proc[p].at = "launch" /\ proc[p].kind = "--foreground" /\ helperInstalled /\ Fresh(q)
    /\ Only(Spawned(p, [proc[p] EXCEPT !.at = "ready", !.targets = {q}], q, "helper", FALSE))
    /\ UNCHANGED restart
RunLegacy(p) ==
    /\ proc[p].at = "launch" /\ UNCHANGED restart
    /\ proc[p].kind = "--legacy" \/ (proc[p].kind = "--foreground" /\ ~helperInstalled)
    /\ Only([proc EXCEPT ![p] = [Gone EXCEPT !.kind = "legacy", !.at = "up"]])

\* The helper shows, or after ten seconds it is killed.
Ready(p) ==
    /\ proc[p].at = "ready" /\ UNCHANGED restart
    /\ \/ Only(End(p))
       \/ Only(Without(proc[p].targets \union {p}))

LaunchFails(p) ==
    /\ proc[p].at = "launch" /\ proc[p].kind # "--legacy"
    /\ Only(End(p)) /\ Disturbed

-----------------------------------------------------------------------------
(* launchd and the login item (external: what it does on load and unload). *)

\* enableMenubarDaemon beside a running instance: the item is only written.
InstallLaunchItem(p) ==
    /\ EnablesItem(p) /\ Instances(p) # {}
    /\ plist' = TRUE /\ proc' = End(p)
    /\ UNCHANGED << helperInstalled, loaded, restart, commands, logins >>

NoneRunning(p) ==
    /\ EnablesItem(p) /\ Instances(p) = {}
    /\ Only(At(p, "load")) /\ UNCHANGED restart

\* Unloading stops what launchd runs of the item.
Unloaded == Without({q \in Procs : proc[q].owned})
Owned    == [Gone EXCEPT !.kind = "helper", !.at = "up", !.owned = TRUE]

\* The item is written, unloaded and loaded, which runs the helper at once.
EnableLaunchItem(p, q) ==
    /\ proc[p].at = "load" /\ Fresh(q)
    /\ plist' = TRUE
    /\ \/ loaded' = TRUE /\ proc' = [Unloaded EXCEPT ![p] = Gone, ![q] = Owned]
       \/ loaded' = FALSE /\ proc' = [Unloaded EXCEPT ![p] = Gone]
    /\ UNCHANGED << helperInstalled, restart, commands, logins >>

DisableLaunchItem(p) ==
    /\ proc[p].at = "look" /\ proc[p].kind = "disable"
    /\ plist' = FALSE /\ loaded' = FALSE
    /\ proc' = [Unloaded EXCEPT ![p] = Gone]
    /\ UNCHANGED << helperInstalled, restart, commands, logins >>

\* `daemon --json` prints; `daemon enable` without a helper is an error.
Ends(p) ==
    /\ proc[p].at = "look" /\ UNCHANGED restart
    /\ proc[p].kind = "status" \/ (proc[p].kind = "enable" /\ ~helperInstalled)
    /\ Only(End(p))

\* The user logs out and in again: launchd loads what is in LaunchAgents.
Login(q) ==
    /\ logins < MaxLogins /\ logins' = logins + 1
    /\ loaded' = plist
    /\ proc' = [p \in Procs |-> IF p = q /\ plist /\ helperInstalled THEN Owned ELSE Gone]
    /\ Disturbed
    /\ UNCHANGED << helperInstalled, plist, commands >>

-----------------------------------------------------------------------------
MenubarInit ==
    /\ helperInstalled \in BOOLEAN
    /\ plist = FALSE /\ loaded = FALSE
    /\ proc = [p \in Procs |-> Gone]
    /\ restart = "none" /\ commands = 0 /\ logins = 0

Starts(p, q) == LaunchDetached(p, q) \/ LaunchHere(p, q) \/ EnableLaunchItem(p, q)

Proceeds(p) ==
    \/ Look(p) \/ LookBlind(p) \/ Stop(p) \/ StopFails(p)
    \/ WaitForExit(p) \/ RunLegacy(p) \/ Ready(p) \/ LaunchFails(p)
    \/ InstallLaunchItem(p) \/ NoneRunning(p) \/ DisableLaunchItem(p) \/ Ends(p)
    \/ \E q \in Procs : Starts(p, q)

MenubarNext ==
    \E p \in Procs :
        \/ Proceeds(p) \/ Declined(p) \/ Exit(p) \/ Restart(p) \/ Login(p)
        \/ \E kind \in Kinds : Run(p, kind)

\* A command goes on: its waits are bounded.  A menubar owes nobody its end.
MenubarSpec == MenubarInit /\ [][MenubarNext]_menubarVars /\ \A p \in Procs : WF_menubarVars(Proceeds(p))

-----------------------------------------------------------------------------
Entries ==
    [kind : Kinds \union {"none", "helper", "legacy"},
     at : {"none", "up", "look", "stop", "wait", "launch", "ready", "load"},
     child : BOOLEAN, owned : BOOLEAN, termed : BOOLEAN, targets : SUBSET Procs,
     alone : BOOLEAN, script : BOOLEAN]

MenubarTypeOK ==
    /\ helperInstalled \in BOOLEAN /\ plist \in BOOLEAN /\ loaded \in BOOLEAN
    /\ proc \in [Procs -> Entries]
    /\ restart \in {"none", "going", "back", "disturbed"}
    /\ commands \in 0..MaxCommands /\ logins \in 0..MaxLogins

\* A step of a command that starts a menubar leaves exactly one running, when the
\* command met no other on its way and could read the process table: none stays
\* that ignored its SIGTERM, and none that launchd ran or runs of its item
\* (handleExistingMenubarInstance, EnableLaunchItem).
LoneStartLeavesOne ==
    [][ \A p \in Procs :
          /\ proc[p].alone /\ (RunLegacy(p) \/ \E q \in Procs : Starts(p, q))
          /\ ~(Menubars' \subseteq Menubars)
          => \E q \in Procs : Menubars' = {q} ]_menubarVars

\* The app's restart brings a helper back, even past one that hangs, unless
\* another command, a login or a failed stop or start comes between
\* (helperRestartScript; UsageViewModel.swift 128-131).
RestartComesBack == restart = "going" ~> restart \in {"back", "disturbed"}

\* "Without an installed Swift helper [...] the legacy detached menubar takes
\* over" (menubar_daemon_darwin.go 101-103), or the start fails.
LegacyTakesOver ==
    ~helperInstalled /\ (\E p \in Procs : proc[p].at = "launch")
    ~> \/ \E p \in Procs : proc[p].kind = "legacy"
       \/ \A p \in Procs : proc[p].at \notin {"look", "launch"}
=============================================================================
