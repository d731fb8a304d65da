---------------------------- MODULE ScheduleSave ----------------------------
(***************************************************************************)
(* Scheduled tasks (internal/schedule) and the commands that change them:  *)
(* `oct config update` (cmd/config_api.go), `oct schedule config`,         *)
(* `oct schedule enable` and `oct schedule disable` (cmd/schedule.go).     *)
(* The platform scheduler is a store of its own beside the config file.    *)
(* Each of its commands may fail, and several oct processes may use it.    *)
(***************************************************************************)
EXTENDS Integers, FiniteSets

CONSTANTS
    Proc, NoProc,
    Platform,      \* platforms to check, among "darwin", "linux", "windows"
    Task,          \* agent-update and session-refresh
    AgentUpdate, SessionRefresh,
    Interval,      \* what ParseInterval returns
    HourInterval,  \* those with an hour of the day (IntervalUsesHour)
    Unknown,       \* the empty interval: not recoverable from the platform
    Bad,           \* an interval text that does not parse
    Hour,
    MaxRuns        \* bound on the commands of all processes together

ASSUME NameAssumption ==
    /\ NoProc \notin Proc
    /\ Platform \subseteq {"darwin", "linux", "windows"}
    /\ AgentUpdate \in Task /\ SessionRefresh \in Task
    /\ HourInterval \subseteq Interval
    /\ Unknown \notin Interval /\ Bad \notin Interval \cup {Unknown}
ASSUME NumberAssumption == Hour \subseteq 0 .. 23 /\ Hour # {} /\ MaxRuns \in Nat

\* CurrentSchedule: what Enable wrote, as far as Describe can read it back.
Off == [enabled |-> FALSE, interval |-> Unknown, hour |-> 0]
Odd == [enabled |-> TRUE, interval |-> Unknown, hour |-> 0]
Stored(i, h) == [enabled |-> TRUE, interval |-> i,
                 hour |-> IF i \in HourInterval THEN h ELSE 0]
Schedule == {Off, Odd} \cup {Stored(i, h) : i \in Interval, h \in Hour}

\* What a command may ask for; the rest of a wish to disable is not looked at.
NoWish == [enabled |-> FALSE, interval |-> Unknown, hour |-> 0]
Wish == {NoWish} \cup
        [enabled : {TRUE}, interval : Interval \cup {Unknown, Bad}, hour : Hour]

VARIABLES
    platform,
    entry,     \* the persisted entry of each task: plist, crontab line, task
    loaded,    \* launchd runs the task (darwin)
    foreign,   \* the user has crontab lines of his own (linux)
    cronLock,  \* holder of the crontab lock
    pc, job,   \* where each command stands, and what it does
    table,     \* the crontab a process has listed
    runs,
    \* History, not kept by the program.
    clean,     \* no scheduler command of its own failed, nobody interfered
    outcome    \* how the command that ended last came out

vars == << platform, entry, loaded, foreign, cronLock, pc, job, table, runs, clean, outcome >>

NoJob == [op |-> "none", task |-> AgentUpdate, wish |-> NoWish, prev |-> Off,
          to |-> NoWish, next |-> "done"]
NoTable == [lines |-> [t \in Task |-> Off], foreign |-> FALSE]

Init ==
    /\ platform \in Platform
    /\ entry \in [Task -> Schedule]
    /\ loaded = [t \in Task |-> platform = "darwin" /\ entry[t].enabled]
    /\ foreign \in IF platform = "linux" THEN BOOLEAN ELSE {FALSE}
    /\ cronLock = NoProc
    /\ pc = [p \in Proc |-> "idle"]
    /\ job = [p \in Proc |-> NoJob]
    /\ table = [p \in Proc |-> NoTable]
    /\ runs = 0
    /\ clean = [p \in Proc |-> TRUE]
    /\ outcome = "none"

Scheduler == << entry, loaded, foreign >>

Goto(p, label) == pc' = [pc EXCEPT ![p] = label]

\* The command is over; a held crontab lock goes with the process.
End(p, how) ==
    /\ Goto(p, "idle")
    /\ job' = [job EXCEPT ![p] = NoJob]
    /\ table' = [table EXCEPT ![p] = NoTable]
    /\ cronLock' = IF cronLock = p THEN NoProc ELSE cronLock
    /\ outcome' = how

Own(p, ok) == clean' = [clean EXCEPT ![p] = @ /\ ok]

\* A change by p is interference for every other command under way on the same
\* task, and a failure of p's own is noted.
Changed(p, ok) ==
    clean' = [q \in Proc |-> clean[q] /\ IF q = p THEN ok ELSE job[q].task # job[p].task]

-----------------------------------------------------------------------------
(* The commands up to their first use of the scheduler.                    *)

Begin(p, j, label) ==
    /\ pc[p] = "idle" /\ runs < MaxRuns
    /\ runs' = runs + 1
    /\ job' = [job EXCEPT ![p] = j]
    /\ clean' = [clean EXCEPT ![p] = TRUE]
    /\ Goto(p, label)
    /\ UNCHANGED << platform, entry, loaded, foreign, cronLock, table, outcome >>

ConfigUpdate(p) ==
    \E w \in Wish :
        Begin(p, [NoJob EXCEPT !.op = "update", !.wish = w, !.next = "save"], "describe")

ScheduleConfig(p) ==
    \E w \in Wish, op \in {"config", "configkeep"} :
        /\ w.enabled => w.interval \in Interval
        /\ Begin(p, [NoJob EXCEPT !.op = op, !.task = SessionRefresh, !.wish = w,
                                  !.next = "save"], "describe")

ScheduleEnable(p) ==
    \E t \in Task, w \in Wish :
        /\ w.enabled /\ w.interval \in Interval
        /\ Begin(p, [NoJob EXCEPT !.op = "cli", !.task = t, !.to = w], "call")

ScheduleDisable(p) ==
    \E t \in Task : Begin(p, [NoJob EXCEPT !.op = "cli", !.task = t], "call")

\* Describe.  Windows tells only whether the task is there, and a query that
\* fails there reads as "not there"; elsewhere it is an error.
Seen(t) == IF platform = "windows" /\ entry[t].enabled THEN Odd ELSE entry[t]

Described(t, ok) == IF ok THEN Seen(t) ELSE Off

DescribeFails(p) ==
    /\ pc[p] \in {"describe", "apply"} /\ platform # "windows"
    /\ Own(p, FALSE)
    /\ End(p, "error")
    /\ UNCHANGED << platform, Scheduler, runs >>

\* applyConfigUpdateAndSave refuses to change an entry it could not restore.
Refused(d, w) ==
    d.enabled /\ d.interval = Unknown /\ (~w.enabled \/ w.interval # Unknown)

UpdateDescribe(p) ==
    \E ok \in BOOLEAN :
        LET d == Described(job[p].task, ok) IN
        /\ pc[p] = "describe" /\ job[p].op = "update"
        /\ ok \/ platform = "windows"
        /\ Own(p, ok)
        /\ IF Refused(d, job[p].wish)
           THEN End(p, "error")
           ELSE /\ Goto(p, "apply")
                /\ job' = [job EXCEPT ![p].prev = d]
                /\ UNCHANGED << cronLock, table, outcome >>
        /\ UNCHANGED << platform, Scheduler, runs >>

\* Mutant: an enabled schedule is always written again.
MatchesOff(d, w) == ~d.enabled /\ ~w.enabled

\* applyAgentUpdateScheduleUpdate: an update that matches is left alone.
Matches(d, w) ==
    \/ ~w.enabled /\ ~d.enabled
    \/ w.enabled /\ w.interval = Unknown /\ d.enabled
    \/ /\ w.enabled /\ w.interval \in Interval
       /\ d.enabled /\ d.interval = w.interval
       /\ w.interval \in HourInterval => d.hour = w.hour

UpdateApply(p) ==
    \E ok \in BOOLEAN :
        LET d == Described(job[p].task, ok)
            w == job[p].wish
        IN
        /\ pc[p] = "apply"
        /\ ok \/ platform = "windows"
        /\ Own(p, ok)
        /\ \/ /\ Matches(d, w)
              /\ Goto(p, "save")
              /\ UNCHANGED << job, cronLock, table, outcome >>
           \/ /\ ~Matches(d, w) /\ (w.enabled => w.interval \in Interval)
              /\ Goto(p, "call")
              /\ job' = [job EXCEPT ![p].to = w]
              /\ UNCHANGED << cronLock, table, outcome >>
           \/ /\ ~Matches(d, w) /\ w.enabled /\ w.interval \notin Interval
              /\ End(p, "error")
        /\ UNCHANGED << platform, Scheduler, runs >>

\* `oct schedule config`: enabled on request, or because the task or the
\* saved config is; disabled only on request; otherwise only saved.
ConfigDescribe(p) ==
    \E ok \in BOOLEAN :
        LET d == Described(job[p].task, ok) IN
        /\ pc[p] = "describe" /\ job[p].op # "update"
        /\ ok \/ platform = "windows"
        /\ Own(p, ok)
        /\ job' = [job EXCEPT ![p].prev = d, ![p].to = job[p].wish]
        /\ Goto(p, IF job[p].op = "configkeep" THEN "save" ELSE "call")
        /\ UNCHANGED << platform, Scheduler, cronLock, table, runs, outcome >>

-----------------------------------------------------------------------------
(* Scheduler.Enable and Scheduler.Disable on each platform.                *)

\* The scheduler call has returned without an error.
Returned(p) ==
    IF job[p].next = "save"
    THEN /\ Goto(p, "save")
         /\ table' = [table EXCEPT ![p] = NoTable]
         /\ cronLock' = IF cronLock = p THEN NoProc ELSE cronLock
         /\ UNCHANGED << job, outcome >>
    ELSE End(p, IF job[p].next = "done" THEN "ok" ELSE "savefailed")

\* It has returned an error, which ends the command.
Failed(p) == End(p, IF job[p].next = "restored" THEN "notrestored" ELSE "error")

Valid(to) == ~to.enabled \/ to.interval \in Interval

Target(to) == IF to.enabled THEN Stored(to.interval, to.hour) ELSE Off

\* validateScheduleTiming.
InvalidTiming(p) ==
    /\ pc[p] = "call" /\ ~Valid(job[p].to)
    /\ Failed(p)
    /\ UNCHANGED << platform, Scheduler, runs, clean >>

Calls(p, os) == pc[p] = "call" /\ Valid(job[p].to) /\ platform = os

\* Mutant: the crontab is edited without excluding the other processes.
LockCrontabShared(p) ==
    /\ Calls(p, "linux")
    /\ cronLock' = p
    /\ Goto(p, "list")
    /\ UNCHANGED << platform, Scheduler, job, table, runs, clean, outcome >>

\* Linux: the crontab is listed, edited and written back under a lock.
LockCrontab(p) ==
    /\ Calls(p, "linux") /\ cronLock = NoProc
    /\ cronLock' = p
    /\ Goto(p, "list")
    /\ UNCHANGED << platform, Scheduler, job, table, runs, clean, outcome >>

ListCrontab(p) ==
    /\ pc[p] = "list"
    /\ table' = [table EXCEPT ![p] = [lines |-> entry, foreign |-> foreign]]
    /\ Goto(p, "write")
    /\ UNCHANGED << platform, Scheduler, cronLock, job, runs, clean, outcome >>

\* `crontab -l` fails: Enable gives up, Disable takes it for nothing to do.
ListFails(p) ==
    /\ pc[p] = "list"
    /\ Own(p, FALSE)
    /\ IF job[p].to.enabled THEN Failed(p) ELSE Returned(p)
    /\ UNCHANGED << platform, Scheduler, runs >>

WriteCrontab(p) ==
    /\ pc[p] = "write"
    /\ entry' = [table[p].lines EXCEPT ![job[p].task] = Target(job[p].to)]
    /\ foreign' = table[p].foreign
    /\ Changed(p, TRUE)
    /\ Returned(p)
    /\ UNCHANGED << platform, loaded, runs >>

WriteCrontabFails(p) ==
    /\ pc[p] = "write"
    /\ Own(p, FALSE)
    /\ Failed(p)
    /\ UNCHANGED << platform, Scheduler, runs >>

\* macOS: the plist is written, then launchctl unloads and loads it.
WritePlist(p) ==
    /\ Calls(p, "darwin") /\ job[p].to.enabled
    /\ \/ /\ entry' = [entry EXCEPT ![job[p].task] = Target(job[p].to)]
          /\ Goto(p, "load")
          /\ Changed(p, TRUE)
          /\ UNCHANGED << loaded, job, cronLock, table, outcome >>
       \/ /\ Own(p, FALSE)
          /\ Failed(p)
          /\ UNCHANGED << entry, loaded >>
    /\ UNCHANGED << platform, foreign, runs >>

LoadPlist(p) ==
    /\ pc[p] = "load"
    /\ \E ok \in BOOLEAN :
          /\ loaded' = [loaded EXCEPT ![job[p].task] = ok]
          /\ Changed(p, ok)
          /\ IF ok THEN Returned(p) ELSE Failed(p)
    /\ UNCHANGED << platform, entry, foreign, runs >>

RemovePlist(p) ==
    /\ Calls(p, "darwin") /\ ~job[p].to.enabled
    /\ loaded' = [loaded EXCEPT ![job[p].task] = FALSE]
    /\ \/ /\ entry' = [entry EXCEPT ![job[p].task] = Off]
          /\ Changed(p, TRUE)
          /\ Returned(p)
       \/ /\ UNCHANGED entry
          /\ Changed(p, FALSE)
          /\ Failed(p)
    /\ UNCHANGED << platform, foreign, runs >>

\* Windows: schtasks deletes the task and creates it anew.
DeleteTask(p) ==
    /\ Calls(p, "windows") /\ job[p].to.enabled
    /\ entry' = [entry EXCEPT ![job[p].task] = Off]
    /\ Changed(p, TRUE)
    /\ Goto(p, "create")
    /\ UNCHANGED << platform, loaded, foreign, cronLock, job, table, runs, outcome >>

CreateTask(p) ==
    /\ pc[p] = "create"
    /\ \/ /\ entry' = [entry EXCEPT ![job[p].task] = Target(job[p].to)]
          /\ Changed(p, TRUE)
          /\ Returned(p)
       \/ /\ UNCHANGED entry
          /\ Own(p, FALSE)
          /\ Failed(p)
    /\ UNCHANGED << platform, loaded, foreign, runs >>

\* A task that the query does not find counts as disabled already.
DisableTask(p) ==
    /\ Calls(p, "windows") /\ ~job[p].to.enabled
    /\ \/ /\ entry' = [entry EXCEPT ![job[p].task] = Off]
          /\ Changed(p, TRUE)
          /\ Returned(p)
       \/ /\ UNCHANGED entry
          /\ Own(p, FALSE)
          /\ Failed(p) \/ Returned(p)
    /\ UNCHANGED << platform, loaded, foreign, runs >>

-----------------------------------------------------------------------------
(* Writing the config file, and undoing the schedule when that fails.      *)

Save(p) ==
    /\ pc[p] = "save"
    /\ End(p, "ok")
    /\ UNCHANGED << platform, Scheduler, runs, clean >>

\* The restore uses what Describe said before the change.
Restore(p) ==
    /\ job' = [job EXCEPT ![p].next = "restored", ![p].to = job[p].prev]
    /\ Goto(p, "call")
    /\ UNCHANGED << cronLock, table, outcome >>

SaveFails(p) ==
    /\ pc[p] = "save"
    /\ IF job[p].op = "update"
       THEN Goto(p, "inspect") /\ UNCHANGED << job, cronLock, table, outcome >>
       ELSE Restore(p)
    /\ UNCHANGED << platform, Scheduler, runs, clean >>

\* Mutant: a failed save leaves the schedule as it is.
InspectNothing(p) ==
    /\ pc[p] = "inspect"
    /\ End(p, "savefailed")
    /\ UNCHANGED << platform, Scheduler, runs, clean >>

\* Only applyConfigUpdateAndSave looks whether there is anything to undo.
Inspect(p) ==
    \E ok \in BOOLEAN :
        /\ pc[p] = "inspect"
        /\ Own(p, ok)
        /\ IF Described(job[p].task, ok) = job[p].prev /\ (ok \/ platform = "windows")
           THEN End(p, "savefailed")
           ELSE Restore(p)
        /\ UNCHANGED << platform, Scheduler, runs >>

Killed(p) ==
    /\ pc[p] # "idle"
    /\ End(p, "killed")
    /\ UNCHANGED << platform, Scheduler, runs, clean >>

Next ==
    \E p \in Proc :
        \/ ConfigUpdate(p) \/ ScheduleConfig(p) \/ ScheduleEnable(p) \/ ScheduleDisable(p)
        \/ DescribeFails(p) \/ UpdateDescribe(p) \/ UpdateApply(p) \/ ConfigDescribe(p)
        \/ InvalidTiming(p)
        \/ LockCrontab(p) \/ ListCrontab(p) \/ ListFails(p)
        \/ WriteCrontab(p) \/ WriteCrontabFails(p)
        \/ WritePlist(p) \/ LoadPlist(p) \/ RemovePlist(p)
        \/ DeleteTask(p) \/ CreateTask(p) \/ DisableTask(p)
        \/ Save(p) \/ SaveFails(p) \/ Inspect(p)
        \/ Killed(p)

Spec == Init /\ [][Next]_vars

-----------------------------------------------------------------------------
Labels == {"idle", "describe", "apply", "call", "list", "write", "load", "create", "save",
           "inspect"}
Jobs == [op : {"none", "update", "config", "configkeep", "cli"}, task : Task, wish : Wish,
         prev : Schedule, to : Wish \cup Schedule, next : {"done", "save", "restored"}]
Tables == [lines : [Task -> Schedule], foreign : BOOLEAN]
Outcomes == {"none", "ok", "error", "savefailed", "notrestored", "killed"}

TypeOK ==
    /\ platform \in Platform
    /\ entry \in [Task -> Schedule]
    /\ loaded \in [Task -> BOOLEAN]
    /\ foreign \in BOOLEAN
    /\ cronLock \in Proc \cup {NoProc}
    /\ pc \in [Proc -> Labels] /\ job \in [Proc -> Jobs] /\ table \in [Proc -> Tables]
    /\ runs \in Nat
    /\ clean \in [Proc -> BOOLEAN]
    /\ outcome \in Outcomes

Ends(p, how) == pc[p] # "idle" /\ pc'[p] = "idle" /\ outcome' = how

\* A config update whose file could not be written has put the schedule back
\* as it was, on every platform, when no scheduler command failed on it and no
\* other command interfered (applyConfigUpdateAndSave).
FailedUpdateRestores ==
    [][ \A p \in Proc, t \in Task :
          job[p].op = "update" /\ job[p].task = t /\ clean'[p]
             /\ (Ends(p, "savefailed") \/ Ends(p, "notrestored"))
             => Seen(t)' = job[p].prev ]_vars

\* Enabling or disabling a task leaves the other task's entry and the user's
\* own crontab lines alone, whatever other commands run meanwhile and whatever
\* fails (the list-modify-write cycle of linux.go).
OthersKept ==
    [][ /\ foreign' = foreign
        /\ \A t \in Task : entry'[t] # entry[t] =>
              \E p \in Proc : job[p].task = t /\ pc'[p] # pc[p] ]_vars

\* A settings save never calls the scheduler's Enable or Disable when it carries
\* the schedule as it was read, however little of it could be read, nor when the
\* task's interval could not be read back and so could not be restored
\* (config_api.go:355-398).
UnrelatedSaveKeepsSchedule ==
    [][ \A p \in Proc :
          /\ job[p].op = "update" /\ pc[p] \notin {"idle", "describe"} /\ pc'[p] # pc[p]
          /\ clean'[p]
          /\ \/ job[p].prev = Odd
             \/ /\ job[p].wish.enabled = job[p].prev.enabled
                /\ job[p].prev.enabled =>
                     /\ job[p].wish.interval = job[p].prev.interval
                     /\ job[p].prev.interval \in HourInterval => job[p].wish.hour = job[p].prev.hour
          => pc'[p] # "call" ]_vars
=============================================================================
