# TLA+ models of one-click-ai-tools (oct)

`oct` is a Go command line program and a macOS menubar application that report the
usage limits of AI coding tools, notify near a limit, update the tools and schedule
itself.  None of it is a daemon with one owner of the state: every piece of state is a
file, a crontab or a launchd entry that several short-lived `oct` processes (a terminal,
the menubar's child, the scheduled task, `oct monitor`) read, change and write back.
That is where the hard behaviours are, and what these modules model.

## Inventory

| Part | State it keeps | Operations | Interacts with |
|---|---|---|---|
| Usage alerts (`internal/notify`) | `usage_alert_state.json`: last notification and threshold of each key, snoozes; a lock file | check, set snooze, clear snooze | `oct usage --notify`, `oct monitor`, `oct alert` |
| Claude fetch (`internal/usage/claude*.go`) | cache file: last good numbers and their date, backoff deadline; a lock file | fetch, record a 429, serve from cache | OAuth endpoint, claude CLI, `~/.claude.json` |
| Antigravity fetch (`internal/usage/gemini.go`, `antigravity_*.go`) | cache file: last good numbers, auth pause; a lock file | fetch, run `agy`, record a failed login, serve from cache | `agy` CLI |
| Scheduled tasks (`internal/schedule`) | launchd plist, crontab line or Windows task; the crontab lock | Enable, Disable, Describe, Status | `oct config update`, `oct schedule`, settings window |
| Configuration and accounts (`cmd/config*.go`, `internal/usage/accounts.go`) | `config.yaml`, rewritten as a whole; a credential directory per account | set, update, reset; the tool picker; account add, remove, login | every command, provider logins |
| Usage report (`internal/usage/usage.go`, `registry.go`, `internal/netclient`) | none across runs | choice of rows, one fetch per row under one deadline, HTTP retries, alerts, output | all fetchers, alerts |
| Provider fetchers (`internal/usage/<provider>.go`, `credentials.go`) | none; credentials of the environment, of files and of oct's configuration | find a credential, call, fall back; the doctor's probes | provider endpoints, local logs |
| Usage view (`UsageViewModel.swift`, `OctCLIService.swift`) | the shown snapshot, the refresh in flight and its watchdog, the card whose credit is asked for | refresh, confirm a reset credit, run a child | `oct usage --json`, `oct usage reset-credit` |
| Agent update (`internal/update`) | none across runs; the installed tools are its effect | plan, skip, install one tool after another under a ceiling, event stream; version check | settings window, scheduled task |
| Settings window's store (`ConfigurationStore.swift`) | draft and snapshot, update rows, flags of the runs in flight, results of the version check | load, save, update all or one row, check, close | `oct config`, `oct agent-update` children |
| Self update (`cmd/update.go`) | the installed `oct` and the menubar helper beside it | look up, download, verify, replace both | release server, `gh` |
| Release updates (`ReleaseUpdateMonitor.swift`, `ReleaseUpdateInstaller.swift`) | two settings, the release on offer, tags tried, the update in flight | poll, offer, install | release server, `oct update` |
| Menubar lifecycle (`cmd/menubar_*`) | the processes, the login item | look for instances, stop, wait, launch, wait for ready, enable, disable, restart | launchd, the process table |
| Telemetry (`internal/telemetry`), analytics server | installation id file; record store | start, finish, send; ingest, prune, clear | each other |

Hard behaviours: read-modify-write of shared files with locks that some paths take and
others do not, or that cannot be taken; data read before a wait and used after it;
processes killed between two steps (the menubar gives a child 20 seconds); writes that
fail after something else has already changed; answers that come after their deadline.
`PROJECT.json` lists the places under `hazards`, and every part, modelled or not, under
`components`.

## Modules

| Module | Models | Checked with |
|---|---|---|
| `UsageAlert` | `usage_alert.go`, `lock_unix.go`, the callers in `cmd/` | `MCUsageAlert`: `UsageAlert.cfg` |
| `UsageAlertProofs` | theorems about `UsageAlert` | TLAPS |
| `ClaudeUsage` | `claude.go`, `claude_usage_cache.go`, `lockFile` | `MCClaudeUsage`: `ClaudeUsage.cfg` |
| `ClaudeUsageProofs` | theorems about `ClaudeUsage` | TLAPS |
| `AntigravityUsage` | `gemini.go`, `antigravity_cache.go`, `antigravity_lock.go` | `MCAntigravityUsage`: `AntigravityUsage.cfg` |
| `AntigravityUsageProofs` | theorems about `AntigravityUsage` | TLAPS |
| `ScheduleSave` | `internal/schedule`, `config_api.go`, `cmd/schedule.go` | `MCScheduleSave`: `ScheduleSave.cfg` |
| `ScheduleSaveProofs` | theorems about `ScheduleSave` | TLAPS |
| `AgentUpdate` | `update.go`, `events.go`, `check.go`: the process of one update run, with its pipe | through `UpdateRows` |
| `UpdateRows` | `ConfigurationStore.swift`, `OctCLIService.swift` over the processes of `AgentUpdate` | `MCUpdateRows`: `UpdateRows.cfg`, `UpdateRowsEnd.cfg` |
| `UpdateSlots` | abstract specification: who may change a provider | as `SlotsAreKept` of `UpdateRows` |
| `UpdateRowsProofs` | theorems about `UpdateRows` | TLAPS |
| `UsageRows` | `registry.go`, `accounts.go`, the job list of `usage.go`, `tools.go`: which rows a configuration has | through `UsageReport` and `AccountConfig` |
| `ProviderFetch` | the fetchers of twelve providers and `credentials.go` | through `UsageReport` |
| `UsageReport` | `usage.go`, `netclient/client.go`, `cmd/usage.go` over `UsageRows` and `ProviderFetch` | `MCUsageReport`: `UsageReport.cfg` |
| `UsageReportProofs` | theorems about `UsageRows`, `ProviderFetch`, `UsageReport` and `AccountConfig` | TLAPS |
| `AccountConfig` | `cmd/config.go`, `cmd/usage_reset_credit.go` over `UsageRows` | `MCAccountConfig`: `AccountConfig.cfg` |
| `UsageRefresh` | `UsageViewModel.swift`, `OctCLIService.runProcess`, `reset_credit.go` | `MCUsageRefresh`: `UsageRefresh.cfg` |
| `UsageAnswers` | abstract specification: which answer the popover shows | as `RefreshesAreAnswered` of `UsageRefresh` |
| `UsageRefreshProofs` | theorems about `UsageRefresh` | TLAPS |
| `SelfUpdate` | `cmd/update.go`: the `oct update` processes and the files they replace | through `ReleaseUpdates` |
| `ReleaseUpdates` | `ReleaseUpdateMonitor.swift`, `ReleaseUpdateInstaller.swift` over `SelfUpdate` | `MCReleaseUpdates`: `ReleaseUpdates.cfg` |
| `MenubarInstances` | `cmd/menubar*.go`, `loginitem_darwin.go`, `restartHelperDetached` | `MCMenubarInstances`: `MenubarInstances.cfg`, `MenubarLegacy.cfg` |
| `MenubarProofs` | theorems about `ReleaseUpdates`, `SelfUpdate` and `MenubarInstances` | TLAPS |

In the modules of shared files a process is one `oct` invocation; `pc[p]` says between which
two calls of the code it stands, and an action is what the code does from one file access, lock,
command or wait to the next.  A definition followed by "Mutant:" is a plausible bug; no
specification uses it.  `TypeOK` gives the ranges of a module's variables.  Variables listed under "History" are not kept by the program:
they record what really happened, so that the file can be compared with it.

### UsageAlert

`file` is the state file, `lock` the advisory lock, `st[p]` the copy a process works on.
`StartCheck` takes `now` before the lock, as the callers do; `Acquire` is the blocking
`flock`; `GoOnUnlocked` is the case where the lock file cannot be created because its
directory does not exist yet; `LoadForCheck` includes `cleanupExpiredSnooze`; the keys over their
threshold are then treated one by one in any order (the code ranges over a map);
`Save` replaces the whole file and `SaveFails` returns the error.  `Crash` may come at any
step.  `OverThreshold` is `overThresholdKeys` with `thresholdFor`'s precedence, and
`Suppressed` the three reasons for silence.

### ClaudeUsage and AntigravityUsage

Both caches hold numbers, the time they were fetched and a deadline before which nothing
is to be tried again.  The Claude fetch checks the deadline without a lock, sends, and
records a 429 under a lock it may give up on; good numbers are saved without it.  Between
sending and hearing is `DoWithRetry`: `Send` is one attempt, `Retry` sleeps after a server
error, a timeout or a 429 that names a short wait, `Canceled` is the fetch's deadline, and
`RateLimited` is reached only by a 429 the client does not wait out, or by its last attempt.
`call[p]` counts the attempts and says when the next may be made; the client's own waits of
1, 2 and 4 s are short beside the unit of the clock.  The
Antigravity fetch does everything under its lock and gives up without it.  Numbers are
identified by the time they were produced; parsing an answer is reduced to whether it
gave numbers.  `now[p]` in `AntigravityUsage` is the time taken when the lock was
granted, against which the interval is measured, while the auth pause is measured
against the clock.  `agy` holds the processes that wait for an `agy` of their own.  The
kernel takes the lock from a process that is killed, and its `agy`, in a session of its own,
runs on: `left` counts those, and each ends when it likes (`LeftAgyEnds`).  `killed`, a
history variable, counts the kills that left one.

### ScheduleSave

`entry[t]` is what the platform stores for a task: `Off`, a schedule that can be read
back, or `Odd`, one that is there but whose interval cannot be recovered (edited by hand,
or any task on Windows).  The commands are run to their first scheduler call by the
actions of the first part, the second part is `Enable` and `Disable` on each platform, and
the third the config write with the undo that follows its failure.  The undo goes through
the same `Enable` and `Disable` and may fail like them.

### AgentUpdate, UpdateRows and UpdateSlots

`AgentUpdate` is the child: `child[r].at` goes from the detection over the declined
providers to the loop and the installer of one provider, and back to the loop, until
`run_done` is written; `Die` ends it anywhere.  `pipe[r]` holds what it wrote and the
application has not read.  Installing is reduced to its outcome: the version may change or
not, the command may fail or not, and its output may say that nothing changed.  A process
that is killed while its installer runs leaves the installer behind, which may still
change the provider: `strays`.  The ceiling of ten minutes can be noticed before any
provider and stays noticed.

`UpdateRows` is the application.  A run is one call of `runProviderUpdate`: `flight[r]`
holds its local variables, `toolUpdateStates` the chip of each row, `isAgentUpdating` and
`singleUpdates` the flags that keep runs apart.  All of it is owned by the main actor, so an
action is what it does between two `await`s.  Events are applied in the order of the pipe;
`Land` is the code both ends of a run share, `FinalizeAgentUpdate` the normal end and
`RunThrew` the `catch`.  Closing the window drops the chips and the report but not the
flags, the runs or what the last check said; opening it starts a check after a delay.

Left out: `run_start` and `tool_start`, which only move a progress text; feedback texts;
the version numbers a row shows.

`UpdateSlots` says what the two promise together.  Each provider has a slot; a row's run
takes one, the run of all enabled providers takes its own when none is taken, and a
provider changes only while its slot is taken, or by a stray installer.

### UsageRows, ProviderFetch and UsageReport

`UsageRows` is pure: a configuration, as the four keys that matter, and operators named
after the functions that read it.  A name is a tuple, so that `codex:work` is
`<<"codex", "work">>`; the lists arrive lower-cased and split, as every reader makes
them.  `Jobs` is the loop of `GetUsage`: the names of `agent_order` and `enabled_tools`
folded to providers, each listed once, and for each provider a row per account or its own.

`ProviderFetch` has one operator per fetcher, of the sources a machine has and of the
answers heard so far, which gives the next call (`Ask`) or the finished row.  What a
payload holds is reduced to five answers: numbers, numbers with a window spent, a
payload whose numbers cannot be used, one without any, and no usable answer.  A row
keeps what a reader can tell: its status, its source, what kind of number it shows,
whether it says that a call failed, and whose login the number is.  Beside each fetcher
stands the doctor's probe for it, translated from `credentials.go` and not from the
fetcher, which is what makes comparing the two worth anything.

`UsageReport` runs them: every row's fetcher makes its calls through `DoWithRetry`
(`Send`, `Answered`, `Retry`, `RateLimited`, `Canceled`), all under the one deadline of
`effectiveFetchTimeout`; a fetcher that is late is abandoned (`Expire`), and its later
steps are not looked at.  The alerts are sent before the rows are printed.  Time is in
seconds.  A deadline, once reached, is handled before time goes on; a late handler would
add to what the report may take, by as much as the machine is late.

### AccountConfig

The commands that write the keys `UsageRows` reads.  The quick ones read, change and
write in one step.  The interactive `oct config` is `flow`: it reads at its start and
writes what it read, changed, at its end, with the picker, the account actions and the
login in between, while quick commands run.  `login` is the content of each credential
directory.  `told` is a history variable: what the user was last told of an account.
`Overwrite` clears it when the interactive command overwrites a change made meanwhile,
so that `AccountsAreAsTold` does not speak of what is lost that way (see below).  Two
interactive commands at once are left out.

Two properties say what they except.  `NewAccountShowsItsLogin` is about names no entry
has: a token entry of that name is updated and stays a token entry, which has no row.
`UnchangedPickerKeepsRows` is about configurations where the boxes are the rows and the
standalone providers `agent_order` lists are on (`PickerAgrees`); for others, confirming
the picker as it opened does change rows.  It claims the order only without account
labels in `agent_order`, which the picker drops.

### UsageRefresh and UsageAnswers

`call[c]` is one call of `runProcess` with its child: it is launched, exits by itself or
on a signal it may trap, may leave its pipes to a grandchild, and may never be reaped.
`timeoutWorkItem` stands for both timers, the SIGTERM and the SIGKILL: what the signal
does to the child is the child's own step, so the two are one action that may happen at
any time from `ProcessTimeout` on.  The wait for the pipes ends by their closing or by the
deadline (`PipesClose`, `PipesDeadline`), and the reaping in two rounds, with a SIGKILL
between them.  The view model around it starts a refresh, hears of the answer, is
released by the watchdog, and spends a credit after a confirmed click.  `snapshot` is
the number of the refresh whose answer is shown, an error being an answer.

`UsageAnswers` is what a user may rely on: a refresh is answered once, and what is shown
is the answer to the last refresh that ended.

### SelfUpdate and ReleaseUpdates

`SelfUpdate` is `oct update`: releases come out (`Publish`), a process looks one up, asks
unless told not to, downloads an archive that may not be the published one, checks it,
and replaces first `oct` and then the helper, each by a temporary file that is created,
filled and renamed.  Any step may fail where the code handles an error, and `Killed` may
come anywhere.  A file's content is the release it belongs to, whether all of it is
there, and whether its archive was verified.  A temporary file left behind by a killed
process is forgotten: nobody takes its name again.

`ReleaseUpdates` is the application around it.  `check[c]` is a request in flight;
`generation` is what separates its answer from a later state of the settings; the alert
of `requestUpdate` is modal for the user but not for answers, which is why `asking` stops
the user's actions and no others.  `late` is history: the checks were turned off while
the request was in flight.

### MenubarInstances

`proc` is the process table: `oct menubar ...` commands, Swift helpers and legacy
menubars, with launchd's among them.  A command looks for instances the way
`isMenubarStopTarget` does, which takes any `oct` with the word `menubar` for one,
stops them, waits three seconds, kills what is left and launches.  A process that was
sent a SIGTERM may end or not.  `ps` may fail: the look then finds none and the command goes
on (`LookBlind`), while the stop returns the error and the command ends (`StopFails`), as it
does when a SIGTERM is refused, another user's process being the case; the restart's shell
goes on to its second command all the same.  `restart` follows the helper's own restart, which a
detached shell runs.  launchd and the login item are external and do what the code
expects of them: loading runs the item, unloading stops what was run, and a login loads
what lies in `LaunchAgents`.  A helper that `swift run` starts from a source checkout is
treated as an installed one.  A new process takes the first free entry of the table (`Fresh`),
since the entries differ in nothing.

`LoneStartLeavesOne` is about commands that met no other one and whose look at the process
table did not fail with a menubar there.  In the code a failing `ps` reads as "none running",
so that such a start does leave two menubars; `LookBlind` clears `alone`, and the property
excepts it.

## What the runs show

| Run | Shows | Bounds |
|---|---|---|
| `alert` | The file records what was shown; a snooze is as asked until it expires; no repeat inside the cooldown, none under a snooze; every run ends | 2 processes, 3 runs, 2 time units, cooldown 2; thresholds below and above the value, quiet timer on and off |
| `claude` | Served numbers are paired with their date and not too old; the backoff is bounded; after a recorded 429 no more is sent than the attempts of the calls already past their check, and some process sends nothing | 2 processes, 4 fetches, 3 time units, 1 retry, Retry-After absent, short enough to be waited out, and above the maximum |
| `antigravity` | One `agy` at a time, and one more for each left by a kill; runs spaced after a good one; the auth pause is kept; served numbers are dated | 3 processes, 5 fetches, 5 time units, interval 2, pause 3 |
| `schedule` | A failed update is undone; the other task and the user's crontab lines are kept; an unrelated save does not touch the schedule | all three platforms, 2 processes, 2 commands, 2 tasks, an interval with and one without an hour, 2 hours |
| `updaterows` | Flags and spinning chips never outlive the runs that own them; runs exclude each other (refinement of `UpdateSlots`); a failure `oct` counted reaches the alert or its row | 2 providers, 2 runs at a time and in all, the window opened twice, 2 unread events; each provider missing, old or current at the start |
| `updaterows_end` | Every held row comes free again | 1 provider, 3 runs one after the other, the window opened 3 times |
| `report` | Every selected provider has its rows once; no login's numbers in two rows; an estimate says that a call failed; the doctor names the source the numbers come from; retries wait as they were asked; the report is printed, and before the menubar would kill it | each of 12 providers alone with every set of its sources and every sequence of answers; `agent_order` of up to 2 of 5 names over 3 lists of enabled tools, with two accounts and one listed twice; 2 account rows beside a key in the environment; the deadline at its floor, as it is and at its ceiling, with and without alerts; waits of 1, 3 and 61 s |
| `accounts` | Accounts are read from where the user was told; a new account shows its login; a picker confirmed as it opened keeps the rows; a credit is spent on the login its row shows | 3 commands, 3 starting configurations with legacy, token and standalone entries, 2 providers, 2 names, 3 homes, 2 login directories, 3 logins: one with an e-mail, one masked beyond use, one without |
| `refresh` | Believed output is whole; a click spends one credit at most; refreshes are answered once and in order (refinement of `UsageAnswers`); refreshes and calls end | 2 calls at once, 2 refreshes, 1 credit, the deadline 2 graces |
| `release_updates` | Installed files are whole and verified; a lone update leaves both files at its release; late answers are dropped; the installer comes free | 2 updates, 3 releases, 2 requests, 2 changes of a setting |
| `menubar` | A lone start that could read the process table leaves exactly one menubar; a restart brings one back | 4 processes, 3 commands, 1 login, with and without a helper |
| `menubar_legacy` | violation: without a helper the detached start begins itself again for ever | 1 command |

Two processes are enough for the races of the first, second and fourth row: every
history variable relates one process's copy to one other writer, and a third adds only a
second such pair; `antigravity` is small enough for three.  The clock runs past every
duration, so that each deadline is met before, at and after its end.  `MaxTime` and
`MaxRuns` only bound the exploration; the systems stop there, which is why deadlock is not
checked.  `MaxStarts`, `MaxOpens` and `MaxLag` do the same for runs, windows and unread
events, `MaxCommands`, `MaxLogins`, `MaxUpdates`, `MaxRelease`, `MaxChecks` and
`MaxToggles` for what they name.  `SYMMETRY` is used in `claude`, over processes, and in
`updaterows`, over providers and over runs, which no safety property tells apart; the runs
with a liveness property do without.

In `report` rows of different providers share nothing but the deadline and the clock, so
that their interleavings add states and no behaviour: each fetcher is checked alone, and
the cases with many rows, which are about which rows there are, have no credentials and
make no calls.  Two updates of which the second starts at every step of the
first, and either of which may be killed, are every overlap two temporary files can have.  In
`refresh` two calls are a refresh and the next one or a refresh and a credit; a third call at
once needs a second unanswered watchdog and repeats the first.  `ProcessTimeout` is 0
there: the timers may go off at any time, which includes when they do.  Four processes
are a command, the menubar it finds, the one it starts and a second command's.

### Fairness

Fairness is weak wherever it is stated, and only of what the code or its runtime bounds.

- `UsageAlert`: the steps of each started process.  The notification command has a
  timeout of 15 seconds, every other step is local file access, and the kernel grants a
  blocked `flock` when the holder exits or is killed.  The number of runs is bounded, so a
  waiting process cannot be overtaken for ever.  Starting runs, time and crashes are not fair.
- `UpdateRows`: the watchdog fires (it is armed before the wait), events that arrived are
  applied, and a run whose process is gone and whose pipe is empty is ended.  Nothing is
  asked of `oct` or of an installer: the process may hang, which is what the watchdog is for.
- `UsageReport`: the clock, the collection of late fetchers (a goroutine waits on
  the context), and the command's own steps from the last row to the output; a
  notification that hangs is cut off by its timeout.  Nothing is asked of the network or of a
  fetcher.
- `UsageRefresh`: the clock, the watchdog, and the waits of `runProcess`, each of which has a
  timer of its own.  Nothing is asked of the child, of who holds its pipes, of a signal, or
  of the delivery of an answer.
- `ReleaseUpdates`: the service kills an update after twelve minutes, and the task that
  awaits it goes on.  Nothing is asked of the user, the network or the update.
- `MenubarInstances`: a command goes on, since each of its waits has an end.  A menubar may
  ignore its SIGTERM.

The other modules state safety only.

## Where the code and its documentation part

The run `menubar_legacy` shows one disagreement, listed under `findings`: a comment says
that without an installed helper the legacy menubar takes over, and the detached child,
started as bare `oct menubar`, takes its parent's path instead of the menubar's.

The models show others, which no run states.  Where a property would meet one, the property
excepts it and says so.

State files and caches
- Before the directory of the alert state exists its lock cannot be taken, and a check
  overwrites a snooze saved meanwhile (`usage_alert.go:259-260` speaks without a condition).
- A good Claude answer is saved without the lock; older than a recorded 429, it removes the
  backoff (`claude_usage_cache.go:93-96`).
- Inside a recorded backoff a fetch already past its check still makes the attempts of its call,
  up to four, without another look at the cache (the comment at `claude.go:180-182` says not to touch
  the endpoint again).
- After a kill a second `agy` may run beside the first, whose lock is gone
  (`antigravity_lock.go:10-11` says the lock serializes the invocations).
- `OCT_USAGE_DEBUG` replaces the reason a Codex row gives for its estimate
  (`codex.go:188-193`); the variable is for debugging and not modelled.
- A run of `agy` that gives nothing leaves no mark, and the next fetch runs it again at once
  (`antigravity_cache.go:17-18` says at most once per interval).
- A snooze and a threshold are stored under the canonical name (`registry.go:263-267`), which
  is not the row's name for `codex:work` with one account, whose row is `codex`.
  `UsageAlert` takes the two for one.

Schedules and updates
- `oct schedule config` does not restore an entry whose interval cannot be read back, such
  as any task on Windows (`cmd/schedule.go:149-152`).
- What a run reports after the settings window closed is dropped, and the old check goes on
  offering the update (`ConfigurationStore.swift:507-510`).
- An `oct update` killed between `oct` and the helper leaves them at two releases, and the
  next one says it is up to date, since it compares `oct` alone.
- An automatic installation may start while the alert of a manual one is up, and the alert's
  Yes then starts a second updater.  The slower of two updaters may put an older release over
  a newer one, or leave the two files apart.  A tag is marked as tried also when the
  installer was busy.

Rows and accounts
- The report is held back by its notifications, 15 seconds each, which are sent first: with
  alerts to send the menubar's 20 seconds may pass (`usage.go:49-53`).
- With one account its row is `codex`, and a credit for `codex` is spent in the default home,
  not in that account's.
- `oct doctor` names the Cursor key that only an endpoint override uses, and does not know
  the override of Codex.  It reads OpenCode's `auth.json` as strings throughout, so that with a
  number in any entry, such as the expiry of an OAuth login, it finds no key there for OpenCode
  Go or Z.ai, while the fetchers go on using it (`credentials.go:130-133`).
- Codex logs are read for the last reading above 0 %, so a window just reset shows the
  one before.
- An account that `codex_accounts` lists comes back after it was removed.  Token entries
  without a home are dropped by every account command.
- Interactive `oct config` writes what it read at its start over changes made meanwhile.  The
  picker enables a standalone provider again that `agent_order` lists and `enabled_tools`
  leaves out, and drops account labels from `agent_order`.  A login whose name is found
  invalid leaves its directory behind.
- Confirming the picker with nothing checked writes an empty `enabled_tools`, which every reader
  takes for every tool, while the summary says "(none selected)" (`config.go:803, 916`); the
  command that sets the key refuses to, for that reason (`config.go:971-974`).
- The boxes are said to agree with the fetched rows (`config.go:168-169`), but the picker does not
  know the aliases of a tool, by which the report selects it: with `opencode-ai` enabled, OpenCode
  has a row and an unchecked box, and confirming drops it.
- The refresh after a spent credit is dropped while another one runs, so that older numbers
  stay until the next.  A credit call that was cut off may have spent the credit; a new click
  sends a new request id.

Menubar
- A `ps` that fails is taken for "none running" (`menubar_stop_darwin.go:70-76`), and the
  command starts a menubar beside the one there is.
- Every `oct` with the word `menubar` among its arguments counts as an instance, so that
  a settings window's `oct menubar daemon --json` may be stopped.  Two starts at once may leave
  two menubars, and `oct menubar stop && oct menubar` may find the one that is going and leave none.

## What is proved

`UsageAlertProofs` proves, for all processes, providers, windows, configurations, readings
and bounds, from the assumptions `UsageAlert` names:

- `TypeCorrect`, `FileMatchesNotifications` and `SnoozesKept`: the type invariant and the two invariants of the run;
- `CooldownHolds` and `SnoozeHolds`: its two action properties.

They follow from the invariant `IInv` (`Inductive`).  Neither of the two invariants is
inductive alone, since they speak of the file and the steps depend on the processes'
copies.  `IInv` adds:

- `LockInv` and `OneInside`: the lock's holder is inside, a process inside without the
  lock says so in `bare`, and, as long as no unlocked run has met another (`overlap`), at
  most one process is inside;
- `JobInv`: what a process was asked to do is consistent with where it stands, and its
  `now` is not ahead of the clock;
- `SentInv`: outside the critical section the file, and inside it the copy of the process
  that is there, records the last notification of every key that is not `lost`;
- `SnoozeInv`: a copy inside holds the snoozes that are wanted, expired ones apart.

The proof has one step per action of `Next`; the action properties use that the only step
that notifies is `Notify`, whose guard reads the copy that `SentInv` and `SnoozeInv`
describe.

`ClaudeUsageProofs` proves, for any finite set of processes, any durations and any bounds:

- `TypeCorrect`, `NumbersDated`, `BackoffsBounded` and `EndpointSilent`: the type invariant and
  the three invariants of the run on `ClaudeUsage`.

Their invariant `IInv` adds to the type invariant

- `DateInv`: a copy read for recording a 429 is dated like the file it came from, so that writing
  it back, even over newer numbers, leaves numbers with a date they were recorded at;
- `BackoffInv`: answers came in the past, which bounds a backoff counted from one;
- `SentInv`: inside a backoff what a process has sent and the attempts its call has left (`Left`)
  are together no more than one call's, and some process has sent nothing and has none left
  (`Silent`).  `EndpointLeftAlone` knows only what was sent, so a further attempt may break it as
  far as it knows; the silent process is first the one that records the 429, and it stays so
  because the backoff keeps it from a new request.

`AntigravityUsageProofs` proves, for all processes, durations and bounds:

- `TypeCorrect`, `OneAgy` and `NumbersDated`: the type invariant and the two invariants of the
  run on `AntigravityUsage`;
- `RunsSpaced` and `PauseKept`: its two action properties.

Their invariant adds `LockInv`, that a fetch past the lock holds it, that `agy` is the fetches that
wait for one and that no more were left than killed, `TimeInv`, that the latest run is the one going on, and `LastInv`, that the cache still
records how the last run ended.  The last is what the guard of `RunAgy` reads, and only `RunAgy`
begins a run.

`UpdateRowsProofs` proves, for all providers, runs and bounds:

- `TypeCorrect` and `RowsAreOwned`: the type invariant and the invariant of the run `updaterows`;
- `StoreKeepsSlots`: every behaviour of the store and its processes is one of `UpdateSlots`;
- `FailuresReported`: the action property that a failure the process counted reaches the window.

Their invariant `IInv` (`Inductive`) is the type invariant with

- `FlagInv` and `RowInv`: the flags are up exactly while a run of their kind is in flight;
- `AloneInv`, `OwnerInv` and `ScopeInv`: a run of all is alone, two runs share no provider,
  and each has one;
- `ChipInv`: a spinning chip belongs to a run in flight;
- `WorkInv`: a process works only on providers of its run, and only while that is in
  flight, so that what an installer changes lies in a taken slot.

`HeldRowsAreOwned` alone is not inductive: a run that ends lowers its flag, and only
`OwnerInv` and `AloneInv` say that no other run needed it.  For the refinement each action
of `Next` is shown to be one step of `UpdateSlots` or a stutter.

`FailuresReported` needs to know what is between the process and the window, which two further
invariants say; each has its own induction over `IInv`:

- `PipeInv`: the pipe holds a provider's event only when the process is through with that
  provider, and never two of them, and what the process counted as failed is of its run;
- `WatchInv`: for a run the window has watched from its start, the chip of a provider spins until
  its event is read, and a failure the process counted is either in the store or still in the pipe.

At the normal end the pipe is empty, so all of them are in the store.  That no other run touched
the chips meanwhile is `OwnerInv`.

`UsageReportProofs` proves of `UsageReport`, for any configurations, sources, answers and times:

- `TypeCorrect`, and `RowsOfEveryProvider`, `DoctorAgrees`, `EstimatesExplained` and
  `LoginsApart`: the four invariants of the run `report`;
- `RetriesSpaced`: its action property;

and of `AccountConfig`, for any configurations, names, directories, logins and number of commands:

- `AccountsAsTold` and `CreditToItsRow`: the two invariants of the run `accounts`;
- `NewAccountsShown` and `UnchangedPicker`: its two action properties.

What a row may show is decided in `ProviderFetch`, so the proofs about the report begin with its
operators: for each of the twelve fetchers a lemma says that a finished row is `Honest`, whatever
was heard, as long as it was asked for.  The invariant `IInv` (`Inductive`) carries this to the
report: `CallInv` says that a fetcher heard an answer only where it had asked, `RowInv` that a row
in the report is what its fetcher makes of the answers heard, or a timeout, `JobInv` that the rows
are those of the configuration, and `ClockInv` gives the ranges of the clock and the alerts.
`CallInv` also says that a call asleep has tries left and wakes no earlier than it was told, which
is what `RetriesSpaced` reads.  `LoginsApart` has the hypothesis `HomesApart`, that the accounts of
one provider in the user's configuration have directories of their own.  Without it two rows of one
directory do show one login.

Which rows there are is what the folds of `UsageRows` make of lists of any length.  The induction
theorems of the library are out of the prover's reach, so an induction is put as a search for the
least counterexample: `Least` finds it, `SetInduction` is the induction over a finite set that
follows, and `FoldGraph` gives a fold the equations of its steps.  From these come what each
operator of `UsageRows` returns: its range, that it repeats nothing, which entries it keeps, and in
which order.  Order is said without indices: in `Leads(s, X, Y)` a member of `X` comes before any
of `Y`, and a list that is filtered, mapped or appended to has lemmas about what leads in it.

`AccountsAsTold` rests on `AccountInv` (`AccountsInductive`), which is the type of the variables
together with the property.  The types carry what the property needs to survive the interactive
command: a login in hand is in the temporary directory it was made in, so that renaming or keeping
that directory leaves the account where the user is told it is.  One lemma for each way of
changing the entries (adding, updating, removing, taking over from the old key) says which account
is read from where afterwards, and one step for each command compares that with what it tells.
`UnchangedPicker` follows the lists through the confirmation: the new enabled list names the same
providers, the new order lists the same ones in the same order, and rows follow the order.

The assumptions: `CasesAssumption`, `ConfigsAssumption`, `HomesAssumption` and `NamesAssumption`
give the constants their types, `MaxRetriesAssumption` and `TimesAssumption` are about numbers, and
`LiteralsAssumption` says that the string literals of `UsageRows` are strings, which one of the
provers does not know.  TLC evaluates all of them, and `HomesApart` by the name `HomesAreApart`.

`ScheduleSaveProofs` proves, on every platform, for all processes, tasks and intervals:

- `TypeCorrect`, and `OthersAreKept`, `UnrelatedSavesKeep` and `FailedUpdatesRestore`: the three
  action properties of the run `schedule`.

The invariant says two things of each process: `Stage`, that from listing to writing the crontab is
locked and still the one listed, which is why the other task and the user's lines survive the
rewriting; and `Update`, that as long as nothing went wrong for a config update
(`clean`), the entry is the one it read, or the one it put there, and that what it is about to
restore is what it read.  One lemma for each operation shows a `Good` step: only the actor's
task, lock and copy change (`Frame`), so that the other processes keep their `Inv` (`Others`).
A step that could break another process's `Update` takes its `clean` away, which is what the
history variable is for.  `FailedUpdatesRestore` is then read off the last step of the undo.

`UsageRefreshProofs` proves, for any number of calls and any timeouts:

- `TypeCorrect`, `BelievedOutputIsWhole` and `CreditsArePaidFor`: the type invariant and the two
  invariants of the run `refresh`;
- `RefreshesAnswered`: the view model over its processes refines `UsageAnswers`.

Their invariant is the type invariant, which ties the watchdog to the refresh in flight, with

- `TellingInv`: pipes seen closed mean that the child is gone; a child that was signalled while
  it ran left a work item's flag behind or a call that will not be believed;
- `CreditInv`: credits spent, owed by a running call or pending in the alert are at most the
  clicks.  `spent <= requested` alone is not inductive: only counting the calls that may still
  send their POST says that confirming twice is impossible.  The count is a cardinality, and
  the lemmas `OwedAfter` and `CreditCall` say how one step of one call changes it.

For the refinement, `finishRefresh` is an answer when the number is the newest and a stutter
otherwise; the increment at both ends is what makes a late answer a stutter even during the
next refresh.

`MenubarProofs` proves, for any number of updates, releases and requests:

- `FilesAreWhole`, `LoneUpdatesInstall` and `LateAnswersDropped`: the invariant and the two
  action properties of the run `release_updates`.

Their invariant `IInv` is `UpdateInv`, about the processes and files of `SelfUpdate`, and
`LateInv`, about the monitor:

- `TellingInv`: from the verification on an update's archive is that of its release, its temporary
  file is the whole archive when it is renamed, and no other process writes there;
- `AloneInv` and `OctInv`: an update that still counts as alone is the only one running, and once it
  is at its helper `oct` is at its release;
- `LateInv`: a request marked late is of an older generation than the monitor's.

`InstalledIsWhole` is not inductive without the first, since a rename installs whatever the temporary
file holds, and `LoneUpdateInstalls` needs the second to speak of both files at the step that
renames one.

It also proves of `MenubarInstances`, for any number of processes, commands and logins:

- `InstancesTyped` and `LoneStartsLeaveOne`: the type invariant and the action property of the run
  `menubar`.

Their invariant `InstancesInv` adds to the types, for each process, `KindOK`, where a process of its
kind may be, and `AloneOK`: beside a command that met no other one there are only menubars; while
it waits, all of them are among those it waits for, and when it launches or loads, or is a systray
child, there is none.
The step that matters is the end of the waiting: what it stopped and has not gone is killed, so
the menubars were in `targets` and are no more.  All steps of commands are treated by
`CommandStep`, since a command that acts while another is alone is that other.

Every invariant and every action property of the passing runs, and both refinements, are proved.
Only model-checked is liveness: `EveryRunEnds`, `RowsSettle`, `ReportIsPrinted`, `RefreshEnds`,
`CallsEnd`, `UpdatingEnds` and `RestartComesBack`, since fairness and `ENABLED` are outside what
the prover can do.  The counterexample of `menubar_legacy` is TLC's.

## Not modelled

- The wire and file formats of the providers: requests, parsing, plan names, layout of the
  buckets.  What they come to is in `ProviderFetch`.
- Terminal and SwiftUI layout, packaging scripts, environment of child processes: no state
  shared between steps.
- Session refresh: a sequence of prompts over the selected tools that keeps nothing.
- Telemetry and the analytics server, the drafts of the settings window, the feedback form,
  Homebrew and the beta track of `oct update`, building and installing the menubar helper, the
  remaining keys of the configuration file: small protocols of their own, see the plan.
- Windows' lock file for alerts behaves as the Unix one; its crontab lock does not exist because
  it has no crontab.

## Plan

1. `ConfigDraft`: the settings window's load and save of drafts (`reload`, `loadDraft`,
   `saveDraft`, the load generation) over `oct config` processes, with the rewrite of the
   whole configuration file by concurrent commands.
2. `Telemetry`: installation id file, opt-out, sender; ingest, deduplication, pruning.
3. The beta track and Homebrew in `SelfUpdate`; build and install of the helper in
   `MenubarInstances`.
4. Proofs: what the modules above will need.
