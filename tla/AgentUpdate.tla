----------------------------- MODULE AgentUpdate -----------------------------
(***************************************************************************)
(* `oct agent-update --json` as the menu bar app runs it                   *)
(* (internal/update/update.go, events.go): one child process per run that  *)
(* plans, skips what is not installed, installs one provider after the     *)
(* other under a ceiling of ten minutes and reports each step as an event  *)
(* on its pipe.  `oct agent-update --check --json` (check.go) only reads.  *)
(***************************************************************************)
EXTENDS Naturals, Sequences

CONSTANTS
    Tools,     \* providers with an updater
    NoTool,
    Runs,      \* processes that may run at once
    Latest,    \* the version the package registry offers
    Found,     \* versions the providers may have at the start, 0 for none
    MaxLag     \* bound on the events written and not yet read

ASSUME ToolAssumption == NoTool \notin Tools
ASSUME LatestAssumption == Latest \in Nat \ {0} /\ Found \subseteq 0..Latest
ASSUME LagAssumption == MaxLag \in Nat \ {0}

VARIABLES
    installed,   \* of each provider: the version on disk, 0 for none
    child,       \* of each run: its `oct` process
    pipe,        \* of each run: the events on the way to the app
    strays,      \* providers whose installer outlives its killed `oct`
    probe        \* the `oct agent-update --check` process

procVars == << installed, child, pipe, strays, probe >>

Versions == 0..Latest
Idle == [at |-> "off", todo |-> {}, missing |-> FALSE, declined |-> {},
         cur |-> NoTool, before |-> [t \in Tools |-> 0], late |-> FALSE,
         failed |-> {}]
NoProbe == [at |-> "off", behind |-> {}, left |-> {}]

\* run_start carries nothing the app keeps, and tool_start nothing but the
\* progress it shows: the chip of its row is set when the run begins.
ToolDone(t, status) == [event |-> "tool_done", tool |-> t, status |-> status]
RunDone == [event |-> "run_done", tool |-> NoTool, status |-> "none"]
Statuses == {"updated", "up_to_date", "failed", "skipped",
             "skipped_not_installed", "npm_missing"}
Events == [event : {"tool_done"}, tool : Tools, status : Statuses] \union {RunDone}

Emit(r, e) ==
    /\ Len(pipe[r]) < MaxLag
    /\ pipe' = [pipe EXCEPT ![r] = Append(@, e)]

ProcInit ==
    /\ installed \in [Tools -> Found]
    /\ child = [r \in Runs |-> Idle]
    /\ pipe = [r \in Runs |-> << >>]
    /\ strays = {}
    /\ probe = NoProbe

-----------------------------------------------------------------------------
(* One run.  `todo` holds the providers named by --only; agent_order may   *)
(* put them in any order.                                                  *)

Spawn(r, ts, missing) ==
    child' = [child EXCEPT ![r] =
                [Idle EXCEPT !.at = "detect", !.todo = ts, !.missing = missing]]

IsInstalled(t) == installed[t] # 0

\* Every provider is probed before anything is installed; the version of an
\* installed one may be unreadable.  --json never prompts: what is missing is
\* declined unless the caller asked for it.
ExplainPlans(r) ==
    /\ child[r].at = "detect"
    /\ \E unread \in SUBSET child[r].todo :
          child' = [child EXCEPT
            ![r].at = "confirm",
            ![r].missing = FALSE,
            ![r].declined = IF child[r].missing THEN {}
                            ELSE {t \in child[r].todo : ~IsInstalled(t)},
            ![r].before = [t \in Tools |-> IF t \in child[r].todo \ unread
                                          THEN installed[t] ELSE 0]]
    /\ UNCHANGED << installed, pipe, strays, probe >>

\* The event of a declined provider comes before the run's first.
SkipMissing(r) ==
    /\ child[r].at = "confirm"
    /\ \E t \in child[r].declined :
          /\ Emit(r, ToolDone(t, "skipped_not_installed"))
          /\ child' = [child EXCEPT ![r].todo = @ \ {t}, ![r].declined = @ \ {t}]
    /\ UNCHANGED << installed, strays, probe >>

StartLoop(r) ==
    /\ child[r].at = "confirm" /\ child[r].declined = {}
    /\ child' = [child EXCEPT ![r].at = "loop"]
    /\ UNCHANGED << installed, pipe, strays, probe >>

\* installTimeout: the ceiling of the loop is noticed where it is looked at,
\* and stays passed as long as a provider is left.
Late(r) == {child[r].late, TRUE}

\* The next provider is not tried: the ceiling has passed, or the package
\* manager itself is missing.
PassOver(r) ==
    /\ child[r].at = "loop"
    /\ \E t \in child[r].todo, late \in Late(r),
          status \in {"skipped", "npm_missing"} :
          /\ late => status = "skipped"
          /\ Emit(r, ToolDone(t, status))
          /\ child' = [child EXCEPT ![r].todo = @ \ {t}, ![r].before[t] = 0,
                                    ![r].late = late /\ child[r].todo # {t},
                                    ![r].failed = @ \union {t}]
    /\ UNCHANGED << installed, strays, probe >>

StartInstall(r) ==
    /\ child[r].at = "loop" /\ ~child[r].late
    /\ \E t \in child[r].todo :
          child' = [child EXCEPT ![r].at = "install", ![r].cur = t,
                                 ![r].todo = @ \ {t}]
    /\ UNCHANGED << installed, pipe, strays, probe >>

\* 0 stands for the empty string: the version could not be read.
IsAlreadyUpToDate(before, after, noChange) ==
    /\ before = 0 \/ after = 0 \/ before = after
    /\ (before # 0 /\ before = after) \/ noChange

StatusOf(err, noChange, before, after) ==
    IF err THEN IF noChange THEN "up_to_date" ELSE "failed"
           ELSE IF IsAlreadyUpToDate(before, after, noChange)
                THEN "up_to_date" ELSE "updated"

\* The installer ends: it may fail after it changed the version and succeed
\* without changing it.  Past the ceiling the version can no longer be read.
InstallReports(r, v, late, err, noChange) ==
    LET t == child[r].cur
        status == StatusOf(err, noChange, child[r].before[t], IF late THEN 0 ELSE v)
    IN  /\ noChange => v = installed[t]
        /\ installed' = [installed EXCEPT ![t] = v]
        /\ Emit(r, ToolDone(t, status))
        /\ child' = [child EXCEPT
              ![r].at = "loop", ![r].cur = NoTool, ![r].before[t] = 0,
              ![r].late = late /\ child[r].todo # {},
              ![r].failed = IF status = "failed" THEN @ \union {t} ELSE @]

EndInstall(r) ==
    /\ child[r].at = "install"
    /\ \E v \in {installed[child[r].cur], Latest}, late \in Late(r),
          err, noChange \in BOOLEAN : InstallReports(r, v, late, err, noChange)
    /\ UNCHANGED << strays, probe >>

\* Nothing of a process outlives it but the count it reports.
Ended(r) == [Idle EXCEPT !.at = "gone", !.failed = child[r].failed]

FinishRun(r) ==
    /\ child[r].at = "loop" /\ child[r].todo = {}
    /\ Emit(r, RunDone)
    /\ child' = [child EXCEPT ![r] = Ended(r)]
    /\ UNCHANGED << installed, strays, probe >>

Running(r) == child[r].at \notin {"off", "gone"}

\* The process ends without run_done.  Its installer, a process of its own,
\* is not stopped with it.
Kill(r) ==
    /\ child' = [child EXCEPT ![r] = Ended(r)]
    /\ strays' = IF child[r].at = "install" THEN strays \union {child[r].cur}
                                            ELSE strays

Die(r) ==
    /\ Running(r)
    /\ Kill(r)
    /\ UNCHANGED << installed, pipe, probe >>

StrayEnds ==
    /\ \E t \in strays, changed \in BOOLEAN :
          /\ strays' = strays \ {t}
          /\ installed' = IF changed THEN [installed EXCEPT ![t] = Latest]
                                     ELSE installed
    /\ UNCHANGED << child, pipe, probe >>

-----------------------------------------------------------------------------
(* The check.  Every provider is probed before the first result is         *)
(* written; a provider whose manager gives no answer counts as current.    *)
(* `left` holds the providers whose result the app has not taken yet.      *)

CollectLatestVersions ==
    /\ probe.at = "reading"
    /\ \E answered \in SUBSET Tools :
          LET behind == {t \in answered : installed[t] \in 1..(Latest - 1)}
          IN  probe' = [at |-> "writing", behind |-> behind, left |-> Tools]
    /\ UNCHANGED << installed, child, pipe, strays >>

ProcNext(r) ==
    \/ ExplainPlans(r) \/ SkipMissing(r) \/ StartLoop(r) \/ PassOver(r)
    \/ StartInstall(r) \/ EndInstall(r) \/ FinishRun(r) \/ Die(r)

Children ==
    [at : {"off", "detect", "confirm", "loop", "install", "gone"},
     todo : SUBSET Tools, missing : BOOLEAN, declined : SUBSET Tools,
     cur : Tools \union {NoTool},
     before : [Tools -> Versions], late : BOOLEAN, failed : SUBSET Tools]

ProcTypeOK ==
    /\ installed \in [Tools -> Versions]
    /\ child \in [Runs -> Children]
    /\ pipe \in [Runs -> Seq(Events)]
    /\ strays \in SUBSET Tools
    /\ probe \in [at : {"off", "reading", "writing"}, behind : SUBSET Tools,
                 left : SUBSET Tools]
=============================================================================
