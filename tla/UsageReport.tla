----------------------------- MODULE UsageReport -----------------------------
(***************************************************************************)
(* One `oct usage --json`: GetUsage (internal/usage/usage.go) runs a       *)
(* fetcher per row, all under one deadline; each fetcher makes its calls   *)
(* through the retry client (internal/netclient/client.go); the command    *)
(* (cmd/usage.go) then sends the usage alerts and prints the rows.         *)
(*                                                                         *)
(* Time is in seconds since the start.  The rows come from UsageRows and   *)
(* what each fetcher does from ProviderFetch.                              *)
(***************************************************************************)
EXTENDS ProviderFetch

CONSTANTS
    Cases,         \* the configurations and machines: records [cfg, has, override, alerts]
    RetryAfters,   \* the waits a 429 asks for; 0 when it asks for none
    MaxRetries,    \* of the retry client
    NotifyTimeout, \* of one notification command
    KilledAt       \* when the menubar app terminates the command

ASSUME MaxRetriesAssumption == MaxRetries \in Nat
ASSUME CasesAssumption == \A c \in Cases : c.cfg \in Configurations
ASSUME TimesAssumption == NotifyTimeout \in Nat /\ KilledAt \in Nat /\ RetryAfters \subseteq Nat

VARIABLES
    case,   \* the configuration, the sources `has[i]` there for row i, the timeout asked for
    job,    \* the rows to fetch, from the configuration
    call,   \* call[i]: the fetcher of row i and its call in flight
    row,    \* row[i]: the finished row, Ask until then
    now,
    phase,  \* "fetch", "notify", "print", "printed"
    notify  \* notifications sent, and when the running one started

vars == << case, job, call, row, now, phase, notify >>

-----------------------------------------------------------------------------
(* The deadline.                                                           *)

Unset == -1
FetchTimeoutFloor   == 5
FetchTimeoutCeiling == 18
UsageFetchTimeout   == 15

\* Mutant: the override is taken as it is.
timeoutUnclamped(override) == IF override = Unset THEN UsageFetchTimeout ELSE override

effectiveFetchTimeout(override) ==
    CASE override = Unset -> UsageFetchTimeout
      [] override # Unset /\ override < FetchTimeoutFloor -> FetchTimeoutFloor
      [] override # Unset /\ override > FetchTimeoutCeiling -> FetchTimeoutCeiling
      [] OTHER -> override

Deadline == effectiveFetchTimeout(case.override)
ctxDone  == now >= Deadline

-----------------------------------------------------------------------------
(* The jobs.                                                               *)

Rows   == DOMAIN row
World(i) == [home |-> job[i].home, has |-> case.has[i]]
Coming(i) == Fetch(job[i].provider, World(i), call[i].heard)

\* A fetcher that wants a call, and no call of it is out.
Calling(i) == row[i] = Ask /\ call[i].at = "idle" /\ Coming(i) = Ask

TimedOut == Row("error", "oct", "n/a", NoLogin)

NoCall(heard) == [at |-> "idle", heard |-> heard, tries |-> 0, wake |-> 0, until |-> 0]

Init ==
    /\ case \in Cases
    /\ job  = Jobs(case.cfg)
    /\ call = [i \in DOMAIN job |-> NoCall(<< >>)]
    /\ row  = [i \in DOMAIN job |-> Ask]
    /\ now = 0
    /\ phase = "fetch"
    /\ notify = [sent |-> 0, since |-> 0]

-----------------------------------------------------------------------------
(* DoWithRetry.                                                            *)

\* maxRetryAfterDelay is a minute.
retryAfterDelay(n) == n > 0 /\ n <= 60

\* Mutant: every retry follows the exponential schedule.
backoffBlind(tries, n) == 2 ^ (tries - 1)

\* A wait the endpoint asked for replaces the exponential one.
backoff(tries, n) == IF retryAfterDelay(n) THEN n ELSE 2 ^ (tries - 1)

Hear(i, a) == call' = [call EXCEPT ![i] = NoCall(Append(@.heard, a))]

\* An attempt is refused once the context is done.
Send(i) ==
    /\ Calling(i) \/ (call[i].at = "asleep" /\ now >= call[i].wake)
    /\ row[i] = Ask
    /\ IF ctxDone THEN Hear(i, "bad")
       ELSE call' = [call EXCEPT ![i].at = "sent", ![i].tries = @ + 1]
    /\ UNCHANGED << case, job, row, now, phase, notify >>

\* A 200, another status that is not retried, or a failure that is not a timeout.
Answered(i) ==
    /\ row[i] = Ask /\ call[i].at = "sent"
    /\ \E a \in Answer : Hear(i, a)
    /\ UNCHANGED << case, job, row, now, phase, notify >>

\* A 5xx, a timeout, or a 429 that says how long to wait: all are retried.
Retry(i, n) ==
    /\ row[i] = Ask /\ call[i].at = "sent"
    /\ IF call[i].tries = MaxRetries + 1 THEN Hear(i, "bad")
       ELSE call' = [call EXCEPT ![i].at = "asleep",
                                 ![i].wake = now + backoff(call[i].tries, n),
                                 ![i].until = IF retryAfterDelay(n) THEN now + n ELSE 0]
    /\ UNCHANGED << case, job, row, now, phase, notify >>

\* A 429 without a usable Retry-After surfaces at once.
RateLimited(i, n) ==
    IF retryAfterDelay(n) THEN Retry(i, n)
    ELSE /\ row[i] = Ask /\ call[i].at = "sent"
         /\ Hear(i, "bad")
         /\ UNCHANGED << case, job, row, now, phase, notify >>

\* The context ends the request in flight, or the sleep between two.
Canceled(i) ==
    /\ ctxDone
    /\ row[i] = Ask /\ call[i].at \in {"sent", "asleep"}
    /\ Hear(i, "bad")
    /\ UNCHANGED << case, job, row, now, phase, notify >>

-----------------------------------------------------------------------------
(* fetchWithDeadline, and the end of the report.                           *)

Finish(i) ==
    /\ row[i] = Ask /\ call[i].at = "idle" /\ Coming(i) # Ask
    /\ row' = [row EXCEPT ![i] = Coming(i)]
    /\ UNCHANGED << case, job, call, now, phase, notify >>

\* A fetcher that does not come back is abandoned where it is.
Expire(i) ==
    /\ ctxDone /\ row[i] = Ask
    /\ row' = [row EXCEPT ![i] = TimedOut]
    /\ UNCHANGED << case, job, call, now, phase, notify >>

AllDone == \A i \in Rows : row[i] # Ask

\* MaybeSendUsageAlerts runs before anything is printed.
Fetched ==
    /\ phase = "fetch" /\ AllDone
    /\ phase' = IF case.alerts THEN "notify" ELSE "print"
    /\ notify' = [notify EXCEPT !.since = now]
    /\ UNCHANGED << case, job, call, row, now >>

\* One notification command after the other, at most one per row, each cut off
\* at its timeout.
Notified ==
    /\ phase = "notify"
    /\ IF notify.sent < Len(row)
       THEN /\ notify' = [sent |-> notify.sent + 1, since |-> now]
            /\ phase' \in {"notify", "print"}
       ELSE phase' = "print" /\ UNCHANGED notify
    /\ UNCHANGED << case, job, call, row, now >>

printUsageOutputMode ==
    /\ phase = "print"
    /\ phase' = "printed"
    /\ UNCHANGED << case, job, call, row, now, notify >>

\* Time does not pass while a finished deadline or a notification's end is
\* being handled, nor once the menubar app has given the command up.
Tick ==
    /\ now < KilledAt
    /\ CASE phase = "fetch"  -> ~ctxDone /\ ~AllDone
         [] phase = "notify" -> now < notify.since + NotifyTimeout
         [] OTHER -> FALSE
    /\ now' = now + 1
    /\ UNCHANGED << case, job, call, row, phase, notify >>

Next ==
    \/ \E i \in Rows :
          \/ Send(i) \/ Answered(i) \/ Canceled(i) \/ Finish(i) \/ Expire(i)
          \/ Retry(i, 0)
          \/ \E n \in RetryAfters : RateLimited(i, n)
    \/ Fetched \/ Notified \/ printUsageOutputMode
    \/ Tick

\* The clock runs, abandoned and finished fetchers are collected, and the
\* command goes on; nothing is assumed of the network or of a fetcher.
Fairness ==
    /\ WF_vars(Tick)
    /\ WF_vars(\E i \in Rows : Expire(i))
    /\ WF_vars(Fetched \/ Notified \/ printUsageOutputMode)

Spec == Init /\ [][Next]_vars /\ Fairness

-----------------------------------------------------------------------------
(* Properties.                                                             *)

\* The type invariant.
TypeOK ==
    /\ case \in Cases
    /\ phase \in {"fetch", "notify", "print", "printed"}
    /\ now \in 0 .. KilledAt
    /\ \A i \in Rows :
          /\ call[i].at \in {"idle", "sent", "asleep"}
          /\ ToSet(call[i].heard) \subseteq Answer
          /\ call[i].tries \in 0 .. MaxRetries + 1
    /\ notify.sent \in 0 .. Len(row)

Reported == {p \in ToSet(providers) :
    \/ \E t \in ToSet(SelectedTools(case.cfg)) : lookupProviderName(t) = p
    \/ p \in standaloneAllowedNames(case.cfg)}

\* Every selected provider has its rows, each of them once: one per account, or
\* its own when it has none (GetUsage, usage.go:99-216).
EveryRowOnce == phase = "printed" =>
    /\ Cardinality({job[i].label : i \in Rows}) = Len(job)
    /\ {job[i].provider : i \in Rows} = Reported
    /\ \A p \in Reported :
          LET homes == {e.home : e \in ToSet(AccountsForProvider(case.cfg, p))}
          IN  {job[i].home : i \in {j \in Rows : job[j].provider = p}} =
                  IF homes = {} THEN {None} ELSE homes

\* The user has not registered one directory twice.
HomesApart == \A c \in Cases, p \in AccountKinds :
    \A e, f \in ToSet(AccountsForProvider(c.cfg, p)) : e.home = f.home => e = f

HasNumbers(i) == row[i].used \in {"percent", "count", "amount"}

\* No two rows show the numbers of the same login: an account row never falls
\* back to a credential that is not its own (kimi.go:95-97, grok.go:85-88).
LoginsOnce ==
    \A i, j \in Rows :
        /\ i # j /\ job[i].provider = job[j].provider
        /\ HasNumbers(i) /\ HasNumbers(j)
        => row[i].login.of # row[j].login.of

\* The source `oct doctor` names for a provider, "the source that would actually
\* be used", is the one its numbers come from (credentials.go:48-50): the probe
\* and the fetcher are two lists of places.  They differ, and are left out here,
\* for a Cursor key without the endpoint it is for, the endpoint override of
\* Codex, and for OpenCode Go and Z.ai an auth.json with a number in any entry.
DoctorNamesTheSource ==
    \A i \in Rows :
        LET p == job[i].provider
            w == World(i)
        IN  /\ HasNumbers(i) /\ ~row[i].why
            /\ p = "cursor-agent" /\ "env" \in w.has => "custom" \in w.has
            /\ p = "codex" => "custom" \notin w.has
            /\ p \in {"opencode", "zai"} => "dated" \notin w.has
            => DescribeProviderCredentials(p, w) = row[i].login.from

\* Numbers read off the machine because a call failed say so: a reader can
\* tell an estimate from the provider's own answer (codex.go:87-91).
EstimatesSayWhy ==
    \A i \in Rows :
        /\ row[i].source \in {"local", "local-auth"}
        /\ "bad" \in ToSet(call[i].heard)
        => row[i].why

\* A call that was told to wait is not made again before, and none is made more
\* than once and MaxRetries times again (client.go:44-98).
RetriesAreSpaced ==
    [][\A i \in Rows :
          call[i].at # "sent" /\ call'[i].at = "sent" =>
              now >= call[i].until /\ call'[i].tries <= MaxRetries + 1]_vars

\* Whatever the endpoints and the fetchers do, the report is printed; and, with
\* no alert to send, before the menubar app would kill the command, however the
\* deadline is configured (usage.go:45-49).
ReportIsPrinted == <>(phase = "printed" /\ (case.alerts \/ now < KilledAt))
=============================================================================
