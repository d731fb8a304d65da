-------------------------- MODULE AntigravityUsage --------------------------
(***************************************************************************)
(* The Antigravity usage fetch (internal/usage/gemini.go) with its cache   *)
(* and lock (antigravity_cache.go, antigravity_lock.go).  A refresh boots  *)
(* the whole `agy` CLI, so the processes share a lock and a cache that     *)
(* keep the runs of `agy` one at a time and apart from one another.        *)
(***************************************************************************)
EXTENDS Integers, FiniteSets

CONSTANTS
    Proc, NoProc,
    MinInterval,   \* antigravityMinFetchInterval
    AuthBackoff,   \* antigravityAuthBackoff
    MaxAge,        \* antigravityCacheMaxAge
    MaxTime,       \* bound on the clock
    MaxRuns        \* bound on the fetches of all processes together

ASSUME ProcAssumption == NoProc \notin Proc
ASSUME DurationAssumption ==
    /\ MinInterval \in Nat /\ AuthBackoff \in Nat /\ MaxAge \in Nat
    /\ MinInterval <= AuthBackoff
ASSUME BoundAssumption == MaxTime \in Nat /\ MaxRuns \in Nat

\* Numbers are told apart by the time `agy` printed them.  The clock starts
\* at 1: a stored 0 means "not set".
None == 0
NoEntry == [fetchedAt |-> 0, backoff |-> 0, buckets |-> None]

VARIABLES
    clock,
    cache,    \* the cache file
    lock,     \* holder of the lock beside it
    pc, now,  \* where each fetch stands, and the time it took under the lock
    agy,      \* processes that wait for an `agy` command they have running
    left,     \* number of `agy` commands running whose oct process is gone
    row,      \* the usage row reported last, and the time it goes by
    runs,
    \* History, not kept by the program.
    saved,    \* pairs of numbers and recording time of all good runs
    killed,   \* number of oct processes killed while their `agy` ran
    last      \* the run of `agy` before this one: its time and how it ended

vars == << clock, cache, lock, pc, now, agy, left, row, runs, saved, killed, last >>

NoRow == [status |-> "none", source |-> "none", entry |-> NoEntry, at |-> 0]

Init ==
    /\ clock = 1
    /\ cache = NoEntry
    /\ lock = NoProc
    /\ pc = [p \in Proc |-> "idle"]
    /\ now = [p \in Proc |-> 0]
    /\ agy = {}
    /\ left = 0
    /\ row = NoRow
    /\ runs = 0
    /\ saved = {}
    /\ killed = 0
    /\ last = [at |-> 0, end |-> "none"]

Tick ==
    /\ clock < MaxTime
    /\ clock' = clock + 1
    /\ UNCHANGED << cache, lock, pc, now, agy, left, row, runs, saved, killed, last >>

Goto(p, label) == pc' = [pc EXCEPT ![p] = label]

\* The fetch returns this row and the deferred unlock runs.
Return(p, status, source, entry, t) ==
    /\ Goto(p, "idle")
    /\ lock' = IF lock = p THEN NoProc ELSE lock
    /\ now' = [now EXCEPT ![p] = 0]
    /\ row' = [status |-> status, source |-> source, entry |-> entry, at |-> t]

Fetch(p) ==
    /\ pc[p] = "idle" /\ runs < MaxRuns
    /\ runs' = runs + 1
    /\ Goto(p, "lock")
    /\ UNCHANGED << left, killed, clock, cache, lock, now, agy, row, saved, last >>

\* lockFile, tried every 25 ms.
TakeLock(p) ==
    /\ pc[p] = "lock" /\ lock = NoProc
    /\ lock' = p
    /\ now' = [now EXCEPT ![p] = clock]
    /\ Goto(p, "hold")
    /\ UNCHANGED << left, killed, clock, cache, agy, row, runs, saved, last >>

\* serveAntigravityCachedUsage
Servable(entry, t) == entry.buckets # None /\ t - entry.fetchedAt <= MaxAge

ServeCached(p, t) ==
    IF Servable(cache, t) THEN Return(p, "ok", "cache", cache, t)
                          ELSE Return(p, "warn", "agy-cli", NoEntry, t)

\* Mutant: without the lock the fetch goes on, as after a Claude 429.
GoOnUnlocked(p) ==
    /\ pc[p] = "lock"
    /\ now' = [now EXCEPT ![p] = clock]
    /\ Goto(p, "hold")
    /\ UNCHANGED << left, killed, clock, cache, lock, agy, row, runs, saved, last >>

\* The fetch deadline passes while waiting, or the lock file cannot be opened.
LockUnavailable(p) ==
    /\ pc[p] = "lock"
    /\ ServeCached(p, clock)
    /\ UNCHANGED << left, killed, clock, cache, agy, runs, saved, last >>

\* Mutants: one of the two reasons is not looked at.
OnHoldForAuth(p) == cache.backoff > clock
OnHoldForInterval(p) == cache.fetchedAt # 0 /\ now[p] - cache.fetchedAt < MinInterval

\* antigravityFetchHold: the auth pause is measured from the real time, the
\* interval from the time taken under the lock.
OnHold(p) ==
    \/ cache.backoff > clock
    \/ cache.fetchedAt # 0 /\ now[p] - cache.fetchedAt < MinInterval

Hold(p) ==
    /\ pc[p] = "hold" /\ OnHold(p)
    /\ ServeCached(p, now[p])
    /\ UNCHANGED << left, killed, clock, cache, agy, runs, saved, last >>

RunAgy(p) ==
    /\ pc[p] = "hold" /\ ~OnHold(p)
    /\ agy' = agy \cup {p}
    /\ last' = [at |-> now[p], end |-> "running"]
    /\ Goto(p, "agy")
    /\ UNCHANGED << left, killed, clock, cache, lock, now, row, runs, saved >>

AgyEnds(p, end) ==
    /\ pc[p] = "agy"
    /\ agy' = agy \ {p}
    /\ last' = [last EXCEPT !.end = end]

\* saveAntigravityLastGoodUsage; the file may not be writable.
GoodRun(p) ==
    \/ /\ AgyEnds(p, "good")
       /\ cache' = [fetchedAt |-> now[p], backoff |-> 0, buckets |-> clock]
       /\ saved' = saved \cup {<< clock, now[p] >>}
       /\ Return(p, "ok", "agy-cli", NoEntry, clock)
       /\ UNCHANGED << left, killed, clock, runs >>
    \/ /\ AgyEnds(p, "unwritten")
       /\ Return(p, "ok", "agy-cli", NoEntry, clock)
       /\ UNCHANGED << left, killed, clock, cache, runs, saved >>

\* Mutant: recording a failed login makes the numbers look new.
MarkedAfresh(entry, t) ==
    [entry EXCEPT !.backoff = t + AuthBackoff, !.fetchedAt = t]

\* markAntigravityAuthFailure keeps the last good numbers and their time.
Marked(entry, t) == [entry EXCEPT !.backoff = t + AuthBackoff,
                                  !.fetchedAt = IF @ = 0 THEN t ELSE @]

\* The output carries an auth problem; the file may not be writable.
AuthFailure(p) ==
    \/ /\ AgyEnds(p, "auth")
       /\ cache' = Marked(cache, now[p])
       /\ Return(p, "error", "agy-cli", NoEntry, clock)
       /\ UNCHANGED << left, killed, clock, runs, saved >>
    \/ /\ AgyEnds(p, "unwritten")
       /\ Return(p, "error", "agy-cli", NoEntry, clock)
       /\ UNCHANGED << left, killed, clock, cache, runs, saved >>

\* `agy` fails otherwise, is killed at the deadline, prints nothing or nothing
\* that parses: the base row is returned and the cache is not touched.
UselessRun(p) ==
    /\ AgyEnds(p, "useless")
    /\ Return(p, "warn", "agy-cli", NoEntry, clock)
    /\ UNCHANGED << left, killed, clock, cache, runs, saved >>

\* The oct process is killed.  The kernel releases the lock at once; its `agy`,
\* in a session of its own, runs on.
Killed(p) ==
    /\ pc[p] # "idle"
    /\ Goto(p, "idle")
    /\ lock' = IF lock = p THEN NoProc ELSE lock
    /\ now' = [now EXCEPT ![p] = 0]
    /\ agy' = agy \ {p}
    /\ IF p \in agy THEN /\ left' = left + 1 /\ killed' = killed + 1
                         /\ last' = [last EXCEPT !.end = "killed"]
                    ELSE UNCHANGED << left, killed, last >>
    /\ UNCHANGED << clock, cache, row, runs, saved >>

\* An `agy` nobody waits for ends, when it likes; what it printed is lost.
LeftAgyEnds ==
    /\ left > 0
    /\ left' = left - 1
    /\ UNCHANGED << clock, cache, lock, pc, now, agy, row, runs, saved, killed, last >>

Next ==
    \/ Tick \/ LeftAgyEnds
    \/ \E p \in Proc :
          \/ Fetch(p) \/ TakeLock(p) \/ LockUnavailable(p) \/ Hold(p) \/ RunAgy(p)
          \/ GoodRun(p) \/ AuthFailure(p) \/ UselessRun(p)
          \/ Killed(p)

Spec == Init /\ [][Next]_vars

-----------------------------------------------------------------------------
Entry == [fetchedAt : Nat, backoff : Nat, buckets : Nat]

TypeOK ==
    /\ clock \in Nat
    /\ cache \in Entry
    /\ lock \in Proc \cup {NoProc}
    /\ pc \in [Proc -> {"idle", "lock", "hold", "agy"}]
    /\ now \in [Proc -> Nat]
    /\ agy \in SUBSET Proc
    /\ left \in Nat /\ killed \in Nat
    /\ row \in [status : {"none", "ok", "warn", "error"},
                source : {"none", "cache", "agy-cli"}, entry : Entry, at : Nat]
    /\ runs \in Nat
    /\ saved \in SUBSET (Nat \X Nat)
    /\ last \in [at : Nat, end : {"none", "running", "good", "auth", "useless", "unwritten",
                           "killed"}]

Running == Cardinality(agy) + left

\* The lock serializes the runs of `agy` (lockAntigravityUsage), also when a
\* process gives up waiting.  A kill takes the lock from an `agy` that runs on:
\* each lets one more run beside the others, and nothing else does.
OneAgyAtATime == Running <= 1 + killed

\* Cached numbers carry the time of the run that printed them, whatever auth
\* failures were recorded over them, and are not served beyond the age limit.
ServedNumbersAreDated ==
    /\ cache.buckets # None => << cache.buckets, cache.fetchedAt >> \in saved
    /\ row.source = "cache" =>
          /\ << row.entry.buckets, row.entry.fetchedAt >> \in saved
          /\ row.at - row.entry.fetchedAt <= MaxAge

Starts == last'.end = "running" /\ last' # last

\* A new run of `agy` is a full interval after one that gave numbers, in
\* whichever process that one was.
RunsAreSpaced ==
    [][ Starts /\ last.end = "good" => last'.at - last.at >= MinInterval ]_vars

\* After a failed login nobody runs `agy` again before the pause is over.
AuthPauseIsKept ==
    [][ Starts /\ last.end = "auth" => clock - last.at >= AuthBackoff ]_vars

=============================================================================
