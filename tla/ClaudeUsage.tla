---------------------------- MODULE ClaudeUsage ----------------------------
(***************************************************************************)
(* The Claude usage fetch (internal/usage/claude.go) and the last-good     *)
(* cache beside it (claude_usage_cache.go), run by several oct processes   *)
(* at once.  The cache file holds the numbers of the last good answer and, *)
(* after a 429, the time until which the endpoint is to be left alone.     *)
(* Only the writer that records a 429 takes the lock.  A request is sent   *)
(* by netclient's client, which repeats it on its own.                     *)
(***************************************************************************)
EXTENDS Integers

CONSTANTS
    Proc, NoProc,
    RetryAfter,      \* Retry-After values of a 429, 0 for none or unreadable
    BackoffDefault,  \* claudeRateLimitBackoffDefault
    BackoffMax,      \* claudeRateLimitBackoffMax
    MaxRetries,      \* DefaultClient.MaxRetries
    MaxRetryDelay,   \* maxRetryAfterDelay, the longest Retry-After the client waits out
    MaxAge,          \* claudeUsageCacheMaxAge
    MaxTime,         \* bound on the clock
    MaxRuns          \* bound on the fetches of all processes together

ASSUME ProcAssumption == NoProc \notin Proc
ASSUME DurationAssumption ==
    /\ RetryAfter \subseteq Nat
    /\ BackoffDefault \in Nat \ {0} /\ BackoffMax \in Nat /\ BackoffDefault <= BackoffMax
    /\ MaxAge \in Nat
    /\ MaxRetries \in Nat /\ MaxRetryDelay \in Nat
ASSUME BoundAssumption == MaxTime \in Nat /\ MaxRuns \in Nat

\* Numbers are told apart by the time the endpoint gave them; a file without
\* numbers has None.  The clock starts at 1: a stored 0 means "not set".
None == 0
NoEntry == [fetchedAt |-> 0, backoff |-> 0, buckets |-> None]

VARIABLES
    clock,
    cache,     \* the cache file
    lock,      \* holder of the lock beside it
    pc,        \* where the fetch of each process stands
    call,      \* attempts the client made for it, and when it may make the next
    answer,    \* what the endpoint gave it, or the cached entry it has read
    bare,      \* it records its 429 without the lock
    row,       \* the usage row reported last
    runs,
    \* History, not kept by the program.
    saved,     \* pairs of numbers and recording time of all good fetches
    sent       \* requests each process sent since the backoff in the file was recorded

vars == << clock, cache, lock, pc, call, answer, bare, row, runs, saved, sent >>

NoAnswer == [at |-> 0, retry |-> 0, entry |-> NoEntry]
NoCall == [tries |-> 0, wake |-> 0]
NoRow == [status |-> "none", source |-> "none", entry |-> NoEntry, at |-> 0]

Init ==
    /\ clock = 1
    /\ cache = NoEntry
    /\ lock = NoProc
    /\ pc = [p \in Proc |-> "idle"]
    /\ call = [p \in Proc |-> NoCall]
    /\ answer = [p \in Proc |-> NoAnswer]
    /\ bare = [p \in Proc |-> FALSE]
    /\ row = NoRow
    /\ runs = 0
    /\ saved = {}
    /\ sent = [p \in Proc |-> 0]

Tick ==
    /\ clock < MaxTime
    /\ clock' = clock + 1
    /\ UNCHANGED << cache, lock, pc, call, answer, bare, row, runs, saved, sent >>

Goto(p, label) == pc' = [pc EXCEPT ![p] = label]

\* The fetch returns this row; a held lock is released on the way out.
Return(p, status, source, entry) ==
    /\ Goto(p, "idle")
    /\ row' = [status |-> status, source |-> source, entry |-> entry, at |-> clock]
    /\ call' = [call EXCEPT ![p] = NoCall]
    /\ answer' = [answer EXCEPT ![p] = NoAnswer]
    /\ bare' = [bare EXCEPT ![p] = FALSE]

\* The token is looked for in the keychain, the credentials file and the
\* environment; only the keychain can tell an expired one.
Fetch(p) ==
    /\ pc[p] = "idle" /\ runs < MaxRuns
    /\ runs' = runs + 1
    /\ \/ Goto(p, "check")
       \/ Goto(p, "notoken")
    /\ UNCHANGED << call, clock, cache, lock, answer, bare, row, saved, sent >>

\* Without a token the claude CLI is asked; failing that the row says whether
\* the token can be refreshed, has expired for good, or was never there.
NoToken(p) ==
    /\ pc[p] = "notoken"
    /\ \/ Return(p, "ok", "claude-cli", NoEntry)
       \/ \E status \in {"warn", "error", "ok"} : Return(p, status, "cli", NoEntry)
    /\ UNCHANGED << clock, cache, lock, runs, saved, sent >>

InBackoff(entry) == entry.backoff > clock

\* lastGoodClaudeUsage
Servable(entry) == entry.buckets # None /\ clock - entry.fetchedAt <= MaxAge

\* Inside a backoff window the endpoint is not touched.  The cache is read
\* once for the deadline and again for the numbers.
HoldBack(p) ==
    /\ pc[p] = "check" /\ InBackoff(cache)
    /\ Goto(p, "held")
    /\ UNCHANGED << call, clock, cache, lock, answer, bare, row, runs, saved, sent >>

Serve(p) ==
    /\ pc[p] \in {"held", "limited"}
    /\ IF Servable(cache) THEN Return(p, "ok", "cache", cache)
                          ELSE Return(p, "warn", "cli", NoEntry)
    /\ UNCHANGED << clock, cache, lock, runs, saved, sent >>

\* Mutant: the backoff is not looked at.
RequestAnyway(p) ==
    /\ pc[p] = "check"
    /\ Goto(p, "request")
    /\ UNCHANGED << call, clock, cache, lock, answer, bare, row, runs, saved, sent >>

Request(p) ==
    /\ pc[p] = "check" /\ ~InBackoff(cache)
    /\ Goto(p, "request")
    /\ UNCHANGED << call, clock, cache, lock, answer, bare, row, runs, saved, sent >>

\* One attempt of DoWithRetry: it leaves after the check, the cache may have
\* changed by then, and no later attempt looks at it again.
Send(p) ==
    /\ pc[p] \in {"request", "asleep"}
    /\ call[p].tries <= MaxRetries /\ call[p].wake <= clock
    /\ call' = [call EXCEPT ![p].tries = @ + 1]
    /\ Goto(p, "sent")
    /\ sent' = [sent EXCEPT ![p] = @ + 1]
    /\ UNCHANGED << clock, cache, lock, answer, bare, row, runs, saved >>

\* A server error or a timeout is tried again after some seconds, which are
\* short beside the unit of the clock; a 429 after the wait it asks for, when
\* that is not too long.  The last attempt is not repeated.
Sleep(p, wait) ==
    /\ pc[p] = "sent" /\ call[p].tries <= MaxRetries
    /\ call' = [call EXCEPT ![p].wake = clock + wait]
    /\ Goto(p, "asleep")
    /\ UNCHANGED << clock, cache, lock, answer, bare, row, runs, saved, sent >>

WaitedOut(r) == 0 < r /\ r <= MaxRetryDelay

Retry(p) ==
    \/ Sleep(p, 0)
    \/ \E r \in RetryAfter : WaitedOut(r) /\ Sleep(p, r)

\* The deadline of the fetch passes before an attempt or during a wait.
Canceled(p) ==
    /\ pc[p] \in {"request", "asleep"}
    /\ Return(p, "error", "cli", NoEntry)
    /\ UNCHANGED << clock, cache, lock, runs, saved, sent >>

\* The answer the client hands on.
Hear(p, r, label) ==
    /\ answer' = [answer EXCEPT ![p].at = clock, ![p].retry = r]
    /\ call' = [call EXCEPT ![p] = NoCall]
    /\ Goto(p, label)

\* 200 with a positive utilization in one of the windows.
GoodAnswer(p) ==
    /\ pc[p] = "sent"
    /\ Hear(p, 0, "save")
    /\ UNCHANGED << clock, cache, lock, bare, row, runs, saved, sent >>

\* 200 without numbers and 401 ask the CLI first; anything else is an error.
PoorAnswer(p) ==
    /\ pc[p] = "sent"
    /\ \/ Return(p, "ok", "claude-cli", NoEntry)
       \/ Return(p, "ok", "oauth", NoEntry)
       \/ Return(p, "error", "cli", NoEntry)
    /\ UNCHANGED << clock, cache, lock, runs, saved, sent >>

\* The fetch sees a 429 that names no wait or too long a one, or the last one;
\* a date, which only the client can read, is no wait to it.
RateLimited(p) ==
    /\ pc[p] = "sent"
    /\ \E r \in RetryAfter :
          /\ WaitedOut(r) => call[p].tries > MaxRetries
          /\ Hear(p, r, "mark")
    /\ UNCHANGED << clock, cache, lock, bare, row, runs, saved, sent >>

\* saveClaudeLastGoodUsage: the whole entry is replaced, without the lock.
SaveLastGood(p) ==
    LET numbers == answer[p].at IN
    /\ pc[p] = "save"
    /\ cache' = [fetchedAt |-> clock, backoff |-> 0, buckets |-> numbers]
    /\ saved' = saved \cup {<< numbers, clock >>}
    /\ sent' = [q \in Proc |-> 0]
    /\ Return(p, "ok", "oauth", NoEntry)
    /\ UNCHANGED << clock, lock, runs >>

\* The cache directory or file cannot be written: the row is still good.
SaveFails(p) ==
    /\ pc[p] = "save"
    /\ Return(p, "ok", "oauth", NoEntry)
    /\ UNCHANGED << clock, cache, lock, runs, saved, sent >>

\* markClaudeRateLimited: lockFile tries every 25 ms until the fetch deadline
\* passes, and the 429 is then recorded without the lock.
TakeLock(p) ==
    /\ pc[p] = "mark" /\ lock = NoProc
    /\ lock' = p
    /\ Goto(p, "read")
    /\ UNCHANGED << call, clock, cache, answer, bare, row, runs, saved, sent >>

GiveUpLock(p) ==
    /\ pc[p] = "mark"
    /\ bare' = [bare EXCEPT ![p] = TRUE]
    /\ Goto(p, "read")
    /\ UNCHANGED << call, clock, cache, lock, answer, row, runs, saved, sent >>

ReadForMark(p) ==
    /\ pc[p] = "read"
    /\ answer' = [answer EXCEPT ![p].entry = cache]
    /\ Goto(p, "write")
    /\ UNCHANGED << call, clock, cache, lock, bare, row, runs, saved, sent >>

\* Mutant: the server's Retry-After is not capped.
BackoffUncapped(retry) == IF retry = 0 THEN BackoffDefault ELSE retry

Backoff(retry) ==
    LET asked == IF retry = 0 THEN BackoffDefault ELSE retry
    IN  IF asked > BackoffMax THEN BackoffMax ELSE asked

\* Mutant: recording a 429 makes the numbers look new.
MarkedAfresh(p) ==
    [answer[p].entry EXCEPT !.backoff = answer[p].at + Backoff(answer[p].retry), !.fetchedAt = answer[p].at]

\* `now` was taken when the 429 came, before the lock was asked for.
Marked(p) ==
    LET a == answer[p] IN
    [a.entry EXCEPT !.backoff = a.at + Backoff(a.retry),
                    !.fetchedAt = IF @ = 0 THEN a.at ELSE @]

Unlock(p) == lock' = IF lock = p THEN NoProc ELSE lock

WriteMark(p) ==
    /\ pc[p] = "write"
    /\ cache' = Marked(p)
    /\ sent' = [q \in Proc |-> 0]
    /\ Unlock(p)
    /\ Goto(p, "limited")
    /\ UNCHANGED << call, clock, answer, bare, row, runs, saved >>

WriteMarkFails(p) ==
    /\ pc[p] = "write"
    /\ Unlock(p)
    /\ Goto(p, "limited")
    /\ UNCHANGED << call, clock, cache, answer, bare, row, runs, saved, sent >>

\* Claude Code's own cache in ~/.claude.json comes before oct's.
ServeOwn(p) ==
    /\ pc[p] = "limited"
    /\ Return(p, "ok", "claude.json", NoEntry)
    /\ UNCHANGED << clock, cache, lock, runs, saved, sent >>

\* The deadline of GetUsage passes and the process ends with the fetch still
\* under way: the caller has its timeout row, the fetch is never finished.
Abandon(p) ==
    /\ pc[p] # "idle"
    /\ Unlock(p)
    /\ Return(p, "error", "oct", NoEntry)
    /\ UNCHANGED << clock, cache, runs, saved, sent >>

Next ==
    \/ Tick
    \/ \E p \in Proc :
          \/ Fetch(p) \/ NoToken(p) \/ HoldBack(p) \/ Serve(p)
          \/ Request(p) \/ Send(p) \/ Retry(p) \/ Canceled(p)
          \/ GoodAnswer(p) \/ PoorAnswer(p) \/ RateLimited(p)
          \/ SaveLastGood(p) \/ SaveFails(p)
          \/ TakeLock(p) \/ GiveUpLock(p) \/ ReadForMark(p) \/ WriteMark(p)
          \/ WriteMarkFails(p) \/ ServeOwn(p)
          \/ Abandon(p)

Spec == Init /\ [][Next]_vars

-----------------------------------------------------------------------------
Entry == [fetchedAt : Nat, backoff : Nat, buckets : Nat]

TypeOK ==
    /\ clock \in Nat
    /\ cache \in Entry
    /\ lock \in Proc \cup {NoProc}
    /\ pc \in [Proc -> {"idle", "check", "notoken", "held", "request", "sent", "asleep",
                        "save", "mark", "read", "write", "limited"}]
    /\ call \in [Proc -> [tries : 0..(MaxRetries + 1), wake : Nat]]
    /\ answer \in [Proc -> [at : Nat, retry : Nat, entry : Entry]]
    /\ bare \in [Proc -> BOOLEAN]
    /\ row \in [status : {"none", "ok", "warn", "error"},
                source : {"none", "oauth", "cli", "claude-cli", "cache", "claude.json", "oct"},
                entry : Entry, at : Nat]
    /\ runs \in Nat
    /\ saved \in SUBSET (Nat \X Nat)
    /\ sent \in [Proc -> Nat]

\* Numbers in the file carry the time a good fetch recorded them, whatever
\* 429s were recorded over them since and whoever overwrote whom; numbers
\* served from it are never older than the limit (lastGoodClaudeUsage).
ServedNumbersAreDated ==
    /\ cache.buckets # None => << cache.buckets, cache.fetchedAt >> \in saved
    /\ row.source = "cache" =>
          /\ << row.entry.buckets, row.entry.fetchedAt >> \in saved
          /\ row.at - row.entry.fetchedAt <= MaxAge

\* However long the server asks to wait, and however late the 429 is
\* recorded, the endpoint is never shut out for longer than the maximum.
BackoffIsBounded == cache.backoff <= clock + BackoffMax

\* A recorded 429 silences the endpoint: until the backoff ends or a good
\* answer replaces it, only fetches that had already passed the check still
\* send, none of them more than the attempts of one call (DoWithRetry never
\* checks again), and some process, the one that recorded it, sends nothing.
EndpointLeftAlone ==
    InBackoff(cache) =>
        /\ \A p \in Proc : sent[p] <= MaxRetries + 1
        /\ \E p \in Proc : sent[p] = 0

=============================================================================
