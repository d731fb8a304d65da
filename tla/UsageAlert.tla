----------------------------- MODULE UsageAlert -----------------------------
(***************************************************************************)
(* Usage alerts (internal/notify).  Several oct processes -- oct monitor,  *)
(* the menubar's usage --notify, the scheduled task, `oct alert snooze` -- *)
(* share one state file holding the last notification of every alert key   *)
(* and the active snoozes.  Each of them reads the file, decides, perhaps  *)
(* notifies, and writes the whole file back, under an advisory lock that   *)
(* it may fail to get, in which case it goes on without.                   *)
(***************************************************************************)
EXTENDS Integers, FiniteSets

CONSTANTS
    Proc,       \* oct invocations that may run at the same time
    NoProc,     \* nobody holds the lock
    Provider, Window,
    Current,    \* the window name of a row's own value
    Default,    \* the entry a threshold table falls back to
    Unnamed,    \* an unnamed provider or window in a snooze scope
    NoNumber,   \* a reading that does not parse as a percentage
    Config,     \* alert configurations a check may run with
    Reading,    \* usage reports a check may be given
    Scope,      \* snooze scopes the user names
    Cooldown,   \* normalised CooldownMinutes, in clock units
    MaxTime,    \* bound on the clock
    MaxRuns     \* bound on the runs of all processes together

Never == -1

AlertWindow == Window \cup {Current}
AlertKey == Provider \X AlertWindow
ThresholdName == AlertWindow \cup {Default}
ThresholdTable == [ThresholdName -> Nat]
UsageRow == [percent : BOOLEAN,
             used    : Nat \cup {NoNumber},
             buckets : [Window -> Nat \cup {NoNumber}]]

ASSUME ProcAssumption == NoProc \notin Proc
ASSUME NameAssumption == Current \notin Window /\ Default \notin AlertWindow
ASSUME BoundAssumption == MaxTime \in Nat /\ MaxRuns \in Nat
\* normalizeConfig replaces a cooldown of zero or less by the default.
ASSUME CooldownAssumption == Cooldown \in Nat \ {0}
\* normalizeConfig replaces a fallback percentage of zero or less by 80.
ASSUME ConfigAssumption ==
    Config \subseteq [provider : [Provider -> ThresholdTable],
                      global   : ThresholdTable,
                      pct      : Nat \ {0},
                      quiet    : Nat]
ASSUME ReadingAssumption == Reading \subseteq [Provider -> UsageRow]
ASSUME ScopeAssumption ==
    Scope \subseteq (Provider \cup {Unnamed}) \X (AlertWindow \cup {Unnamed})

-----------------------------------------------------------------------------
(* The decision rules: which keys are over their threshold, and by which.  *)

\* The first positive entry, from the most to the least specific; zero
\* stands for an absent or unusable one.
ThresholdFor(cfg, p, w) ==
    LET level == << cfg.provider[p][w], cfg.provider[p][Default],
                    cfg.global[w], cfg.global[Default], cfg.pct >>
        set   == {i \in 1 .. 5 : level[i] > 0}
    IN  level[CHOOSE i \in set : \A j \in set : i <= j]

\* A value shown both as the row's own number and in a bucket counts once.
ValueOf(row, w) ==
    IF w # Current THEN row.buckets[w]
    ELSE IF \E b \in Window : row.buckets[b] = row.used THEN NoNumber ELSE row.used

\* The threshold a key is at or over, and 0 for a key that is not.
OverThreshold(cfg, reading) ==
    [k \in AlertKey |->
        LET row == reading[k[1]]
            v   == ValueOf(row, k[2])
            thr == ThresholdFor(cfg, k[1], k[2])
        IN  IF row.percent /\ v # NoNumber /\ v >= thr THEN thr ELSE 0]

Covers(s, k) == s[1] \in {k[1], Unnamed} /\ s[2] \in {k[2], Unnamed}

\* Mutant: only a scope naming both the provider and the window counts.
IsSnoozedByExactKey(snooze, k, t) == \E s \in Scope : s = k /\ t < snooze[s]

IsSnoozed(snooze, k, t) == \E s \in Scope : Covers(s, k) /\ t < snooze[s]

-----------------------------------------------------------------------------
VARIABLES
    clock,      \* wall clock
    dir,        \* the directory of the state file exists
    file,       \* the state file: last notifications and snoozes
    lock,       \* holder of the advisory lock
    pc, job,    \* where each process stands, and what it was asked to do
    st,         \* its copy of the state file
    todo,       \* keys over their threshold it has not looked at yet
    dirty,      \* sentAny || stateChanged
    bare,       \* it runs without the lock
    runs,
    \* History, not kept by the program.
    delivered,  \* the last notification each key really had, and their count
    mine,       \* keys this run has notified and not yet recorded
    lost,       \* keys whose last notification was never recorded
    wanted,     \* the snoozes the user was told are in force
    overlap     \* an unlocked run has met another one inside

vars == << clock, dir, file, lock, pc, job, st, todo, dirty, bare, runs,
           delivered, mine, lost, wanted, overlap >>

NoSend == [at |-> Never, thr |-> 0]
EmptyState == [sent |-> [k \in AlertKey |-> NoSend], snooze |-> [s \in Scope |-> Never]]
NoHits == [k \in AlertKey |-> 0]
NoJob == [op |-> "none", now |-> 0, hits |-> NoHits, quiet |-> 0,
          scope |-> << Unnamed, Unnamed >>, until |-> 0]

Inside == {p \in Proc : pc[p] \in {"load", "keys", "save"}}

Init ==
    /\ clock = 0
    /\ dir \in BOOLEAN
    /\ file = EmptyState
    /\ lock = NoProc
    /\ pc = [p \in Proc |-> "idle"]
    /\ job = [p \in Proc |-> NoJob]
    /\ st = [p \in Proc |-> EmptyState]
    /\ todo = [p \in Proc |-> {}]
    /\ dirty = [p \in Proc |-> FALSE]
    /\ bare = [p \in Proc |-> FALSE]
    /\ runs = 0
    /\ delivered = [k \in AlertKey |-> [at |-> Never, thr |-> 0, n |-> 0]]
    /\ mine = [p \in Proc |-> {}]
    /\ lost = {}
    /\ wanted = [s \in Scope |-> Never]
    /\ overlap = FALSE

Tick ==
    /\ clock < MaxTime
    /\ clock' = clock + 1
    /\ UNCHANGED << dir, file, lock, pc, job, st, todo, dirty, bare, runs,
                    delivered, mine, lost, wanted, overlap >>

Start(p, j) ==
    /\ pc[p] = "idle" /\ runs < MaxRuns
    /\ pc' = [pc EXCEPT ![p] = "lock"]
    /\ job' = [job EXCEPT ![p] = j]
    /\ runs' = runs + 1
    /\ UNCHANGED << clock, dir, file, lock, st, todo, dirty, bare,
                    delivered, mine, lost, wanted, overlap >>

\* MaybeSendUsageAlerts: the caller took `now` before the lock is asked for.
StartCheck(p) ==
    \E cfg \in Config, reading \in Reading :
        Start(p, [NoJob EXCEPT !.op = "check", !.now = clock, !.quiet = cfg.quiet,
                               !.hits = OverThreshold(cfg, reading)])

StartSetSnooze(p) ==
    \E s \in Scope, t \in clock + 1 .. MaxTime :
        Start(p, [NoJob EXCEPT !.op = "set", !.scope = s, !.until = t])

StartClearSnooze(p) ==
    \E s \in Scope : Start(p, [NoJob EXCEPT !.op = "clear", !.scope = s])

\* Mutant: the lock is not exclusive.
AcquireShared(p) ==
    /\ pc[p] = "lock" /\ dir
    /\ lock' = p
    /\ pc' = [pc EXCEPT ![p] = "load"]
    /\ overlap' = (overlap \/ \E q \in Inside : bare[q])
    /\ UNCHANGED << clock, dir, file, job, st, todo, dirty, bare, runs,
                    delivered, mine, lost, wanted >>

\* flock(LOCK_EX) on the lock file next to the state file.
Acquire(p) ==
    /\ pc[p] = "lock" /\ dir /\ lock = NoProc
    /\ lock' = p
    /\ pc' = [pc EXCEPT ![p] = "load"]
    /\ overlap' = (overlap \/ \E q \in Inside : bare[q])
    /\ UNCHANGED << clock, dir, file, job, st, todo, dirty, bare, runs,
                    delivered, mine, lost, wanted >>

\* The lock file cannot be created while its directory is missing: the lock
\* is given up and the run goes on.
GoOnUnlocked(p) ==
    /\ pc[p] = "lock" /\ ~dir
    /\ bare' = [bare EXCEPT ![p] = TRUE]
    /\ pc' = [pc EXCEPT ![p] = "load"]
    /\ overlap' = (overlap \/ Inside # {})
    /\ UNCHANGED << clock, dir, file, lock, job, st, todo, dirty, runs,
                    delivered, mine, lost, wanted >>

\* cleanupExpiredSnooze
Cleaned(snooze, t) == [s \in Scope |-> IF snooze[s] > t THEN snooze[s] ELSE Never]

LoadForCheck(p) ==
    LET kept == Cleaned(file.snooze, job[p].now) IN
    /\ pc[p] = "load" /\ job[p].op = "check"
    /\ st' = [st EXCEPT ![p] = [file EXCEPT !.snooze = kept]]
    /\ dirty' = [dirty EXCEPT ![p] = kept # file.snooze]
    /\ todo' = [todo EXCEPT ![p] = {k \in AlertKey : job[p].hits[k] > 0}]
    /\ pc' = [pc EXCEPT ![p] = "keys"]
    /\ UNCHANGED << clock, dir, file, lock, job, bare, runs,
                    delivered, mine, lost, wanted, overlap >>

LoadForSnooze(p) ==
    /\ pc[p] = "load" /\ job[p].op \in {"set", "clear"}
    /\ st' = [st EXCEPT ![p] = [file EXCEPT !.snooze[job[p].scope] =
                                  IF job[p].op = "set" THEN job[p].until ELSE Never]]
    /\ pc' = [pc EXCEPT ![p] = "save"]
    /\ UNCHANGED << clock, dir, file, lock, job, todo, dirty, bare, runs,
                    delivered, mine, lost, wanted, overlap >>

\* Mutant: inside the cooldown the same threshold notifies again.
SuppressedBelow(p, k) ==
    LET sent == st[p].sent[k] IN
    \/ IsSnoozed(st[p].snooze, k, job[p].now)
    \/ /\ sent.at # Never
       /\ job[p].now - sent.at < Cooldown
       /\ job[p].hits[k] < sent.thr
    \/ job[p].quiet > job[p].now

\* The key is snoozed, inside its cooldown, or the quiet timer is on.
Suppressed(p, k) ==
    LET sent == st[p].sent[k] IN
    \/ IsSnoozed(st[p].snooze, k, job[p].now)
    \/ /\ sent.at # Never
       /\ job[p].now - sent.at < Cooldown
       /\ job[p].hits[k] <= sent.thr
    \/ job[p].quiet > job[p].now

Skip(p, k) ==
    /\ pc[p] = "keys" /\ k \in todo[p]
    /\ todo' = [todo EXCEPT ![p] = @ \ {k}]
    /\ UNCHANGED << clock, dir, file, lock, pc, job, st, dirty, bare, runs,
                    delivered, mine, lost, wanted, overlap >>

SkipSuppressed(p, k) == Suppressed(p, k) /\ Skip(p, k)

\* notifyFn failed or timed out: nothing is recorded for this key.
NotifyFails(p, k) == ~Suppressed(p, k) /\ Skip(p, k)

\* Mutant: a sent notification does not count as something to save.
NotifyUnsaved(p, k) ==
    LET now == job[p].now
        thr == job[p].hits[k]
    IN
    /\ pc[p] = "keys" /\ k \in todo[p]
    /\ ~Suppressed(p, k)
    /\ st' = [st EXCEPT ![p].sent[k] = [at |-> now, thr |-> thr]]
    /\ delivered' = [delivered EXCEPT ![k] = [at |-> now, thr |-> thr, n |-> @.n + 1]]
    /\ mine' = [mine EXCEPT ![p] = @ \cup {k}]
    /\ todo' = [todo EXCEPT ![p] = @ \ {k}]
    /\ UNCHANGED << clock, dir, file, lock, pc, job, dirty, bare, runs, lost, wanted,
                    overlap >>

Notify(p, k) ==
    LET now == job[p].now
        thr == job[p].hits[k]
    IN
    /\ pc[p] = "keys" /\ k \in todo[p]
    /\ ~Suppressed(p, k)
    /\ st' = [st EXCEPT ![p].sent[k] = [at |-> now, thr |-> thr]]
    /\ delivered' = [delivered EXCEPT ![k] = [at |-> now, thr |-> thr, n |-> @.n + 1]]
    /\ mine' = [mine EXCEPT ![p] = @ \cup {k}]
    /\ dirty' = [dirty EXCEPT ![p] = TRUE]
    /\ todo' = [todo EXCEPT ![p] = @ \ {k}]
    /\ UNCHANGED << clock, dir, file, lock, pc, job, bare, runs, lost, wanted, overlap >>

\* Mutant: the lock stays taken.
LeaveLocked(p) ==
    /\ lock' = lock
    /\ pc' = [pc EXCEPT ![p] = "idle"]
    /\ job' = [job EXCEPT ![p] = NoJob]
    /\ st' = [st EXCEPT ![p] = EmptyState]
    /\ todo' = [todo EXCEPT ![p] = {}]
    /\ dirty' = [dirty EXCEPT ![p] = FALSE]
    /\ bare' = [bare EXCEPT ![p] = FALSE]
    /\ mine' = [mine EXCEPT ![p] = {}]

\* The deferred unlock, and the process slot made free again.
Leave(p) ==
    /\ lock' = IF lock = p THEN NoProc ELSE lock
    /\ pc' = [pc EXCEPT ![p] = "idle"]
    /\ job' = [job EXCEPT ![p] = NoJob]
    /\ st' = [st EXCEPT ![p] = EmptyState]
    /\ todo' = [todo EXCEPT ![p] = {}]
    /\ dirty' = [dirty EXCEPT ![p] = FALSE]
    /\ bare' = [bare EXCEPT ![p] = FALSE]
    /\ mine' = [mine EXCEPT ![p] = {}]

\* Neither a notification nor an expired snooze: the file is left alone.
FinishUnchanged(p) ==
    /\ pc[p] = "keys" /\ todo[p] = {} /\ ~dirty[p]
    /\ Leave(p)
    /\ UNCHANGED << clock, dir, file, runs, delivered, lost, wanted, overlap >>

\* The snooze was edited, or a check has something to record.
CanSave(p) ==
    \/ pc[p] = "save"
    \/ pc[p] = "keys" /\ todo[p] = {} /\ dirty[p]

\* MkdirAll and an atomic replacement of the whole file.
Save(p) ==
    /\ CanSave(p)
    /\ dir' = TRUE
    /\ file' = st[p]
    /\ lost' = lost \ mine[p]
    /\ wanted' = IF job[p].op = "check" THEN wanted
                 ELSE [wanted EXCEPT ![job[p].scope] = st[p].snooze[job[p].scope]]
    /\ Leave(p)
    /\ UNCHANGED << clock, runs, delivered, overlap >>

\* saveState fails and the error is returned to the caller.
SaveFails(p) ==
    /\ CanSave(p)
    /\ lost' = lost \cup mine[p]
    /\ Leave(p)
    /\ UNCHANGED << clock, dir, file, runs, delivered, wanted, overlap >>

\* The process is killed (the menubar gives an oct command 20 s); the kernel
\* releases the lock.
Crash(p) ==
    /\ pc[p] # "idle"
    /\ lost' = lost \cup mine[p]
    /\ Leave(p)
    /\ UNCHANGED << clock, dir, file, runs, delivered, wanted, overlap >>

Work(p) ==
    \/ Acquire(p) \/ GoOnUnlocked(p)
    \/ LoadForCheck(p) \/ LoadForSnooze(p)
    \/ \E k \in AlertKey : SkipSuppressed(p, k) \/ NotifyFails(p, k) \/ Notify(p, k)
    \/ FinishUnchanged(p) \/ Save(p) \/ SaveFails(p)

Next ==
    \/ Tick
    \/ \E p \in Proc : \/ StartCheck(p) \/ StartSetSnooze(p) \/ StartClearSnooze(p)
                       \/ Work(p)
                       \/ Crash(p)

\* A started process is scheduled, the notification command has a timeout and
\* a blocked flock returns once the lock is free.
Fairness == \A p \in Proc : WF_vars(Work(p))

Spec == Init /\ [][Next]_vars /\ Fairness

-----------------------------------------------------------------------------
SentRecord == [at : Nat \cup {Never}, thr : Nat]
AlertState == [sent : [AlertKey -> SentRecord], snooze : [Scope -> Nat \cup {Never}]]
Job == [op : {"none", "check", "set", "clear"}, now : Nat, hits : [AlertKey -> Nat],
        quiet : Nat, scope : Scope \cup {<< Unnamed, Unnamed >>}, until : Nat]

\* Every variable stays in its range, and a process that is to edit or save a
\* snooze was given one of the user's scopes.
TypeOK ==
    /\ clock \in Nat
    /\ dir \in BOOLEAN
    /\ file \in AlertState
    /\ lock \in Proc \cup {NoProc}
    /\ pc \in [Proc -> {"idle", "lock", "load", "keys", "save"}]
    /\ job \in [Proc -> Job]
    /\ st \in [Proc -> AlertState]
    /\ todo \in [Proc -> SUBSET AlertKey]
    /\ dirty \in [Proc -> BOOLEAN]
    /\ bare \in [Proc -> BOOLEAN]
    /\ runs \in Nat
    /\ delivered \in [AlertKey -> [at : Nat \cup {Never}, thr : Nat, n : Nat]]
    /\ mine \in [Proc -> SUBSET AlertKey]
    /\ lost \in SUBSET AlertKey
    /\ wanted \in [Scope -> Nat \cup {Never}]
    /\ overlap \in BOOLEAN
    /\ \A p \in Proc : job[p].op \in {"set", "clear"} => job[p].scope \in Scope

\* With nobody inside, the file records exactly the last notification each
\* key really had, except where the run that sent it died or could not save.
RecordMatchesDelivery ==
    ~overlap /\ Inside = {} =>
        \A k \in AlertKey \ lost :
            /\ file.sent[k].at = delivered[k].at
            /\ file.sent[k].thr = delivered[k].thr

\* A snooze the user was told is set stays in the file until it expires, and
\* one that was cleared or replaced does not come back, whatever alert checks
\* run at the same time (SetSnooze, usage_alert.go 259-260).
SnoozeIsAsAsked ==
    ~overlap =>
        \A s \in Scope : \/ file.snooze[s] = wanted[s]
                         \/ wanted[s] <= clock /\ file.snooze[s] = Never

\* A key is notified again inside its cooldown only when a higher threshold
\* is crossed, or when the earlier notification was never recorded.
CooldownRespected ==
    [][ ~overlap =>
          \A k \in AlertKey \ lost :
              delivered'[k].n > delivered[k].n =>
                  \/ delivered[k].at = Never
                  \/ delivered'[k].at - delivered[k].at >= Cooldown
                  \/ delivered'[k].thr > delivered[k].thr ]_vars

\* No notification goes out for a key under a snooze that is in force when it
\* is sent, even if the check began before the snooze was set.
SnoozeRespected ==
    [][ ~overlap =>
          \A k \in AlertKey :
              delivered'[k].n > delivered[k].n =>
                  \A s \in Scope : Covers(s, k) => wanted[s] <= clock ]_vars

\* Every run comes to its end: nobody waits for the lock for ever, also when
\* the process that held it was killed.
EveryRunEnds == \A p \in Proc : (pc[p] # "idle") ~> (pc[p] = "idle")

=============================================================================
