-------------------------- MODULE UsageAlertProofs --------------------------
(***************************************************************************)
(* Proofs about UsageAlert, for any processes, keys, snooze scopes,        *)
(* configurations and bounds.  The inductive invariant says who may be     *)
(* between reading and writing the state file, and how far the copy that   *)
(* process holds may differ from the file and from what really happened.   *)
(***************************************************************************)
EXTENDS UsageAlert, TLAPS

\* A key's bookkeeping entry names the last notification it really had.
Records(sent, real) == sent.at = real.at /\ sent.thr = real.thr

\* A process inside holds the lock unless it runs without it, and nobody
\* holds the lock from outside.
LockInv ==
    /\ \A p \in Proc : lock = p => p \in Inside
    /\ \A p \in Inside : bare[p] \/ lock = p

\* While no unlocked run overlaps another one, one process is inside at a time.
OneInside == ~overlap => \A p, q \in Inside : p = q

\* What a process is asked to do fits where it stands.
JobInv ==
    \A p \in Proc :
        /\ pc[p] = "keys" => job[p].op = "check"
        /\ pc[p] = "save" => job[p].op \in {"set", "clear"}
        /\ job[p].now <= clock
        /\ pc[p] \notin {"keys", "save"} => mine[p] = {}
        /\ ~dirty[p] => mine[p] = {}

\* The file, and the copy of whoever is inside, against the notifications.
SentInv ==
    ~overlap =>
        /\ \A k \in AlertKey \ lost :
              (\A p \in Proc : k \notin mine[p]) => Records(file.sent[k], delivered[k])
        /\ \A p \in Proc : pc[p] \in {"keys", "save"} =>
              \A k \in AlertKey \ (lost \ mine[p]) : Records(st[p].sent[k], delivered[k])

\* A copy's snooze is the file's, unless the copy dropped it as expired.
SameOrExpired(p, s) ==
    \/ st[p].snooze[s] = file.snooze[s]
    \/ file.snooze[s] <= clock /\ st[p].snooze[s] = Never

SnoozeInv ==
    ~overlap =>
        \A p \in Proc : \A s \in Scope :
            /\ pc[p] = "keys" => SameOrExpired(p, s)
            /\ pc[p] = "save" /\ s # job[p].scope => st[p].snooze[s] = file.snooze[s]

IInv == TypeOK /\ LockInv /\ OneInside /\ JobInv /\ SentInv /\ SnoozeInv /\ SnoozeIsAsAsked

-----------------------------------------------------------------------------
\* A threshold always exists, because normalizeConfig leaves no configuration
\* without a positive fallback percentage.
LEMMA ThresholdIsNat ==
    ASSUME NEW cfg \in Config, NEW p \in Provider, NEW w \in AlertWindow
    PROVE  ThresholdFor(cfg, p, w) \in Nat
<1> DEFINE level == << cfg.provider[p][w], cfg.provider[p][Default],
                       cfg.global[w], cfg.global[Default], cfg.pct >>
           set == {i \in 1 .. 5 : level[i] > 0}
           First(i) == i \in set /\ \A j \in set : i <= j
<1>1. /\ cfg.provider \in [Provider -> ThresholdTable] /\ cfg.global \in ThresholdTable
      /\ cfg.pct \in Nat \ {0}
  BY ConfigAssumption
<1>2. /\ cfg.provider[p][w] \in Nat /\ cfg.provider[p][Default] \in Nat
      /\ cfg.global[w] \in Nat /\ cfg.global[Default] \in Nat
  BY <1>1 DEF ThresholdTable, ThresholdName
<1>3. /\ \A i \in 1 .. 5 : level[i] \in Nat
      /\ level[5] > 0
  BY <1>1, <1>2
<1>4. \E i : First(i)
  <2>1. CASE 1 \in set BY <2>1
  <2>2. CASE 1 \notin set /\ 2 \in set BY <2>2
  <2>3. CASE 1 \notin set /\ 2 \notin set /\ 3 \in set BY <2>3
  <2>4. CASE 1 \notin set /\ 2 \notin set /\ 3 \notin set /\ 4 \in set BY <2>4
  <2>5. CASE 1 \notin set /\ 2 \notin set /\ 3 \notin set /\ 4 \notin set BY <2>5, <1>3
  <2> QED BY <2>1, <2>2, <2>3, <2>4, <2>5
<1>5. First(CHOOSE i : First(i))
  BY <1>4
<1>6. (CHOOSE i \in set : \A j \in set : i <= j) = (CHOOSE i : First(i))
  OBVIOUS
<1>7. (CHOOSE i \in set : \A j \in set : i <= j) \in 1 .. 5
  BY <1>5, <1>6
<1> QED BY <1>3, <1>7 DEF ThresholdFor

LEMMA HitsType ==
    ASSUME NEW cfg \in Config, NEW reading \in Reading
    PROVE  OverThreshold(cfg, reading) \in [AlertKey -> Nat]
<1>1. ASSUME NEW k \in AlertKey PROVE ThresholdFor(cfg, k[1], k[2]) \in Nat
  BY <1>1, ThresholdIsNat DEF AlertKey
<1> QED BY <1>1 DEF OverThreshold

LEMMA DefaultsTyped ==
    /\ EmptyState \in AlertState
    /\ NoJob \in Job
    /\ NoJob.op = "none" /\ NoJob.now = 0
    /\ Never <= 0
BY DEF EmptyState, NoSend, AlertState, SentRecord, NoJob, Job, NoHits, Never

-----------------------------------------------------------------------------
\* The parts of the type invariant that ending a run touches.
LEMMA LeaveTyped ==
    ASSUME TypeOK, NEW p \in Proc, Leave(p)
    PROVE  /\ lock' \in Proc \cup {NoProc}
           /\ pc' \in [Proc -> {"idle", "lock", "load", "keys", "save"}]
           /\ job' \in [Proc -> Job]
           /\ st' \in [Proc -> AlertState]
           /\ todo' \in [Proc -> SUBSET AlertKey]
           /\ dirty' \in [Proc -> BOOLEAN]
           /\ bare' \in [Proc -> BOOLEAN]
           /\ mine' \in [Proc -> SUBSET AlertKey]
           /\ \A q \in Proc : job'[q].op \in {"set", "clear"} => job'[q].scope \in Scope
BY DefaultsTyped DEF TypeOK, Leave

\* Starting a run with a job of the right type keeps the types.
LEMMA StartTyped ==
    ASSUME TypeOK, NEW p \in Proc, NEW j \in Job, Start(p, j),
           j.op \in {"set", "clear"} => j.scope \in Scope
    PROVE  TypeOK'
BY DEF TypeOK, Start

LEMMA TypeStep == TypeOK /\ [Next]_vars => TypeOK'
<1> SUFFICES ASSUME TypeOK, [Next]_vars PROVE TypeOK'
  OBVIOUS
<1>1. CASE Tick
  BY <1>1 DEF TypeOK, Tick
<1>2. ASSUME NEW p \in Proc, StartCheck(p) PROVE TypeOK'
  <2>1. PICK cfg \in Config, reading \in Reading :
          Start(p, [NoJob EXCEPT !.op = "check", !.now = clock, !.quiet = cfg.quiet,
                                 !.hits = OverThreshold(cfg, reading)])
    BY <1>2 DEF StartCheck
  <2>2. cfg.quiet \in Nat
    BY ConfigAssumption
  <2>3. [NoJob EXCEPT !.op = "check", !.now = clock, !.quiet = cfg.quiet,
                      !.hits = OverThreshold(cfg, reading)] \in Job
    BY <2>2, HitsType, DefaultsTyped DEF Job, TypeOK
  <2> QED BY <2>1, <2>3, StartTyped DEF NoJob
<1>3. ASSUME NEW p \in Proc, StartSetSnooze(p) PROVE TypeOK'
  <2>1. PICK s \in Scope, t \in clock + 1 .. MaxTime :
          Start(p, [NoJob EXCEPT !.op = "set", !.scope = s, !.until = t])
    BY <1>3 DEF StartSetSnooze
  <2>2. t \in Nat
    <3>1. clock \in Nat /\ MaxTime \in Nat
      BY BoundAssumption DEF TypeOK
    <3> QED BY <3>1
  <2>3. [NoJob EXCEPT !.op = "set", !.scope = s, !.until = t] \in Job
    BY <2>2, DefaultsTyped DEF Job
  <2> QED BY <2>1, <2>3, StartTyped DEF NoJob
<1>4. ASSUME NEW p \in Proc, StartClearSnooze(p) PROVE TypeOK'
  <2>1. PICK s \in Scope : Start(p, [NoJob EXCEPT !.op = "clear", !.scope = s])
    BY <1>4 DEF StartClearSnooze
  <2>2. [NoJob EXCEPT !.op = "clear", !.scope = s] \in Job
    BY DefaultsTyped DEF Job
  <2> QED BY <2>1, <2>2, StartTyped DEF NoJob
<1>5. ASSUME NEW p \in Proc, Acquire(p) \/ GoOnUnlocked(p) PROVE TypeOK'
  BY <1>5 DEF TypeOK, Acquire, GoOnUnlocked
<1>6. ASSUME NEW p \in Proc, LoadForCheck(p) PROVE TypeOK'
  <2>1. Cleaned(file.snooze, job[p].now) \in [Scope -> Nat \cup {Never}]
    BY DEF TypeOK, AlertState, Cleaned
  <2>2. [file EXCEPT !.snooze = Cleaned(file.snooze, job[p].now)] \in AlertState
    BY <2>1 DEF TypeOK, AlertState
  <2> QED BY <1>6, <2>2 DEF TypeOK, LoadForCheck
<1>7. ASSUME NEW p \in Proc, LoadForSnooze(p) PROVE TypeOK'
  <2> DEFINE until == IF job[p].op = "set" THEN job[p].until ELSE Never
  <2>1. until \in Nat \cup {Never}
    BY DEF TypeOK, Job
  <2>2. [file EXCEPT !.snooze[job[p].scope] = until] \in AlertState
    BY <2>1 DEF TypeOK, AlertState
  <2> QED BY <1>7, <2>2 DEF TypeOK, LoadForSnooze
<1>8. ASSUME NEW p \in Proc, NEW k \in AlertKey, Skip(p, k) PROVE TypeOK'
  BY <1>8 DEF TypeOK, Skip
<1>9. ASSUME NEW p \in Proc, NEW k \in AlertKey, Notify(p, k) PROVE TypeOK'
  <2> DEFINE sent == [at |-> job[p].now, thr |-> job[p].hits[k]]
             told == [at |-> job[p].now, thr |-> job[p].hits[k], n |-> delivered[k].n + 1]
  <2>1. job[p].now \in Nat /\ job[p].hits[k] \in Nat
    BY DEF TypeOK, Job
  <2>2. sent \in SentRecord /\ told \in [at : Nat \cup {Never}, thr : Nat, n : Nat]
    BY <2>1 DEF SentRecord, TypeOK
  <2>3. [st[p] EXCEPT !.sent[k] = sent] \in AlertState
    BY <2>2 DEF TypeOK, AlertState
  <2>4. st' = [st EXCEPT ![p] = [st[p] EXCEPT !.sent[k] = sent]]
    BY <1>9 DEF Notify, TypeOK
  <2>5. delivered' = [delivered EXCEPT ![k] = told]
    BY <1>9 DEF Notify
  <2>6. st' \in [Proc -> AlertState]
    BY <2>3, <2>4 DEF TypeOK
  <2> QED BY <1>9, <2>2, <2>5, <2>6 DEF TypeOK, Notify
<1>10. ASSUME NEW p \in Proc, FinishUnchanged(p) \/ SaveFails(p) \/ Crash(p) PROVE TypeOK'
  <2>1. Leave(p) BY <1>10 DEF FinishUnchanged, SaveFails, Crash
  <2> QED BY <1>10, <2>1, LeaveTyped DEF TypeOK, FinishUnchanged, SaveFails, Crash
<1>11. ASSUME NEW p \in Proc, Save(p) PROVE TypeOK'
  <2>1. Leave(p) BY <1>11 DEF Save
  <2>2. wanted' \in [Scope -> Nat \cup {Never}]
    <3>1. st[p].snooze \in [Scope -> Nat \cup {Never}]
      BY DEF TypeOK, AlertState
    <3>2. CASE job[p].op = "check"
      BY <1>11, <3>2 DEF Save, TypeOK
    <3>3. CASE job[p].op # "check"
      <4>1. wanted' = [wanted EXCEPT ![job[p].scope] = st[p].snooze[job[p].scope]]
        BY <1>11, <3>3 DEF Save
      <4>2. job[p].scope \in Scope => wanted' \in [Scope -> Nat \cup {Never}]
        BY <4>1, <3>1 DEF TypeOK
      <4>3. job[p].scope \notin Scope => wanted' = wanted
        BY <4>1 DEF TypeOK
      <4> QED BY <4>2, <4>3 DEF TypeOK
    <3> QED BY <3>2, <3>3
  <2> QED BY <1>11, <2>1, <2>2, LeaveTyped DEF TypeOK, Save
<1>12. CASE UNCHANGED vars
  BY <1>12 DEF TypeOK, vars
<1> QED
  BY <1>1, <1>2, <1>3, <1>4, <1>5, <1>6, <1>7, <1>8, <1>9, <1>10, <1>11, <1>12
     DEF Next, Work, SkipSuppressed, NotifyFails

-----------------------------------------------------------------------------
\* What a step does to the position of the processes, for all the lemmas
\* below: ending a run moves that process alone, to where nothing is held.
LEMMA LeaveMoves ==
    ASSUME TypeOK, NEW p \in Proc, Leave(p)
    PROVE  /\ pc'[p] = "idle" /\ mine'[p] = {} /\ job'[p] = NoJob
           /\ \A q \in Proc \ {p} : /\ pc'[q] = pc[q] /\ bare'[q] = bare[q]
                                    /\ job'[q] = job[q] /\ st'[q] = st[q]
                                    /\ mine'[q] = mine[q] /\ dirty'[q] = dirty[q]
           /\ lock' = IF lock = p THEN NoProc ELSE lock
BY DEF TypeOK, Leave

LEMMA EndsByLeaving ==
    ASSUME NEW p \in Proc,
           FinishUnchanged(p) \/ Save(p) \/ SaveFails(p) \/ Crash(p)
    PROVE  /\ Leave(p) /\ pc[p] # "idle"
           /\ UNCHANGED << clock, delivered, overlap >>
BY DEF FinishUnchanged, Save, SaveFails, Crash, CanSave

LEMMA LockStep == TypeOK /\ LockInv /\ [Next]_vars => LockInv'
<1> SUFFICES ASSUME TypeOK, LockInv, [Next]_vars PROVE LockInv'
  OBVIOUS
<1> USE DEF LockInv, Inside
<1>1. CASE Tick \/ UNCHANGED vars
  BY <1>1 DEF Tick, vars
<1>2. ASSUME NEW p \in Proc, StartCheck(p) \/ StartSetSnooze(p) \/ StartClearSnooze(p)
      PROVE LockInv'
  BY <1>2 DEF StartCheck, StartSetSnooze, StartClearSnooze, Start, TypeOK
<1>3. ASSUME NEW p \in Proc, Acquire(p) PROVE LockInv'
  BY <1>3, ProcAssumption DEF Acquire, TypeOK
<1>4. ASSUME NEW p \in Proc, GoOnUnlocked(p) PROVE LockInv'
  BY <1>4 DEF GoOnUnlocked, TypeOK
<1>5. ASSUME NEW p \in Proc, LoadForCheck(p) \/ LoadForSnooze(p) PROVE LockInv'
  BY <1>5 DEF LoadForCheck, LoadForSnooze, TypeOK
<1>6. ASSUME NEW p \in Proc, NEW k \in AlertKey, Skip(p, k) \/ Notify(p, k) PROVE LockInv'
  BY <1>6 DEF Skip, Notify
<1>7. ASSUME NEW p \in Proc,
             FinishUnchanged(p) \/ Save(p) \/ SaveFails(p) \/ Crash(p)
      PROVE LockInv'
  BY <1>7, EndsByLeaving, LeaveMoves, ProcAssumption
<1> QED
  BY <1>1, <1>2, <1>3, <1>4, <1>5, <1>6, <1>7 DEF Next, Work, SkipSuppressed, NotifyFails

LEMMA OneInsideStep == TypeOK /\ LockInv /\ OneInside /\ [Next]_vars => OneInside'
<1> SUFFICES ASSUME TypeOK, LockInv, OneInside, [Next]_vars PROVE OneInside'
  OBVIOUS
<1> USE DEF OneInside, Inside
<1>1. CASE Tick \/ UNCHANGED vars
  BY <1>1 DEF Tick, vars
<1>2. ASSUME NEW p \in Proc, StartCheck(p) \/ StartSetSnooze(p) \/ StartClearSnooze(p)
      PROVE OneInside'
  BY <1>2 DEF StartCheck, StartSetSnooze, StartClearSnooze, Start, TypeOK
<1>3. ASSUME NEW p \in Proc, Acquire(p) PROVE OneInside'
  <2>1. ASSUME NEW q \in Inside PROVE overlap'
    <3>1. bare[q]
      BY <1>3, <2>1, ProcAssumption DEF Acquire, LockInv
    <3> QED BY <1>3, <2>1, <3>1 DEF Acquire
  <2>2. ~overlap' => Inside' = {p}
    BY <1>3, <2>1 DEF Acquire, TypeOK
  <2> QED BY <2>2
<1>4. ASSUME NEW p \in Proc, GoOnUnlocked(p) PROVE OneInside'
  BY <1>4 DEF GoOnUnlocked, TypeOK
<1>5. ASSUME NEW p \in Proc, LoadForCheck(p) \/ LoadForSnooze(p) PROVE OneInside'
  BY <1>5 DEF LoadForCheck, LoadForSnooze, TypeOK
<1>6. ASSUME NEW p \in Proc, NEW k \in AlertKey, Skip(p, k) \/ Notify(p, k) PROVE OneInside'
  BY <1>6 DEF Skip, Notify
<1>7. ASSUME NEW p \in Proc,
             FinishUnchanged(p) \/ Save(p) \/ SaveFails(p) \/ Crash(p)
      PROVE OneInside'
  BY <1>7, EndsByLeaving, LeaveMoves
<1> QED
  BY <1>1, <1>2, <1>3, <1>4, <1>5, <1>6, <1>7 DEF Next, Work, SkipSuppressed, NotifyFails

LEMMA JobStep == TypeOK /\ JobInv /\ [Next]_vars => JobInv'
<1> SUFFICES ASSUME TypeOK, JobInv, [Next]_vars PROVE JobInv'
  OBVIOUS
<1>0. clock \in Nat
  BY DEF TypeOK
<1>1. CASE Tick
  BY <1>0, <1>1 DEF JobInv, Tick, TypeOK, Job
<1>2. ASSUME NEW p \in Proc, StartCheck(p) \/ StartSetSnooze(p) \/ StartClearSnooze(p)
      PROVE JobInv'
  <2>1. PICK j : Start(p, j) /\ j.now \in {0, clock}
    <3>1. CASE StartCheck(p)
      <4>1. PICK cfg \in Config, reading \in Reading :
              Start(p, [NoJob EXCEPT !.op = "check", !.now = clock, !.quiet = cfg.quiet,
                                     !.hits = OverThreshold(cfg, reading)])
        BY <3>1 DEF StartCheck
      <4>2. [NoJob EXCEPT !.op = "check", !.now = clock, !.quiet = cfg.quiet,
                          !.hits = OverThreshold(cfg, reading)].now = clock
        BY DEF NoJob
      <4> QED BY <4>1, <4>2
    <3>2. CASE StartSetSnooze(p)
      <4>1. PICK s \in Scope, t \in clock + 1 .. MaxTime :
              Start(p, [NoJob EXCEPT !.op = "set", !.scope = s, !.until = t])
        BY <3>2 DEF StartSetSnooze
      <4>2. [NoJob EXCEPT !.op = "set", !.scope = s, !.until = t].now = 0
        BY DEF NoJob
      <4> QED BY <4>1, <4>2
    <3>3. CASE StartClearSnooze(p)
      <4>1. PICK s \in Scope : Start(p, [NoJob EXCEPT !.op = "clear", !.scope = s])
        BY <3>3 DEF StartClearSnooze
      <4>2. [NoJob EXCEPT !.op = "clear", !.scope = s].now = 0
        BY DEF NoJob
      <4> QED BY <4>1, <4>2
    <3> QED BY <1>2, <3>1, <3>2, <3>3
  <2>2. j.now <= clock
    BY <1>0, <2>1
  <2>3. job'[p] = j
    BY <2>1 DEF Start, TypeOK
  <2> QED BY <2>1, <2>2, <2>3 DEF JobInv, Start, TypeOK
<1>3. ASSUME NEW p \in Proc, Acquire(p) \/ GoOnUnlocked(p) PROVE JobInv'
  BY <1>3 DEF JobInv, Acquire, GoOnUnlocked, TypeOK
<1>4. ASSUME NEW p \in Proc, LoadForCheck(p) \/ LoadForSnooze(p) PROVE JobInv'
  BY <1>4 DEF JobInv, LoadForCheck, LoadForSnooze, TypeOK
<1>5. ASSUME NEW p \in Proc, NEW k \in AlertKey, Skip(p, k) \/ Notify(p, k) PROVE JobInv'
  BY <1>5 DEF JobInv, Skip, Notify, TypeOK
<1>6. ASSUME NEW p \in Proc,
             FinishUnchanged(p) \/ Save(p) \/ SaveFails(p) \/ Crash(p)
      PROVE JobInv'
  BY <1>0, <1>6, EndsByLeaving, LeaveMoves, DefaultsTyped DEF JobInv
<1>7. CASE UNCHANGED vars
  BY <1>7 DEF JobInv, vars
<1> QED
  BY <1>1, <1>2, <1>3, <1>4, <1>5, <1>6, <1>7 DEF Next, Work, SkipSuppressed, NotifyFails

-----------------------------------------------------------------------------
\* While nobody overlaps, everyone but the process inside has nothing in hand.
LEMMA Alone ==
    ASSUME TypeOK, OneInside, JobInv, ~overlap, NEW p \in Inside,
           NEW q \in Proc \ {p}
    PROVE  pc[q] \notin {"load", "keys", "save"} /\ mine[q] = {}
BY DEF OneInside, JobInv, Inside

LEMMA SentStep ==
    TypeOK /\ OneInside /\ JobInv /\ SentInv /\ [Next]_vars => SentInv'
<1> SUFFICES ASSUME TypeOK, OneInside, JobInv, SentInv, [Next]_vars, ~overlap'
             PROVE  SentInv'
  BY DEF SentInv
<1>1. CASE Tick \/ UNCHANGED vars
  BY <1>1 DEF SentInv, Tick, vars
<1>2. ASSUME NEW p \in Proc, StartCheck(p) \/ StartSetSnooze(p) \/ StartClearSnooze(p)
      PROVE SentInv'
  BY <1>2 DEF SentInv, StartCheck, StartSetSnooze, StartClearSnooze, Start, TypeOK
<1>3. ASSUME NEW p \in Proc, Acquire(p) \/ GoOnUnlocked(p) PROVE SentInv'
  BY <1>3 DEF SentInv, Acquire, GoOnUnlocked, TypeOK
<1>4. ASSUME NEW p \in Proc, LoadForCheck(p) \/ LoadForSnooze(p) PROVE SentInv'
  <2>1. ~overlap /\ p \in Inside /\ mine[p] = {} /\ UNCHANGED << file, delivered, lost, mine >>
    BY <1>4 DEF LoadForCheck, LoadForSnooze, Inside, JobInv
  <2>2. st'[p].sent = file.sent
    BY <1>4 DEF LoadForCheck, LoadForSnooze, TypeOK, AlertState
  <2>3. \A q \in Proc \ {p} : pc'[q] \notin {"keys", "save"} /\ mine[q] = {}
    BY <1>4, <2>1, Alone DEF LoadForCheck, LoadForSnooze, TypeOK
  <2>4. \A k \in AlertKey \ lost : Records(file.sent[k], delivered[k])
    BY <2>1, <2>3 DEF SentInv
  <2> QED BY <2>1, <2>2, <2>3, <2>4 DEF SentInv
<1>5. ASSUME NEW p \in Proc, NEW k \in AlertKey, Skip(p, k) PROVE SentInv'
  BY <1>5 DEF SentInv, Skip
<1>6. ASSUME NEW p \in Proc, NEW k \in AlertKey, Notify(p, k) PROVE SentInv'
  <2>1. /\ ~overlap /\ p \in Inside /\ pc[p] = "keys"
        /\ UNCHANGED << pc, file, lost >>
    BY <1>6 DEF Notify, Inside
  <2>2. mine' = [mine EXCEPT ![p] = mine[p] \cup {k}]
    BY <1>6 DEF Notify
  <2>3. \A q \in Proc \ {p} : pc'[q] \notin {"keys", "save"} /\ mine'[q] = {}
    BY <2>1, <2>2, Alone DEF TypeOK
  <2>4. \A j \in AlertKey \ {k} :
           st'[p].sent[j] = st[p].sent[j] /\ delivered'[j] = delivered[j]
    BY <1>6 DEF Notify, TypeOK, AlertState
  <2>5. Records(st'[p].sent[k], delivered'[k])
    BY <1>6 DEF Notify, TypeOK, AlertState, Records
  <2>6. mine'[p] = mine[p] \cup {k}
    BY <2>2 DEF TypeOK
  <2>7. ASSUME NEW j \in AlertKey \ lost, \A q \in Proc : j \notin mine'[q]
        PROVE  Records(file'.sent[j], delivered'[j])
    <3>1. \A q \in Proc : j \notin mine[q]
      BY <2>1, <2>3, <2>6, <2>7, Alone
    <3> QED BY <2>1, <2>4, <2>6, <2>7, <3>1 DEF SentInv
  <2>8. ASSUME NEW j \in AlertKey \ (lost \ mine'[p])
        PROVE  Records(st'[p].sent[j], delivered'[j])
    BY <2>1, <2>4, <2>5, <2>6 DEF SentInv
  <2> QED BY <2>1, <2>3, <2>7, <2>8 DEF SentInv
<1>7. ASSUME NEW p \in Proc, Save(p) PROVE SentInv'
  <2>1. /\ ~overlap /\ p \in Inside /\ pc[p] \in {"keys", "save"}
        /\ file' = st[p] /\ lost' = lost \ mine[p] /\ UNCHANGED delivered
    BY <1>7 DEF Save, CanSave, Inside
  <2>2. \A q \in Proc : pc'[q] \notin {"keys", "save"}
    BY <1>7, <2>1, Alone, EndsByLeaving, LeaveMoves
  <2>3. \A j \in AlertKey \ lost' : Records(file'.sent[j], delivered'[j])
    BY <2>1 DEF SentInv
  <2> QED BY <2>2, <2>3 DEF SentInv
<1>8. ASSUME NEW p \in Proc, SaveFails(p) \/ Crash(p) PROVE SentInv'
  <2>1. ~overlap /\ lost' = lost \cup mine[p] /\ UNCHANGED << file, delivered >>
    BY <1>8 DEF SaveFails, Crash
  <2>2. /\ pc'[p] = "idle"
        /\ \A q \in Proc \ {p} : pc'[q] = pc[q] /\ st'[q] = st[q] /\ mine'[q] = mine[q]
    BY <1>8, EndsByLeaving, LeaveMoves
  <2>3. CASE mine[p] = {}
    BY <2>1, <2>2, <2>3 DEF SentInv
  <2>4. CASE mine[p] # {}
    <3>1. p \in Inside
      BY <2>4 DEF JobInv, Inside
    <3>2. \A q \in Proc \ {p} : pc'[q] \notin {"keys", "save"} /\ mine[q] = {}
      BY <2>1, <2>2, <3>1, Alone
    <3> QED BY <2>1, <2>2, <3>2 DEF SentInv
  <2> QED BY <2>3, <2>4
<1>9. ASSUME NEW p \in Proc, FinishUnchanged(p) PROVE SentInv'
  <2>1. ~overlap /\ mine[p] = {} /\ UNCHANGED << file, lost, delivered >>
    BY <1>9 DEF FinishUnchanged, JobInv
  <2>2. /\ pc'[p] = "idle"
        /\ \A q \in Proc \ {p} : pc'[q] = pc[q] /\ st'[q] = st[q] /\ mine'[q] = mine[q]
    BY <1>9, EndsByLeaving, LeaveMoves
  <2> QED BY <2>1, <2>2 DEF SentInv
<1> QED
  BY <1>1, <1>2, <1>3, <1>4, <1>5, <1>6, <1>7, <1>8, <1>9
     DEF Next, Work, SkipSuppressed, NotifyFails

LEMMA SnoozeStep ==
    TypeOK /\ OneInside /\ JobInv /\ SnoozeInv /\ SnoozeIsAsAsked /\ [Next]_vars
        => SnoozeInv' /\ SnoozeIsAsAsked'
<1> SUFFICES ASSUME TypeOK, OneInside, JobInv, SnoozeInv, SnoozeIsAsAsked,
                    [Next]_vars, ~overlap'
             PROVE  SnoozeInv' /\ SnoozeIsAsAsked'
  BY DEF SnoozeInv, SnoozeIsAsAsked
<1>0. /\ clock \in Nat
      /\ \A s \in Scope : file.snooze[s] \in Nat \cup {Never} /\ wanted[s] \in Nat \cup {Never}
  BY DEF TypeOK, AlertState
<1>1. ASSUME Tick PROVE (SnoozeInv /\ SnoozeIsAsAsked)'
  <2>1. clock <= clock' /\ clock' \in Nat
    BY <1>0, <1>1 DEF Tick
  <2>2. UNCHANGED << file, pc, job, st, wanted, overlap >>
    BY <1>1 DEF Tick
  <2>3. \A t \in Nat \cup {Never} : t <= clock => t <= clock'
    BY <1>0, <2>1 DEF Never
  <2> QED BY <1>0, <2>2, <2>3 DEF SnoozeInv, SnoozeIsAsAsked, SameOrExpired
<1>2. ASSUME NEW p \in Proc, StartCheck(p) \/ StartSetSnooze(p) \/ StartClearSnooze(p)
      PROVE (SnoozeInv /\ SnoozeIsAsAsked)'
  <2>1. PICK j : Start(p, j)
    BY <1>2 DEF StartCheck, StartSetSnooze, StartClearSnooze
  <2>2. /\ UNCHANGED << clock, file, st, wanted, overlap >>
        /\ pc'[p] = "lock"
        /\ \A q \in Proc \ {p} : pc'[q] = pc[q] /\ job'[q] = job[q]
    BY <2>1 DEF Start, TypeOK
  <2> QED BY <2>2 DEF SnoozeInv, SnoozeIsAsAsked, SameOrExpired
<1>3. ASSUME NEW p \in Proc, Acquire(p) \/ GoOnUnlocked(p) PROVE (SnoozeInv /\ SnoozeIsAsAsked)'
  BY <1>3 DEF SnoozeInv, SnoozeIsAsAsked, SameOrExpired, Acquire, GoOnUnlocked, TypeOK
<1>4. ASSUME NEW p \in Proc, LoadForCheck(p) PROVE (SnoozeInv /\ SnoozeIsAsAsked)'
  <2>1. UNCHANGED << clock, file, job, wanted, overlap >>
    BY <1>4 DEF LoadForCheck
  <2>2. \A q \in Proc \ {p} : pc'[q] \notin {"keys", "save"}
    BY <1>4, Alone DEF LoadForCheck, TypeOK, Inside
  <2>3. pc'[p] = "keys"
    BY <1>4 DEF LoadForCheck, TypeOK
  <2>4. st'[p].snooze = Cleaned(file.snooze, job[p].now)
    BY <1>4 DEF LoadForCheck, TypeOK, AlertState
  <2>5. ASSUME NEW s \in Scope PROVE SameOrExpired(p, s)'
    <3>1. CASE file.snooze[s] > job[p].now
      BY <2>1, <2>4, <3>1 DEF SameOrExpired, Cleaned
    <3>2. CASE ~(file.snooze[s] > job[p].now)
      <4>1. job[p].now \in Nat /\ job[p].now <= clock
        BY DEF TypeOK, Job, JobInv
      <4>2. file.snooze[s] <= clock
        BY <1>0, <3>2, <4>1 DEF Never
      <4>3. st'[p].snooze[s] = Never
        BY <2>4, <3>2 DEF Cleaned
      <4> QED BY <2>1, <4>2, <4>3 DEF SameOrExpired
    <3> QED BY <3>1, <3>2
  <2> QED BY <2>1, <2>2, <2>3, <2>5 DEF SnoozeInv, SnoozeIsAsAsked
<1>5. ASSUME NEW p \in Proc, LoadForSnooze(p) PROVE (SnoozeInv /\ SnoozeIsAsAsked)'
  <2>1. UNCHANGED << clock, file, job, wanted, overlap >>
    BY <1>5 DEF LoadForSnooze
  <2>2. \A q \in Proc \ {p} : pc'[q] \notin {"keys", "save"}
    BY <1>5, Alone DEF LoadForSnooze, TypeOK, Inside
  <2>3. pc'[p] = "save"
    BY <1>5 DEF LoadForSnooze, TypeOK
  <2>4. \A s \in Scope \ {job[p].scope} : st'[p].snooze[s] = file.snooze[s]
    BY <1>5 DEF LoadForSnooze, TypeOK, AlertState
  <2> QED BY <2>1, <2>2, <2>3, <2>4 DEF SnoozeInv, SnoozeIsAsAsked
<1>6. ASSUME NEW p \in Proc, NEW k \in AlertKey, Skip(p, k) PROVE (SnoozeInv /\ SnoozeIsAsAsked)'
  BY <1>6 DEF SnoozeInv, SnoozeIsAsAsked, SameOrExpired, Skip
<1>7. ASSUME NEW p \in Proc, NEW k \in AlertKey, Notify(p, k) PROVE (SnoozeInv /\ SnoozeIsAsAsked)'
  <2>1. UNCHANGED << clock, file, pc, job, wanted, overlap >>
    BY <1>7 DEF Notify
  <2>2. \A q \in Proc : st'[q].snooze = st[q].snooze
    BY <1>7 DEF Notify, TypeOK, AlertState
  <2> QED BY <2>1, <2>2 DEF SnoozeInv, SnoozeIsAsAsked, SameOrExpired
<1>8. ASSUME NEW p \in Proc, Save(p) PROVE (SnoozeInv /\ SnoozeIsAsAsked)'
  <2>1. /\ ~overlap /\ p \in Inside /\ pc[p] \in {"keys", "save"}
        /\ file' = st[p] /\ UNCHANGED clock
    BY <1>8 DEF Save, CanSave, Inside
  <2>2. \A q \in Proc : pc'[q] \notin {"keys", "save"}
    BY <1>8, <2>1, Alone, EndsByLeaving, LeaveMoves
  <2>3. CASE pc[p] = "keys"
    <3>1. UNCHANGED wanted
      BY <1>8, <2>3 DEF Save, JobInv
    <3>2. \A s \in Scope : SameOrExpired(p, s)
      BY <2>1, <2>3 DEF SnoozeInv
    <3>3. SnoozeIsAsAsked'
      BY <2>1, <3>1, <3>2 DEF SnoozeIsAsAsked, SameOrExpired
    <3> QED BY <2>2, <3>3 DEF SnoozeInv
  <2>4. CASE pc[p] = "save"
    <3>1. job[p].op \in {"set", "clear"} /\ job[p].scope \in Scope
      BY <2>4 DEF JobInv, TypeOK
    <3>2. wanted' = [wanted EXCEPT ![job[p].scope] = st[p].snooze[job[p].scope]]
      BY <1>8, <3>1 DEF Save
    <3>3. wanted'[job[p].scope] = file'.snooze[job[p].scope]
      BY <2>1, <3>1, <3>2 DEF TypeOK
    <3>4. \A s \in Scope \ {job[p].scope} :
             file'.snooze[s] = file.snooze[s] /\ wanted'[s] = wanted[s]
      BY <2>1, <2>4, <3>2 DEF SnoozeInv, TypeOK
    <3>5. SnoozeIsAsAsked'
      BY <2>1, <3>3, <3>4 DEF SnoozeIsAsAsked
    <3> QED BY <2>2, <3>5 DEF SnoozeInv
  <2> QED BY <2>1, <2>3, <2>4
<1>9. ASSUME NEW p \in Proc, FinishUnchanged(p) \/ SaveFails(p) \/ Crash(p) PROVE (SnoozeInv /\ SnoozeIsAsAsked)'
  <2>1. UNCHANGED << clock, file, wanted, overlap >>
    BY <1>9 DEF FinishUnchanged, SaveFails, Crash
  <2>2. /\ pc'[p] = "idle"
        /\ \A q \in Proc \ {p} : pc'[q] = pc[q] /\ st'[q] = st[q] /\ job'[q] = job[q]
    BY <1>9, EndsByLeaving, LeaveMoves
  <2> QED BY <2>1, <2>2 DEF SnoozeInv, SnoozeIsAsAsked, SameOrExpired
<1>10. ASSUME UNCHANGED vars PROVE (SnoozeInv /\ SnoozeIsAsAsked)'
  BY <1>10 DEF SnoozeInv, SnoozeIsAsAsked, SameOrExpired, vars
<1> QED
  BY <1>1, <1>2, <1>3, <1>4, <1>5, <1>6, <1>7, <1>8, <1>9, <1>10
     DEF Next, Work, SkipSuppressed, NotifyFails

-----------------------------------------------------------------------------
LEMMA InitIInv == Init => IInv
<1> SUFFICES ASSUME Init PROVE IInv
  OBVIOUS
<1>1. Inside = {}
  BY DEF Init, Inside
<1>2. TypeOK
  BY DefaultsTyped DEF Init, TypeOK, Never
<1>3. LockInv /\ OneInside
  BY <1>1, ProcAssumption DEF Init, LockInv, OneInside
<1>4. JobInv
  BY DefaultsTyped DEF Init, JobInv
<1>5. SentInv
  BY DEF Init, SentInv, Records, EmptyState, NoSend
<1>6. SnoozeInv /\ SnoozeIsAsAsked
  BY DEF Init, SnoozeInv, SnoozeIsAsAsked, EmptyState
<1> QED BY <1>2, <1>3, <1>4, <1>5, <1>6 DEF IInv

\* The inductive invariant holds in every state of every instance.
THEOREM Inductive == Spec => []IInv
<1>1. IInv /\ [Next]_vars => IInv'
  BY TypeStep, LockStep, OneInsideStep, JobStep, SentStep, SnoozeStep DEF IInv
<1> QED BY InitIInv, <1>1, PTL DEF Spec

\* Every variable keeps its type.
THEOREM TypeCorrect == Spec => []TypeOK
<1>1. IInv => TypeOK
  BY DEF IInv
<1> QED BY Inductive, <1>1, PTL

\* saveState and the sent table: with nobody inside, the file tells what was
\* really notified last, however checks, snooze edits, failures and kills
\* follow one another, as long as no unlocked run overlaps another one.
THEOREM FileMatchesNotifications == Spec => []RecordMatchesDelivery
<1>1. IInv => RecordMatchesDelivery
  <2> SUFFICES ASSUME IInv, ~overlap, Inside = {}, NEW k \in AlertKey \ lost
               PROVE  Records(file.sent[k], delivered[k])
    BY DEF RecordMatchesDelivery, Records
  <2>1. \A p \in Proc : mine[p] = {}
    BY DEF IInv, JobInv, Inside
  <2> QED BY <2>1 DEF IInv, SentInv
<1> QED BY Inductive, <1>1, PTL

\* SetSnooze and ClearSnooze: what the user asked for is what the file keeps.
THEOREM SnoozesKept == Spec => []SnoozeIsAsAsked
<1>1. IInv => SnoozeIsAsAsked
  BY DEF IInv
<1> QED BY Inductive, <1>1, PTL

\* The one step that delivers a notification.
LEMMA DeliveredByNotify ==
    ASSUME TypeOK, [Next]_vars, NEW k \in AlertKey, delivered'[k].n > delivered[k].n
    PROVE  \E p \in Proc : Notify(p, k)
<1>1. delivered'[k] # delivered[k]
  BY DEF TypeOK
<1>2. ASSUME NEW p \in Proc, NEW j \in AlertKey, Notify(p, j) PROVE j = k
  BY <1>1, <1>2 DEF Notify, TypeOK
<1> QED
  BY <1>1, <1>2 DEF Next, Work, vars, Tick, StartCheck, StartSetSnooze, StartClearSnooze,
     Start, Acquire, GoOnUnlocked, LoadForCheck, LoadForSnooze, SkipSuppressed,
     NotifyFails, Skip, FinishUnchanged, Save, SaveFails, Crash

\* The cooldown of MaybeSendUsageAlerts holds across processes and restarts.
THEOREM CooldownHolds == Spec => CooldownRespected
<1> DEFINE A == ~overlap =>
                  \A k \in AlertKey \ lost :
                      delivered'[k].n > delivered[k].n =>
                          \/ delivered[k].at = Never
                          \/ delivered'[k].at - delivered[k].at >= Cooldown
                          \/ delivered'[k].thr > delivered[k].thr
<1>1. IInv /\ [Next]_vars => A
  <2> SUFFICES ASSUME IInv, [Next]_vars, ~overlap, NEW k \in AlertKey \ lost,
                      delivered'[k].n > delivered[k].n
               PROVE  \/ delivered[k].at = Never
                      \/ delivered'[k].at - delivered[k].at >= Cooldown
                      \/ delivered'[k].thr > delivered[k].thr
    OBVIOUS
  <2>1. PICK p \in Proc : Notify(p, k)
    BY DeliveredByNotify DEF IInv
  <2>2. pc[p] = "keys" /\ ~Suppressed(p, k)
    BY <2>1 DEF Notify
  <2>3. st[p].sent[k].at = delivered[k].at /\ st[p].sent[k].thr = delivered[k].thr
    BY <2>2 DEF IInv, SentInv, Records
  <2>4. delivered'[k].at = job[p].now /\ delivered'[k].thr = job[p].hits[k]
    BY <2>1 DEF Notify, IInv, TypeOK
  <2>5. /\ job[p].now \in Nat /\ job[p].hits[k] \in Nat /\ Cooldown \in Nat
        /\ delivered[k].at \in Nat \cup {Never} /\ delivered[k].thr \in Nat
    BY CooldownAssumption DEF IInv, TypeOK, Job
  <2>6. \/ delivered[k].at = Never
        \/ ~(job[p].now - delivered[k].at < Cooldown)
        \/ ~(job[p].hits[k] <= delivered[k].thr)
    BY <2>2, <2>3 DEF Suppressed
  <2> QED BY <2>4, <2>5, <2>6 DEF Never
<1> QED BY Inductive, <1>1, PTL DEF Spec, CooldownRespected

\* No notification under a snooze in force, even one set after the check began.
THEOREM SnoozeHolds == Spec => SnoozeRespected
<1> DEFINE A == ~overlap =>
                  \A k \in AlertKey :
                      delivered'[k].n > delivered[k].n =>
                          \A s \in Scope : Covers(s, k) => wanted[s] <= clock
<1>1. IInv /\ [Next]_vars => A
  <2> SUFFICES ASSUME IInv, [Next]_vars, ~overlap, NEW k \in AlertKey,
                      delivered'[k].n > delivered[k].n, NEW s \in Scope, Covers(s, k)
               PROVE  wanted[s] <= clock
    OBVIOUS
  <2>1. PICK p \in Proc : Notify(p, k)
    BY DeliveredByNotify DEF IInv
  <2>2. pc[p] = "keys" /\ ~IsSnoozed(st[p].snooze, k, job[p].now)
    BY <2>1 DEF Notify, Suppressed
  <2>3. ~(job[p].now < st[p].snooze[s])
    BY <2>2 DEF IsSnoozed
  <2>4. /\ job[p].now \in Nat /\ clock \in Nat /\ job[p].now <= clock
        /\ st[p].snooze[s] \in Nat \cup {Never}
    BY DEF IInv, TypeOK, Job, JobInv, AlertState
  <2>5. st[p].snooze[s] <= clock
    BY <2>3, <2>4 DEF Never
  <2>6. file.snooze[s] <= clock
    BY <2>2, <2>5 DEF IInv, SnoozeInv, SameOrExpired
  <2> QED BY <2>6 DEF IInv, SnoozeIsAsAsked
<1> QED BY Inductive, <1>1, PTL DEF Spec, SnoozeRespected
=============================================================================
