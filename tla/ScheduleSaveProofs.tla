-------------------------- MODULE ScheduleSaveProofs --------------------------
(***************************************************************************)
(* Proofs about ScheduleSave, for any number of processes, tasks and       *)
(* intervals, on every platform.                                           *)
(***************************************************************************)
EXTENDS ScheduleSave, TLAPS

-----------------------------------------------------------------------------
(* The invariant.                                                          *)

\* The crontab a process is about to write back is still the crontab: the lock
\* is its own from the listing to the writing.
Stage(p) ==
    /\ pc[p] \in {"list", "write"} => platform = "linux" /\ cronLock = p
    /\ pc[p] = "write" => table[p] = [lines |-> entry, foreign |-> foreign]
    /\ pc[p] = "load" => platform = "darwin"
    /\ pc[p] = "create" => platform = "windows"
    /\ pc[p] \in {"list", "write", "load", "create"} => Valid(job[p].to)

\* A save that has nothing to say about the schedule.
Quiet(j) ==
    \/ j.prev = Odd
    \/ /\ j.wish.enabled = j.prev.enabled
       /\ j.prev.enabled =>
            /\ j.wish.interval = j.prev.interval
            /\ j.prev.interval \in HourInterval => j.wish.hour = j.prev.hour

\* What a config update knows of the entry it may have to put back.  While
\* nothing has gone wrong for it, what it read is still there until it calls
\* the scheduler, which a quiet one never does.
Update(p) ==
    /\ job[p].next # "done"
    /\ job[p].next = "restored" =>
          job[p].to = job[p].prev /\ pc[p] \in {"call", "list", "write", "load", "create"}
    /\ platform = "windows" => job[p].prev \in {Off, Odd}
    /\ pc[p] \notin {"idle", "describe"} => ~Refused(job[p].prev, job[p].wish)
    /\ clean[p] /\ pc[p] = "apply" => Seen(job[p].task) = job[p].prev
    /\ clean[p] /\ pc[p] = "load" => entry[job[p].task] = Target(job[p].to)
    /\ clean[p] /\ pc[p] \notin {"idle", "describe"} /\ Quiet(job[p]) =>
          /\ job[p].next = "save" /\ pc[p] \in {"apply", "save", "inspect"}
          /\ Seen(job[p].task) = job[p].prev

Inv(p) == Stage(p) /\ (job[p].op = "update" => Update(p))

IInv == TypeOK /\ \A p \in Proc : Inv(p)

-----------------------------------------------------------------------------
(* Schedules and wishes.                                                   *)

LEMMA Constants ==
    /\ Off \in Schedule /\ Odd \in Schedule /\ NoWish \in Wish
    /\ NoJob \in Jobs /\ NoTable \in Tables
<1>1. Off \in Schedule /\ Odd \in Schedule
  BY DEF Schedule
<1>2. NoWish \in Wish
  BY DEF Wish
<1>3. NoJob \in Jobs
  BY <1>1, <1>2, NameAssumption DEF NoJob, Jobs
<1>4. NoTable \in Tables
  BY <1>1 DEF NoTable, Tables
<1> QED
  BY <1>1, <1>2, <1>3, <1>4

\* Off is the one schedule that is not enabled.
LEMMA Disabled == \A s \in Schedule : ~s.enabled => s = Off
BY DEF Schedule, Off, Odd, Stored

\* An enabled entry whose interval could not be read back is Odd; any other has
\* an interval, and is what Enable would write for it.
LEMMA Enabled ==
    ASSUME NEW s \in Schedule, s.enabled, s # Odd
    PROVE  s.interval \in Interval /\ Stored(s.interval, s.hour) = s
<1>1. PICK i \in Interval, h \in Hour : s = Stored(i, h)
  BY DEF Schedule, Off
<1>2. s.interval = i /\ s.hour = IF i \in HourInterval THEN h ELSE 0
  BY <1>1 DEF Stored
<1> QED
  BY <1>1, <1>2 DEF Stored

\* What is put back is what was there, if that could be read.
LEMMA Recovered ==
    ASSUME NEW s \in Schedule, s # Odd
    PROVE  Valid(s) /\ Target(s) = s
<1>1. CASE s.enabled
  BY <1>1, Enabled DEF Valid, Target
<1>2. CASE ~s.enabled
  BY <1>2, Disabled DEF Valid, Target
<1> QED
  BY <1>1, <1>2

LEMMA Targets ==
    ASSUME NEW to \in Wish \cup Schedule, Valid(to)
    PROVE  Target(to) \in Schedule
<1>1. CASE to \in Schedule /\ to # Odd
  BY <1>1, Recovered
<1>2. CASE to = Odd
  BY <1>2, NameAssumption DEF Odd, Valid
<1>3. CASE to \in Wish
  <2>1. CASE ~to.enabled
    BY <2>1, Constants DEF Target
  <2>2. CASE to.enabled
    <3>2. to # NoWish
      BY <2>2 DEF NoWish
    <3>3. to.hour \in Hour
      BY <1>3, <3>2 DEF Wish
    <3>1. to.interval \in Interval /\ to.hour \in Hour
      BY <2>2, <3>3 DEF Valid
    <3> QED
      BY <2>2, <3>1 DEF Target, Schedule
  <2> QED
    BY <2>1, <2>2
<1> QED
  BY <1>1, <1>2, <1>3

\* A save that asks for what is there already matches it, unless it was refused.
LEMMA QuietMatches ==
    ASSUME NEW j \in Jobs, Quiet(j), ~Refused(j.prev, j.wish)
    PROVE  Matches(j.prev, j.wish)
<1>0. j.prev \in Schedule
  BY DEF Jobs
<1>1. CASE j.prev = Odd
  BY <1>1 DEF Refused, Matches, Odd
<1>2. CASE j.prev # Odd /\ j.prev.enabled
  BY <1>0, <1>2, Enabled DEF Quiet, Matches
<1>3. CASE ~j.prev.enabled
  BY <1>3 DEF Quiet, Matches, Odd
<1> QED
  BY <1>1, <1>2, <1>3

-----------------------------------------------------------------------------
(* What a step of p does to the others.                                    *)

\* The place, the job and the table of p, and the lock it takes or gives back.
Shape(p) ==
    /\ pc' \in [Proc -> Labels] /\ job' \in [Proc -> Jobs] /\ table' \in [Proc -> Tables]
    /\ outcome' \in Outcomes
    /\ \A q \in Proc \ {p} : pc'[q] = pc[q] /\ job'[q] = job[q] /\ table'[q] = table[q]
    /\ \/ cronLock' = cronLock
       \/ cronLock = NoProc /\ cronLock' = p
       \/ cronLock = p /\ cronLock' = NoProc

\* A command is spoiled for good, and by every change of its task's entry.
Spoils(p, ok) ==
    /\ clean' \in [Proc -> BOOLEAN]
    /\ clean'[p] => clean[p] /\ ok
    /\ \A q \in Proc \ {p} : clean'[q] => clean[q]

Writes(p) ==
    /\ entry' \in [Task -> Schedule]
    /\ \A t \in Task : entry'[t] # entry[t] =>
          /\ t = job[p].task /\ pc'[p] # pc[p]
          /\ platform = "linux" => cronLock = p
          /\ \A q \in Proc \ {p} : clean'[q] => job[q].task # t

Frame(p) ==
    /\ Shape(p)
    /\ clean' \in [Proc -> BOOLEAN]
    /\ \A q \in Proc \ {p} : clean'[q] => clean[q]
    /\ Writes(p)
    /\ loaded' \in [Task -> BOOLEAN]
    /\ foreign' = foreign /\ platform' = platform /\ runs' \in Nat

LEMMA Ended ==
    ASSUME TypeOK, NEW p \in Proc,
           pc' = [pc EXCEPT ![p] = "idle"] /\ job' = [job EXCEPT ![p] = NoJob],
           table' = [table EXCEPT ![p] = NoTable] /\ outcome' \in Outcomes,
           cronLock' = IF cronLock = p THEN NoProc ELSE cronLock
    PROVE  Shape(p) /\ pc'[p] = "idle" /\ job'[p] = NoJob
BY Constants DEF TypeOK, Shape, Labels

LEMMA ReturnedFacts ==
    ASSUME TypeOK, NEW p \in Proc, Returned(p)
    PROVE  /\ Shape(p)
           /\ \/ job[p].next = "save" /\ pc'[p] = "save" /\ job'[p] = job[p]
              \/ /\ job[p].next # "save" /\ pc'[p] = "idle" /\ job'[p] = NoJob
                 /\ outcome' = IF job[p].next = "done" THEN "ok" ELSE "savefailed"
<1>1. CASE job[p].next = "save"
  BY <1>1, Constants DEF TypeOK, Returned, Goto, Shape, Labels
<1>2. CASE job[p].next # "save"
  BY <1>2, Ended DEF Returned, End, Goto, Outcomes
<1> QED
  BY <1>1, <1>2

LEMMA FailedFacts ==
    ASSUME TypeOK, NEW p \in Proc, Failed(p)
    PROVE  /\ Shape(p) /\ pc'[p] = "idle" /\ job'[p] = NoJob
           /\ outcome' = IF job[p].next = "restored" THEN "notrestored" ELSE "error"
BY Ended DEF Failed, End, Goto, Outcomes

LEMMA RestoreFacts ==
    ASSUME TypeOK, NEW p \in Proc, Restore(p)
    PROVE  /\ Shape(p) /\ pc'[p] = "call"
           /\ job'[p].op = job[p].op /\ job'[p].task = job[p].task /\ job'[p].wish = job[p].wish
           /\ job'[p].prev = job[p].prev /\ job'[p].to = job[p].prev /\ job'[p].next = "restored"
<1> DEFINE j == [job[p] EXCEPT !.next = "restored", !.to = job[p].prev]
<1>1. job[p] \in Jobs
  BY DEF TypeOK
<1>2. j \in Jobs
  BY <1>1 DEF Jobs
<1>3. job' = [job EXCEPT ![p] = j]
  BY DEF Restore
<1>5. /\ j.op = job[p].op /\ j.task = job[p].task /\ j.wish = job[p].wish
      /\ j.prev = job[p].prev /\ j.to = job[p].prev /\ j.next = "restored"
  BY <1>1 DEF Jobs
<1> HIDE DEF j
<1>4. Shape(p) /\ pc'[p] = "call" /\ job'[p] = j
  BY <1>2, <1>3 DEF Restore, Goto, TypeOK, Shape, Labels
<1> QED
  BY <1>4, <1>5

LEMMA OwnFacts ==
    ASSUME TypeOK, NEW p \in Proc, NEW ok \in BOOLEAN, Own(p, ok)
    PROVE  Spoils(p, ok)
<1>1. clean \in [Proc -> BOOLEAN]
  BY DEF TypeOK
<1>2. clean' = [clean EXCEPT ![p] = clean[p] /\ ok]
  BY DEF Own
<1>3. clean' \in [Proc -> BOOLEAN]
  BY <1>1, <1>2
<1>4. clean'[p] = (clean[p] /\ ok) /\ \A q \in Proc \ {p} : clean'[q] = clean[q]
  BY <1>1, <1>2, Zenon
<1> QED
  BY <1>3, <1>4 DEF Spoils

LEMMA ChangedFacts ==
    ASSUME TypeOK, NEW p \in Proc, NEW ok \in BOOLEAN, Changed(p, ok)
    PROVE  Spoils(p, ok) /\ \A q \in Proc \ {p} : clean'[q] => job[q].task # job[p].task
<1>1. clean \in [Proc -> BOOLEAN]
  BY DEF TypeOK
<1>2. \A q \in Proc : clean'[q] <=> clean[q] /\ IF q = p THEN ok ELSE job[q].task # job[p].task
  BY <1>1, Zenon DEF Changed
<1>3. clean' \in [Proc -> BOOLEAN]
  BY <1>1 DEF Changed
<1> QED
  BY <1>2, <1>3 DEF Spoils

LEMMA UntouchedFacts ==
    ASSUME TypeOK, NEW p \in Proc, UNCHANGED clean
    PROVE  Spoils(p, TRUE)
BY DEF TypeOK, Spoils

-----------------------------------------------------------------------------
(* Every step keeps the invariant.                                         *)

\* A step of p does not disturb what q knows.
LEMMA Others ==
    ASSUME IInv, NEW p \in Proc, Frame(p), NEW q \in Proc \ {p}
    PROVE  Inv(q)'
<1> USE DEF IInv, Frame, Shape
<1>1. /\ pc'[q] = pc[q] /\ job'[q] = job[q] /\ table'[q] = table[q] /\ (clean'[q] => clean[q])
      /\ platform' = platform /\ foreign' = foreign
  OBVIOUS
<1>2. Stage(q)'
  <2>1. pc[q] \in {"list", "write"} => cronLock = q /\ cronLock' = q /\ platform = "linux"
    BY NameAssumption DEF Inv, Stage
  <2>2. pc[q] = "write" => entry' = entry
    <3>1. ASSUME pc[q] = "write", NEW t \in Task PROVE entry'[t] = entry[t]
      BY <2>1, <3>1 DEF Writes
    <3> QED
      BY <3>1 DEF Writes, TypeOK
  <2> QED
    BY <1>1, <2>1, <2>2 DEF Inv, Stage, Valid
<1>3. ASSUME job'[q].op = "update" PROVE Update(q)'
  <2>1. clean'[q] => entry'[job[q].task] = entry[job[q].task]
    BY DEF Writes, TypeOK, Jobs
  <2>2. clean'[q] => Seen(job[q].task)' = Seen(job[q].task)
    BY <1>1, <2>1 DEF Seen
  <2>3. Update(q)
    BY <1>1, <1>3 DEF Inv
  <2> QED
    BY <1>1, <2>1, <2>2, <2>3 DEF Update, Refused, Quiet, Target
<1> QED
  BY <1>2, <1>3 DEF Inv

LEMMA Ending ==
    ASSUME NEW p \in Proc, pc'[p] = "idle", job'[p] = NoJob
    PROVE  Inv(p)'
BY DEF Inv, Stage, NoJob

\* A step that leaves the scheduler alone.
LEMMA QuietFrame ==
    ASSUME TypeOK, NEW p \in Proc, Shape(p), NEW ok, Spoils(p, ok),
           UNCHANGED << platform, Scheduler, runs >>
    PROVE  Frame(p)
BY DEF Frame, Writes, TypeOK, Scheduler, Spoils

\* What a command was asked for, and what it has read, stay while it goes on.
Keeps(p) ==
    pc[p] \notin {"idle", "describe"} /\ pc'[p] = "call" =>
        /\ job'[p].op = job[p].op /\ job'[p].wish = job[p].wish /\ job'[p].prev = job[p].prev

Good(p) == Frame(p) /\ Inv(p)' /\ Keeps(p)

\* A command that starts has not looked at anything yet.
LEMMA BeginGood ==
    ASSUME IInv, NEW p \in Proc,
           ConfigUpdate(p) \/ ScheduleConfig(p) \/ ScheduleEnable(p) \/ ScheduleDisable(p)
    PROVE  Good(p)
<1> DEFINE Starts(j) ==
      /\ pc[p] = "idle"
      /\ job' = [job EXCEPT ![p] = j] /\ clean' = [clean EXCEPT ![p] = TRUE] /\ runs' = runs + 1
      /\ \/ pc' = [pc EXCEPT ![p] = "describe"]
         \/ pc' = [pc EXCEPT ![p] = "call"] /\ j.op # "update"
      /\ UNCHANGED << platform, entry, loaded, foreign, cronLock, table, outcome >>
<1>1. ASSUME NEW j \in Jobs, Starts(j), j.op = "update" => j.next = "save" /\ j.prev = Off
      PROVE  Good(p)
  <2>6. job'[p] = j /\ platform' = platform
    BY <1>1 DEF IInv, TypeOK
  <2>0. pc \in [Proc -> Labels]
    BY DEF IInv, TypeOK
  <2>7. \/ pc' = [pc EXCEPT ![p] = "describe"]
        \/ pc' = [pc EXCEPT ![p] = "call"] /\ j.op # "update"
    BY <1>1
  <2>1. pc'[p] = "describe" \/ (pc'[p] = "call" /\ j.op # "update")
    BY <2>0, <2>7
  <2>2. Shape(p)
    BY <1>1 DEF IInv, TypeOK, Shape, Labels
  <2>3. /\ clean' \in [Proc -> BOOLEAN] /\ runs' \in Nat
        /\ \A q \in Proc \ {p} : clean'[q] => clean[q]
    BY <1>1 DEF IInv, TypeOK
  <2>4. Frame(p)
    BY <1>1, <2>2, <2>3 DEF Frame, Writes, IInv, TypeOK
  <2>5. Inv(p)'
    BY <1>1, <2>1, <2>6 DEF Inv, Stage, Update
  <2> QED
    BY <1>1, <2>4, <2>5 DEF Good, Keeps
<1>2. CASE ConfigUpdate(p)
  <2>1. PICK w \in Wish :
          Begin(p, [NoJob EXCEPT !.op = "update", !.wish = w, !.next = "save"], "describe")
    BY <1>2, Zenon DEF ConfigUpdate
  <2> DEFINE j == [NoJob EXCEPT !.op = "update", !.wish = w, !.next = "save"]
  <2>2. j \in Jobs /\ j.next = "save" /\ j.prev = Off
    BY Constants DEF Jobs, NoJob
  <2>3. Begin(p, j, "describe")
    BY <2>1
  <2> HIDE DEF j
  <2>4. Starts(j)
    BY <2>2, <2>3 DEF Begin, Goto
  <2> HIDE DEF Starts
  <2> QED
    BY <1>1, <2>2, <2>4
<1>3. CASE ScheduleConfig(p)
  <2>1. PICK w \in Wish, op \in {"config", "configkeep"} :
          Begin(p, [NoJob EXCEPT !.op = op, !.task = SessionRefresh, !.wish = w, !.next = "save"], "describe")
    BY <1>3, Zenon DEF ScheduleConfig
  <2> DEFINE j == [NoJob EXCEPT !.op = op, !.task = SessionRefresh, !.wish = w, !.next = "save"]
  <2>2. j \in Jobs /\ j.op # "update"
    BY Constants, NameAssumption DEF Jobs, NoJob
  <2>3. Begin(p, j, "describe")
    BY <2>1
  <2> HIDE DEF j
  <2>4. Starts(j)
    BY <2>2, <2>3 DEF Begin, Goto
  <2> HIDE DEF Starts
  <2> QED
    BY <1>1, <2>2, <2>4
<1>4. CASE ScheduleEnable(p)
  <2>1. PICK t \in Task, w \in Wish :
          Begin(p, [NoJob EXCEPT !.op = "cli", !.task = t, !.to = w], "call")
    BY <1>4, Zenon DEF ScheduleEnable
  <2> DEFINE j == [NoJob EXCEPT !.op = "cli", !.task = t, !.to = w]
  <2>2. j \in Jobs /\ j.op # "update"
    BY Constants DEF Jobs, NoJob
  <2>3. Begin(p, j, "call")
    BY <2>1
  <2> HIDE DEF j
  <2>4. Starts(j)
    BY <2>2, <2>3 DEF Begin, Goto
  <2> HIDE DEF Starts
  <2> QED
    BY <1>1, <2>2, <2>4
<1>5. CASE ScheduleDisable(p)
  <2>1. PICK t \in Task :
          Begin(p, [NoJob EXCEPT !.op = "cli", !.task = t], "call")
    BY <1>5, Zenon DEF ScheduleDisable
  <2> DEFINE j == [NoJob EXCEPT !.op = "cli", !.task = t]
  <2>2. j \in Jobs /\ j.op # "update"
    BY Constants DEF Jobs, NoJob
  <2>3. Begin(p, j, "call")
    BY <2>1
  <2> HIDE DEF j
  <2>4. Starts(j)
    BY <2>2, <2>3 DEF Begin, Goto
  <2> HIDE DEF Starts
  <2> QED
    BY <1>1, <2>2, <2>4
<1> QED
  BY <1>2, <1>3, <1>4, <1>5

LEMMA OverGood ==
    ASSUME IInv, NEW p \in Proc, Shape(p), pc'[p] = "idle", job'[p] = NoJob,
           NEW ok, Spoils(p, ok), UNCHANGED << platform, Scheduler, runs >>
    PROVE  Good(p)
BY QuietFrame, Ending DEF Good, IInv, Keeps

\* A command that goes on to the scheduler, or has come back from it, is not a
\* quiet one, unless something has gone wrong for it.
LEMMA ReturnGood ==
    ASSUME IInv, NEW p \in Proc, Returned(p), pc[p] \in {"call", "list", "write", "load", "create"},
           Frame(p), NEW ok, Spoils(p, ok)
    PROVE  Good(p)
<1>1. CASE pc'[p] = "idle" /\ job'[p] = NoJob
  BY <1>1, Ending DEF Good, Keeps
<1>2. CASE job[p].next = "save" /\ pc'[p] = "save" /\ job'[p] = job[p]
  <2>1. Stage(p)'
    BY <1>2 DEF Stage
  <2>2. job[p].op = "update" => Update(p)'
    BY <1>2 DEF IInv, Inv, Update, Frame, Spoils, Quiet, Refused
  <2> QED
    BY <1>2, <2>1, <2>2 DEF Good, Inv, Keeps
<1> QED
  BY <1>1, <1>2, ReturnedFacts DEF IInv

LEMMA DescribeFailsGood ==
    ASSUME IInv, NEW p \in Proc, DescribeFails(p)
    PROVE  Good(p)
<1>1. Spoils(p, FALSE)
  BY OwnFacts DEF DescribeFails, IInv
<1>2. Shape(p) /\ pc'[p] = "idle" /\ job'[p] = NoJob
  BY Ended DEF DescribeFails, End, Goto, Outcomes, IInv
<1> QED
  BY <1>1, <1>2, OverGood DEF DescribeFails

LEMMA SeenFacts ==
    ASSUME TypeOK, NEW t \in Task
    PROVE  Seen(t) \in Schedule /\ (platform = "windows" => Seen(t) \in {Off, Odd})
<1>1. entry[t] \in Schedule
  BY DEF TypeOK
<1> QED
  BY <1>1, Constants, Disabled DEF Seen

LEMMA UpdateDescribeGood ==
    ASSUME IInv, NEW p \in Proc, UpdateDescribe(p)
    PROVE  Good(p)
<1> DEFINE t == job[p].task
<1>1. PICK ok \in BOOLEAN :
        LET d == Described(t, ok) IN
        /\ pc[p] = "describe" /\ job[p].op = "update"
        /\ ok \/ platform = "windows"
        /\ Own(p, ok)
        /\ IF Refused(d, job[p].wish)
           THEN End(p, "error")
           ELSE /\ Goto(p, "apply")
                /\ job' = [job EXCEPT ![p].prev = d]
                /\ UNCHANGED << cronLock, table, outcome >>
        /\ UNCHANGED << platform, Scheduler, runs >>
  BY Zenon DEF UpdateDescribe
<1> DEFINE d == Described(t, ok)
           j == [job[p] EXCEPT !.prev = d]
<1>2. job[p] \in Jobs /\ t \in Task /\ pc \in [Proc -> Labels] /\ job \in [Proc -> Jobs]
  BY DEF IInv, TypeOK, Jobs
<1>3. d \in Schedule /\ (platform = "windows" => d \in {Off, Odd}) /\ (ok => d = Seen(t))
  BY <1>2, SeenFacts, Constants DEF Described, IInv
<1>4. Spoils(p, ok)
  BY <1>1, OwnFacts DEF IInv
<1>7. job[p].next = "save"
  <2>1. Update(p) /\ pc[p] = "describe"
    BY <1>1 DEF IInv, Inv
  <2>2. job[p].next \in {"done", "save", "restored"}
    BY <1>2 DEF Jobs
  <2> QED
    BY <2>1, <2>2 DEF Update
<1>5. CASE Refused(d, job[p].wish)
  <2>1. Shape(p) /\ pc'[p] = "idle" /\ job'[p] = NoJob
    BY <1>1, <1>5, Ended DEF End, Goto, Outcomes, IInv
  <2> QED
    BY <1>1, <1>4, <2>1, OverGood
<1>6. CASE ~Refused(d, job[p].wish)
  <2>1. /\ j \in Jobs /\ j.op = job[p].op /\ j.task = t /\ j.wish = job[p].wish /\ j.prev = d
        /\ j.to = job[p].to /\ j.next = job[p].next
    BY <1>2, <1>3 DEF Jobs
  <2>2. /\ job' = [job EXCEPT ![p] = j] /\ pc' = [pc EXCEPT ![p] = "apply"]
        /\ UNCHANGED << cronLock, table, outcome >> /\ UNCHANGED << platform, Scheduler, runs >>
    BY <1>1, <1>6 DEF Goto
  <2> HIDE DEF j, d
  <2>3. Shape(p) /\ pc'[p] = "apply" /\ job'[p] = j
    BY <2>1, <2>2 DEF IInv, TypeOK, Shape, Labels
  <2>4. Frame(p)
    BY <1>4, <2>2, <2>3, QuietFrame DEF IInv
  <2>5. \A u : Seen(u)' = Seen(u)
    BY <2>2 DEF Seen, Scheduler
  <2>6. j.next = "save"
    BY <1>7, <2>1
  <2>7. Update(p)'
    BY <1>3, <1>4, <1>6, <2>1, <2>2, <2>3, <2>5, <2>6 DEF Update, Spoils, Refused
  <2> QED
    BY <1>1, <2>3, <2>4, <2>7 DEF Good, Inv, Stage, Keeps
<1> QED
  BY <1>5, <1>6

LEMMA UpdateApplyGood ==
    ASSUME IInv, NEW p \in Proc, UpdateApply(p)
    PROVE  Good(p)
<1> DEFINE t == job[p].task
           w == job[p].wish
<1>1. PICK ok \in BOOLEAN :
        LET d == Described(t, ok) IN
        /\ pc[p] = "apply"
        /\ ok \/ platform = "windows"
        /\ Own(p, ok)
        /\ \/ /\ Matches(d, w)
              /\ Goto(p, "save")
              /\ UNCHANGED << job, cronLock, table, outcome >>
           \/ /\ ~Matches(d, w) /\ (w.enabled => w.interval \in Interval)
              /\ Goto(p, "call")
              /\ job' = [job EXCEPT ![p].to = w]
              /\ UNCHANGED << cronLock, table, outcome >>
           \/ /\ ~Matches(d, w) /\ w.enabled /\ w.interval \notin Interval
              /\ End(p, "error")
        /\ UNCHANGED << platform, Scheduler, runs >>
  BY Zenon DEF UpdateApply
<1> DEFINE d == Described(t, ok)
<1>2. job[p] \in Jobs /\ pc \in [Proc -> Labels] /\ job \in [Proc -> Jobs]
  BY DEF IInv, TypeOK
<1>3. Spoils(p, ok) /\ (ok => d = Seen(t))
  BY <1>1, OwnFacts DEF IInv, Described
<1>4. \A u : Seen(u)' = Seen(u)
  BY <1>1 DEF Seen, Scheduler
<1>5. CASE pc' = [pc EXCEPT ![p] = "save"] /\ UNCHANGED << job, cronLock, table, outcome >>
  <2>1. Shape(p) /\ pc'[p] = "save" /\ job'[p] = job[p]
    BY <1>2, <1>5 DEF IInv, TypeOK, Shape, Labels
  <2>2. Frame(p)
    BY <1>1, <1>3, <2>1, QuietFrame DEF IInv
  <2>3. job[p].op = "update" => Update(p)'
    BY <1>1, <1>3, <1>4, <2>1 DEF IInv, Inv, Update, Spoils, Refused, Quiet
  <2> QED
    BY <2>1, <2>2, <2>3 DEF Good, Inv, Stage, Keeps
<1>6. CASE /\ ~Matches(d, w) /\ pc' = [pc EXCEPT ![p] = "call"] /\ job' = [job EXCEPT ![p].to = w]
           /\ UNCHANGED << cronLock, table, outcome >>
  <2> DEFINE j == [job[p] EXCEPT !.to = w]
  <2>1. /\ j \in Jobs /\ j.op = job[p].op /\ j.task = t /\ j.wish = w /\ j.prev = job[p].prev
        /\ j.to = w /\ j.next = job[p].next
    BY <1>2 DEF Jobs
  <2>2. job' = [job EXCEPT ![p] = j]
    BY <1>6
  <2> HIDE DEF j
  <2>3. Shape(p) /\ pc'[p] = "call" /\ job'[p] = j
    BY <1>6, <2>1, <2>2 DEF IInv, TypeOK, Shape, Labels
  <2>4. Frame(p)
    BY <1>1, <1>3, <2>3, QuietFrame DEF IInv
  <2>5. ASSUME job[p].op = "update" PROVE Update(p)'
    <3>1. Update(p) /\ ~Refused(job[p].prev, w)
      BY <1>1, <2>5 DEF IInv, Inv, Update
    <3>2. ~(clean'[p] /\ Quiet(j))
      <4>1. SUFFICES ASSUME clean'[p], Quiet(j) PROVE FALSE
        OBVIOUS
      <4>2. clean[p] /\ ok
        BY <1>3, <4>1 DEF Spoils
      <4>3. d = job[p].prev
        BY <1>1, <1>3, <3>1, <4>2 DEF Update
      <4>4. Matches(j.prev, j.wish)
        BY <2>1, <3>1, <4>1, QuietMatches
      <4> QED
        BY <1>6, <2>1, <4>3, <4>4
    <3>3. j.next # "done" /\ j.next # "restored"
      BY <1>1, <2>1, <3>1 DEF Update
    <3>4. platform' = "windows" => j.prev \in {Off, Odd}
      BY <1>1, <2>1, <3>1 DEF Update
    <3> QED
      BY <2>1, <2>3, <3>1, <3>2, <3>3, <3>4 DEF Update, Refused
  <2> QED
    BY <2>1, <2>3, <2>4, <2>5 DEF Good, Inv, Stage, Keeps
<1>7. CASE End(p, "error")
  <2>1. Shape(p) /\ pc'[p] = "idle" /\ job'[p] = NoJob
    BY <1>7, Ended DEF End, Goto, Outcomes, IInv
  <2> QED
    BY <1>1, <1>3, <2>1, OverGood
<1> QED
  BY <1>1, <1>5, <1>6, <1>7 DEF Goto

LEMMA ConfigDescribeGood ==
    ASSUME IInv, NEW p \in Proc, ConfigDescribe(p)
    PROVE  Good(p)
<1> DEFINE t == job[p].task
<1>1. PICK ok \in BOOLEAN :
        LET d == Described(t, ok) IN
        /\ pc[p] = "describe" /\ job[p].op # "update"
        /\ ok \/ platform = "windows"
        /\ Own(p, ok)
        /\ job' = [job EXCEPT ![p].prev = d, ![p].to = job[p].wish]
        /\ Goto(p, IF job[p].op = "configkeep" THEN "save" ELSE "call")
        /\ UNCHANGED << platform, Scheduler, cronLock, table, runs, outcome >>
  BY Zenon DEF ConfigDescribe
<1> DEFINE d == Described(t, ok)
           j == [job[p] EXCEPT !.prev = d, !.to = job[p].wish]
<1>2. job[p] \in Jobs /\ t \in Task /\ pc \in [Proc -> Labels] /\ job \in [Proc -> Jobs]
  BY DEF IInv, TypeOK, Jobs
<1>3. d \in Schedule
  BY <1>2, SeenFacts, Constants DEF Described, IInv
<1>4. j \in Jobs /\ j.op = job[p].op
  BY <1>2, <1>3 DEF Jobs
<1>5. Spoils(p, ok)
  BY <1>1, OwnFacts DEF IInv
<1>6. job' = [job EXCEPT ![p] = j]
  BY <1>1
<1> HIDE DEF j
<1>7. Shape(p) /\ pc'[p] \in {"save", "call"} /\ job'[p] = j
  BY <1>1, <1>2, <1>4, <1>6 DEF IInv, TypeOK, Shape, Labels, Goto
<1>8. Frame(p)
  BY <1>1, <1>5, <1>7, QuietFrame DEF IInv
<1> QED
  BY <1>1, <1>4, <1>7, <1>8 DEF Good, Inv, Stage, Keeps

LEMMA FailGood ==
    ASSUME IInv, NEW p \in Proc, Failed(p), NEW ok, Spoils(p, ok),
           UNCHANGED << platform, Scheduler, runs >>
    PROVE  Good(p)
BY FailedFacts, OverGood DEF IInv

\* The crontab is edited under the lock.
LEMMA CrontabGood ==
    ASSUME IInv, NEW p \in Proc,
           \/ LockCrontab(p) \/ ListCrontab(p) \/ ListFails(p) \/ WriteCrontab(p)
           \/ WriteCrontabFails(p)
    PROVE  Good(p)
<1>0. /\ pc \in [Proc -> Labels] /\ job[p] \in Jobs /\ entry \in [Task -> Schedule]
      /\ job[p].task \in Task /\ Inv(p) /\ TypeOK /\ table \in [Proc -> Tables]
  BY DEF IInv, TypeOK, Jobs
<1>1. CASE LockCrontab(p)
  <2>1. /\ platform = "linux" /\ cronLock = NoProc /\ cronLock' = p /\ pc[p] = "call"
        /\ Valid(job[p].to) /\ pc' = [pc EXCEPT ![p] = "list"]
        /\ UNCHANGED << platform, entry, loaded, foreign, job, table, runs, clean, outcome >>
    BY <1>1 DEF LockCrontab, Calls, Goto, Scheduler
  <2>2. Shape(p) /\ pc'[p] = "list" /\ job'[p] = job[p]
    BY <1>0, <2>1 DEF TypeOK, Shape, Labels
  <2>3. Frame(p)
    BY <1>0, <2>1, <2>2, UntouchedFacts, QuietFrame DEF Scheduler
  <2>4. Stage(p)'
    BY <2>1, <2>2 DEF Stage, Valid
  <2>5. job[p].op = "update" => Update(p)'
    BY <1>0, <2>1, <2>2 DEF Inv, Update, Refused, Quiet
  <2> QED
    BY <2>2, <2>3, <2>4, <2>5 DEF Good, Inv, Keeps
<1>2. CASE ListCrontab(p)
  <2>1. /\ pc[p] = "list" /\ pc' = [pc EXCEPT ![p] = "write"]
        /\ table' = [table EXCEPT ![p] = [lines |-> entry, foreign |-> foreign]]
        /\ UNCHANGED << platform, entry, loaded, foreign, cronLock, job, runs, clean, outcome >>
    BY <1>2 DEF ListCrontab, Goto, Scheduler
  <2>2. [lines |-> entry, foreign |-> foreign] \in Tables
    BY <1>0 DEF TypeOK, Tables
  <2>3. /\ Shape(p) /\ pc'[p] = "write" /\ job'[p] = job[p]
        /\ table'[p] = [lines |-> entry, foreign |-> foreign]
    BY <1>0, <2>1, <2>2 DEF TypeOK, Shape, Labels
  <2>4. Frame(p)
    BY <1>0, <2>1, <2>3, UntouchedFacts, QuietFrame DEF Scheduler
  <2>5. Stage(p)'
    BY <1>0, <2>1, <2>3 DEF Inv, Stage, Valid
  <2>6. job[p].op = "update" => Update(p)'
    BY <1>0, <2>1, <2>3 DEF Inv, Update, Refused, Quiet
  <2> QED
    BY <2>3, <2>4, <2>5, <2>6 DEF Good, Inv, Keeps
<1>3. CASE ListFails(p)
  <2>1. pc[p] = "list" /\ Spoils(p, FALSE) /\ UNCHANGED << platform, Scheduler, runs >>
    BY <1>0, <1>3, OwnFacts DEF ListFails
  <2>2. CASE Failed(p)
    BY <2>1, <2>2, FailGood
  <2>3. CASE Returned(p)
    <3>1. Frame(p)
      BY <1>0, <2>1, <2>3, ReturnedFacts, QuietFrame
    <3> QED
      BY <2>1, <2>3, <3>1, ReturnGood
  <2> QED
    BY <1>3, <2>2, <2>3 DEF ListFails
<1>4. CASE WriteCrontab(p)
  <2>1. pc[p] = "write" /\ Changed(p, TRUE) /\ Returned(p) /\ UNCHANGED << platform, loaded, runs >>
    BY <1>4 DEF WriteCrontab
  <2>2. Spoils(p, TRUE) /\ \A q \in Proc \ {p} : clean'[q] => job[q].task # job[p].task
    BY <1>0, <2>1, ChangedFacts
  <2>6. table[p].lines = entry /\ table[p].foreign = foreign /\ cronLock = p /\ Valid(job[p].to)
    BY <1>0, <2>1 DEF Inv, Stage
  <2>7. Target(job[p].to) \in Schedule
    BY <1>0, <2>6, Targets DEF Jobs
  <2>8. entry' = [table[p].lines EXCEPT ![job[p].task] = Target(job[p].to)]
    BY <1>4 DEF WriteCrontab
  <2>3. /\ entry' = [entry EXCEPT ![job[p].task] = Target(job[p].to)] /\ foreign' = foreign
        /\ cronLock = p /\ Target(job[p].to) \in Schedule
    BY <1>4, <2>6, <2>7, <2>8 DEF WriteCrontab
  <2>4. Shape(p) /\ pc'[p] # pc[p]
    BY <1>0, <2>1, ReturnedFacts
  <2>5. Frame(p)
    BY <1>0, <2>1, <2>2, <2>3, <2>4 DEF Frame, Writes, Spoils, TypeOK
  <2> QED
    BY <2>1, <2>2, <2>5, ReturnGood
<1>5. CASE WriteCrontabFails(p)
  <2>1. Spoils(p, FALSE) /\ Failed(p) /\ UNCHANGED << platform, Scheduler, runs >>
    BY <1>0, <1>5, OwnFacts DEF WriteCrontabFails
  <2> QED
    BY <2>1, FailGood
<1> QED
  BY <1>1, <1>2, <1>3, <1>4, <1>5

\* A step that changes the entry of its task alone, and not on Linux.
LEMMA WriteFrame ==
    ASSUME TypeOK, NEW p \in Proc, Shape(p), pc'[p] # pc[p], NEW ok \in BOOLEAN, Changed(p, ok),
           platform # "linux", NEW s \in Schedule,
           entry' = [entry EXCEPT ![job[p].task] = s],
           loaded' \in [Task -> BOOLEAN], UNCHANGED << platform, foreign, runs >>
    PROVE  Frame(p) /\ Spoils(p, ok)
BY ChangedFacts DEF Frame, Writes, Spoils, TypeOK, Jobs

LEMMA KeepFrame ==
    ASSUME TypeOK, NEW p \in Proc, Shape(p), NEW ok, Spoils(p, ok),
           loaded' \in [Task -> BOOLEAN], UNCHANGED << platform, entry, foreign, runs >>
    PROVE  Frame(p)
BY DEF Frame, Writes, Spoils, TypeOK

\* launchd and schtasks: no lock, and each command writes its own entry only.
LEMMA WritePlistGood ==
    ASSUME IInv, NEW p \in Proc, WritePlist(p)
    PROVE  Good(p)
<1>0. /\ pc \in [Proc -> Labels] /\ job[p] \in Jobs /\ entry \in [Task -> Schedule]
      /\ job[p].task \in Task /\ Inv(p) /\ TypeOK /\ loaded \in [Task -> BOOLEAN]
  BY DEF IInv, TypeOK, Jobs
<1>1. pc[p] = "call" /\ Valid(job[p].to) /\ platform = "darwin" /\ Target(job[p].to) \in Schedule
  BY <1>0, Targets DEF WritePlist, Calls, Jobs
<1>2. CASE /\ entry' = [entry EXCEPT ![job[p].task] = Target(job[p].to)]
           /\ Goto(p, "load") /\ Changed(p, TRUE)
           /\ UNCHANGED << loaded, job, cronLock, table, outcome >>
  <2>1. pc' = [pc EXCEPT ![p] = "load"] /\ UNCHANGED << platform, foreign, runs >>
    BY <1>2 DEF Goto, WritePlist
  <2>2. Shape(p) /\ pc'[p] = "load" /\ job'[p] = job[p]
    BY <1>0, <1>2, <2>1 DEF TypeOK, Shape, Labels
  <2>3. Frame(p) /\ Spoils(p, TRUE)
    BY <1>0, <1>1, <1>2, <2>1, <2>2, WriteFrame
  <2>4. Stage(p)'
    BY <1>1, <2>1, <2>2 DEF Stage, Valid
  <2>5. entry'[job[p].task] = Target(job[p].to)
    BY <1>0, <1>2
  <2>6. job[p].op = "update" => Update(p)'
    BY <1>0, <1>1, <2>1, <2>2, <2>3, <2>5 DEF Inv, Update, Refused, Quiet, Spoils, Target
  <2> QED
    BY <2>2, <2>3, <2>4, <2>6 DEF Good, Inv, Keeps
<1>3. CASE Own(p, FALSE) /\ Failed(p) /\ UNCHANGED << entry, loaded >>
  <2>1. UNCHANGED << platform, Scheduler, runs >>
    BY <1>3 DEF WritePlist, Scheduler
  <2>2. Spoils(p, FALSE)
    BY <1>0, <1>3, OwnFacts
  <2> QED
    BY <1>3, <2>1, <2>2, FailGood
<1> QED
  BY <1>2, <1>3 DEF WritePlist

LEMMA LoadPlistGood ==
    ASSUME IInv, NEW p \in Proc, LoadPlist(p)
    PROVE  Good(p)
<1>0. TypeOK /\ loaded \in [Task -> BOOLEAN]
  BY DEF IInv, TypeOK
<1>1. PICK ok \in BOOLEAN :
        /\ loaded' = [loaded EXCEPT ![job[p].task] = ok]
        /\ Changed(p, ok)
        /\ IF ok THEN Returned(p) ELSE Failed(p)
  BY Zenon DEF LoadPlist
<1>2. pc[p] = "load" /\ UNCHANGED << platform, entry, foreign, runs >>
  BY DEF LoadPlist
<1>3. Spoils(p, ok)
  BY <1>0, <1>1, ChangedFacts
<1>4. loaded' \in [Task -> BOOLEAN]
  BY <1>0, <1>1
<1>5. CASE Returned(p)
  <2>1. Frame(p)
    BY <1>0, <1>2, <1>3, <1>4, <1>5, ReturnedFacts, KeepFrame
  <2> QED
    BY <1>2, <1>3, <1>5, <2>1, ReturnGood
<1>6. CASE Failed(p)
  <2>1. Frame(p)
    BY <1>0, <1>2, <1>3, <1>4, <1>6, FailedFacts, KeepFrame
  <2> QED
    BY <1>0, <1>6, <2>1, FailedFacts, Ending DEF Good, Keeps
<1> QED
  BY <1>1, <1>5, <1>6

LEMMA RemovePlistGood ==
    ASSUME IInv, NEW p \in Proc, RemovePlist(p)
    PROVE  Good(p)
<1>0. TypeOK /\ loaded \in [Task -> BOOLEAN]
  BY DEF IInv, TypeOK
<1>1. /\ pc[p] = "call" /\ platform = "darwin" /\ UNCHANGED << platform, foreign, runs >>
      /\ loaded' = [loaded EXCEPT ![job[p].task] = FALSE]
  BY DEF RemovePlist, Calls
<1>2. loaded' \in [Task -> BOOLEAN]
  BY <1>0, <1>1
<1>3. CASE entry' = [entry EXCEPT ![job[p].task] = Off] /\ Changed(p, TRUE) /\ Returned(p)
  <2>1. Shape(p) /\ pc'[p] # pc[p]
    BY <1>0, <1>1, <1>3, ReturnedFacts
  <2>2. Frame(p) /\ Spoils(p, TRUE)
    BY <1>0, <1>1, <1>2, <1>3, <2>1, Constants, WriteFrame
  <2> QED
    BY <1>1, <1>3, <2>2, ReturnGood
<1>4. CASE UNCHANGED entry /\ Changed(p, FALSE) /\ Failed(p)
  <2>1. Spoils(p, FALSE)
    BY <1>0, <1>4, ChangedFacts
  <2>2. Frame(p)
    BY <1>0, <1>1, <1>2, <1>4, <2>1, FailedFacts, KeepFrame
  <2> QED
    BY <1>0, <1>4, <2>2, FailedFacts, Ending DEF Good, Keeps
<1> QED
  BY <1>3, <1>4 DEF RemovePlist

LEMMA DeleteTaskGood ==
    ASSUME IInv, NEW p \in Proc, DeleteTask(p)
    PROVE  Good(p)
<1>0. /\ pc \in [Proc -> Labels] /\ job[p] \in Jobs /\ Inv(p) /\ TypeOK
      /\ loaded \in [Task -> BOOLEAN]
  BY DEF IInv, TypeOK
<1>1. /\ pc[p] = "call" /\ Valid(job[p].to) /\ platform = "windows"
      /\ entry' = [entry EXCEPT ![job[p].task] = Off] /\ Changed(p, TRUE)
      /\ pc' = [pc EXCEPT ![p] = "create"]
      /\ UNCHANGED << platform, loaded, foreign, cronLock, job, table, runs, outcome >>
  BY DEF DeleteTask, Calls, Goto
<1>2. Shape(p) /\ pc'[p] = "create" /\ job'[p] = job[p]
  BY <1>0, <1>1 DEF TypeOK, Shape, Labels
<1>3. Frame(p) /\ Spoils(p, TRUE)
  BY <1>0, <1>1, <1>2, Constants, WriteFrame
<1>4. Stage(p)'
  BY <1>1, <1>2 DEF Stage, Valid
<1>5. job[p].op = "update" => Update(p)'
  BY <1>0, <1>1, <1>2, <1>3 DEF Inv, Update, Refused, Quiet, Spoils
<1> QED
  BY <1>2, <1>3, <1>4, <1>5 DEF Good, Inv, Keeps

LEMMA CreateTaskGood ==
    ASSUME IInv, NEW p \in Proc, CreateTask(p)
    PROVE  Good(p)
<1>0. TypeOK /\ Inv(p) /\ job[p] \in Jobs /\ loaded \in [Task -> BOOLEAN]
  BY DEF IInv, TypeOK
<1>1. pc[p] = "create" /\ UNCHANGED << platform, loaded, foreign, runs >>
  BY DEF CreateTask
<1>2. platform = "windows" /\ Target(job[p].to) \in Schedule
  BY <1>0, <1>1, Targets DEF Inv, Stage, Jobs
<1>3. CASE /\ entry' = [entry EXCEPT ![job[p].task] = Target(job[p].to)]
           /\ Changed(p, TRUE) /\ Returned(p)
  <2>1. Shape(p) /\ pc'[p] # pc[p]
    BY <1>0, <1>1, <1>3, ReturnedFacts
  <2>2. Frame(p) /\ Spoils(p, TRUE)
    BY <1>0, <1>1, <1>2, <1>3, <2>1, WriteFrame
  <2> QED
    BY <1>1, <1>3, <2>2, ReturnGood
<1>4. CASE UNCHANGED entry /\ Own(p, FALSE) /\ Failed(p)
  <2>1. Spoils(p, FALSE)
    BY <1>0, <1>4, OwnFacts
  <2> QED
    BY <1>1, <1>4, <2>1, FailGood DEF Scheduler
<1> QED
  BY <1>3, <1>4 DEF CreateTask

LEMMA DisableTaskGood ==
    ASSUME IInv, NEW p \in Proc, DisableTask(p)
    PROVE  Good(p)
<1>0. TypeOK /\ loaded \in [Task -> BOOLEAN]
  BY DEF IInv, TypeOK
<1>1. pc[p] = "call" /\ platform = "windows" /\ UNCHANGED << platform, loaded, foreign, runs >>
  BY DEF DisableTask, Calls
<1>3. CASE entry' = [entry EXCEPT ![job[p].task] = Off] /\ Changed(p, TRUE) /\ Returned(p)
  <2>1. Shape(p) /\ pc'[p] # pc[p]
    BY <1>0, <1>1, <1>3, ReturnedFacts
  <2>2. Frame(p) /\ Spoils(p, TRUE)
    BY <1>0, <1>1, <1>3, <2>1, Constants, WriteFrame
  <2> QED
    BY <1>1, <1>3, <2>2, ReturnGood
<1>4. CASE UNCHANGED entry /\ Own(p, FALSE) /\ (Failed(p) \/ Returned(p))
  <2>1. Spoils(p, FALSE) /\ UNCHANGED << platform, Scheduler, runs >>
    BY <1>0, <1>1, <1>4, OwnFacts DEF Scheduler
  <2>2. CASE Failed(p)
    BY <2>1, <2>2, FailGood
  <2>3. CASE Returned(p)
    <3>1. Frame(p)
      BY <1>0, <2>1, <2>3, ReturnedFacts, QuietFrame
    <3> QED
      BY <1>1, <2>1, <2>3, <3>1, ReturnGood
  <2> QED
    BY <1>4, <2>2, <2>3
<1> QED
  BY <1>3, <1>4 DEF DisableTask

\* Only a config update looks at the entry before it restores it, and a quiet
\* one finds it as it was.
LEMMA SaveFailsGood ==
    ASSUME IInv, NEW p \in Proc, SaveFails(p)
    PROVE  Good(p)
<1>0. pc \in [Proc -> Labels] /\ job[p] \in Jobs /\ Inv(p) /\ TypeOK
  BY DEF IInv, TypeOK
<1>1. pc[p] = "save" /\ Spoils(p, TRUE) /\ UNCHANGED << platform, Scheduler, runs >>
  BY <1>0, UntouchedFacts DEF SaveFails
<1>2. CASE job[p].op = "update"
  <2>1. pc' = [pc EXCEPT ![p] = "inspect"] /\ UNCHANGED << job, cronLock, table, outcome >>
    BY <1>2 DEF SaveFails, Goto
  <2>2. Shape(p) /\ pc'[p] = "inspect" /\ job'[p] = job[p]
    BY <1>0, <2>1 DEF TypeOK, Shape, Labels
  <2>3. Frame(p)
    BY <1>0, <1>1, <2>2, QuietFrame
  <2>4. \A u : Seen(u)' = Seen(u)
    BY <1>1 DEF Seen, Scheduler
  <2>5. Update(p)'
    BY <1>0, <1>1, <1>2, <2>2, <2>4 DEF Inv, Update, Refused, Quiet, Spoils
  <2> QED
    BY <2>2, <2>3, <2>5 DEF Good, Inv, Stage, Keeps
<1>3. CASE job[p].op # "update"
  <2>1. /\ Shape(p) /\ pc'[p] = "call" /\ job'[p].op = job[p].op
        /\ job'[p].wish = job[p].wish /\ job'[p].prev = job[p].prev
    BY <1>0, <1>3, RestoreFacts DEF SaveFails
  <2>2. Frame(p)
    BY <1>0, <1>1, <2>1, QuietFrame
  <2> QED
    BY <1>3, <2>1, <2>2 DEF Good, Inv, Stage, Keeps
<1> QED
  BY <1>2, <1>3

LEMMA InspectGood ==
    ASSUME IInv, NEW p \in Proc, Inspect(p)
    PROVE  Good(p)
<1>0. job[p] \in Jobs /\ Inv(p) /\ TypeOK
  BY DEF IInv, TypeOK
<1>1. PICK ok \in BOOLEAN :
        /\ pc[p] = "inspect"
        /\ Own(p, ok)
        /\ IF Described(job[p].task, ok) = job[p].prev /\ (ok \/ platform = "windows")
           THEN End(p, "savefailed")
           ELSE Restore(p)
        /\ UNCHANGED << platform, Scheduler, runs >>
  BY Zenon DEF Inspect
<1>2. Spoils(p, ok)
  BY <1>0, <1>1, OwnFacts
<1>3. CASE End(p, "savefailed")
  <2>1. Shape(p) /\ pc'[p] = "idle" /\ job'[p] = NoJob
    BY <1>0, <1>3, Ended DEF End, Goto, Outcomes
  <2> QED
    BY <1>1, <1>2, <2>1, OverGood
<1>4. CASE Restore(p) /\ ~(Described(job[p].task, ok) = job[p].prev /\ (ok \/ platform = "windows"))
  <2> DEFINE j == job'[p]
  <2>1. Shape(p) /\ pc'[p] = "call"
    BY <1>0, <1>4, RestoreFacts
  <2>2. /\ j.op = job[p].op /\ j.task = job[p].task /\ j.wish = job[p].wish
        /\ j.prev = job[p].prev /\ j.to = j.prev /\ j.next = "restored"
    BY <1>0, <1>4, RestoreFacts
  <2>3. Frame(p)
    BY <1>0, <1>1, <1>2, <2>1, QuietFrame
  <2>4. ASSUME j.op = "update" PROVE Update(p)'
    <3>1. Update(p)
      BY <1>0, <2>2, <2>4 DEF Inv
    <3>2. ~(clean'[p] /\ Quiet(j))
      <4>1. SUFFICES ASSUME clean'[p], Quiet(j) PROVE FALSE
        OBVIOUS
      <4>2. clean[p] /\ ok
        BY <1>2, <4>1 DEF Spoils
      <4>3. Quiet(job[p])
        BY <2>2, <4>1 DEF Quiet
      <4>4. Seen(job[p].task) = job[p].prev
        BY <1>1, <3>1, <4>2, <4>3 DEF Update
      <4> QED
        BY <1>4, <4>2, <4>4 DEF Described
    <3> QED
      BY <1>1, <2>1, <2>2, <3>1, <3>2 DEF Update, Refused
  <2> QED
    BY <2>1, <2>2, <2>3, <2>4 DEF Good, Inv, Stage, Keeps
<1> QED
  BY <1>1, <1>3, <1>4

LEMMA OtherEndsGood ==
    ASSUME IInv, NEW p \in Proc, InvalidTiming(p) \/ Save(p) \/ Killed(p)
    PROVE  Good(p)
<1>0. Spoils(p, TRUE) /\ UNCHANGED << platform, Scheduler, runs >>
  BY UntouchedFacts DEF IInv, InvalidTiming, Save, Killed
<1>1. CASE InvalidTiming(p)
  BY <1>0, <1>1, FailGood DEF InvalidTiming
<1>2. CASE Save(p) \/ Killed(p)
  <2>1. Shape(p) /\ pc'[p] = "idle" /\ job'[p] = NoJob
    BY <1>2, Ended DEF Save, Killed, End, Goto, Outcomes, IInv
  <2> QED
    BY <1>0, <2>1, OverGood
<1> QED
  BY <1>1, <1>2

LEMMA StepGood ==
    ASSUME IInv, Next
    PROVE  \E p \in Proc : Good(p)
BY BeginGood, DescribeFailsGood, UpdateDescribeGood, UpdateApplyGood, ConfigDescribeGood,
   CrontabGood, WritePlistGood, LoadPlistGood, RemovePlistGood, DeleteTaskGood, CreateTaskGood,
   DisableTaskGood, SaveFailsGood, InspectGood, OtherEndsGood DEF Next

LEMMA InitInv == Init => IInv
<1> SUFFICES ASSUME Init PROVE IInv
  OBVIOUS
<1>1. /\ pc \in [Proc -> Labels] /\ job \in [Proc -> Jobs] /\ table \in [Proc -> Tables]
      /\ clean \in [Proc -> BOOLEAN] /\ loaded \in [Task -> BOOLEAN]
  BY Constants DEF Init, Labels
<1>2. foreign \in BOOLEAN /\ cronLock \in Proc \cup {NoProc} /\ runs \in Nat /\ outcome \in Outcomes
  BY DEF Init, Outcomes
<1>3. TypeOK
  BY <1>1, <1>2 DEF Init, TypeOK
<1>4. \A p \in Proc : Inv(p)
  BY DEF Init, Inv, Stage, NoJob
<1> QED
  BY <1>3, <1>4 DEF IInv

LEMMA Invariance == IInv /\ [Next]_vars => IInv'
<1> SUFFICES ASSUME IInv, [Next]_vars PROVE IInv'
  OBVIOUS
<1>1. CASE Next
  <2>1. PICK p \in Proc : Good(p)
    BY <1>1, StepGood
  <2>2. \A q \in Proc : Inv(q)'
    BY <2>1, Others DEF Good
  <2>3. TypeOK'
    BY <2>1 DEF Good, Frame, Shape, Writes, IInv, TypeOK
  <2> QED
    BY <2>2, <2>3 DEF IInv
<1>2. CASE UNCHANGED vars
  <2>1. TypeOK'
    BY <1>2 DEF vars, IInv, TypeOK
  <2>2. \A p \in Proc : Inv(p)'
    BY <1>2 DEF vars, IInv, Inv, Stage, Valid, Update, Refused, Seen, Target, Quiet
  <2> QED
    BY <2>1, <2>2 DEF IInv
<1> QED
  BY <1>1, <1>2

LEMMA Inductive == Spec => []IInv
BY InitInv, Invariance, PTL DEF Spec

-----------------------------------------------------------------------------
(* What follows.                                                           *)

\* The schedulers' entries, the commands and the crontab listings keep their
\* type: what is written to a scheduler is a schedule it can hold
\* (internal/schedule, validateScheduleTiming).
THEOREM TypeCorrect == Spec => []TypeOK
<1>1. IInv => TypeOK
  BY DEF IInv
<1> QED
  BY <1>1, Inductive, PTL

\* Enabling or disabling a task leaves the other task's entry and the user's own
\* crontab lines alone, whatever other processes do to the same crontab: each
\* lists, edits and writes it under one lock (linux.go), so the listing it writes
\* back is never a stale one.
THEOREM OthersAreKept == Spec => OthersKept
<1>1. ASSUME IInv, [Next]_vars
      PROVE  [/\ foreign' = foreign
              /\ \A t \in Task : entry'[t] # entry[t] =>
                    \E p \in Proc : job[p].task = t /\ pc'[p] # pc[p]]_vars
  <2>1. CASE Next
    <3>1. PICK p \in Proc : Good(p)
      BY <1>1, <2>1, StepGood
    <3> QED
      BY <3>1 DEF Good, Frame, Writes
  <2>2. CASE UNCHANGED vars
    BY <2>2
  <2> QED
    BY <1>1, <2>1, <2>2
<1> QED
  BY <1>1, Inductive, PTL DEF Spec, OthersKept

\* A settings save that carries the schedule as it was read, or could not read
\* its interval back, never comes to call Enable or Disable while nothing goes
\* wrong for it: neither to apply the schedule nor to restore it after a failed
\* save (applyAgentUpdateScheduleUpdate, config_api.go:355-398).
THEOREM UnrelatedSavesKeep == Spec => UnrelatedSaveKeepsSchedule
<1> DEFINE Unrelated(p) ==
      /\ job[p].op = "update" /\ pc[p] \notin {"idle", "describe"} /\ pc'[p] # pc[p]
      /\ clean'[p]
      /\ \/ job[p].prev = Odd
         \/ /\ job[p].wish.enabled = job[p].prev.enabled
            /\ job[p].prev.enabled =>
                 /\ job[p].wish.interval = job[p].prev.interval
                 /\ job[p].prev.interval \in HourInterval => job[p].wish.hour = job[p].prev.hour
<1>1. ASSUME IInv, IInv', [Next]_vars, NEW p \in Proc, Unrelated(p)
      PROVE  pc'[p] # "call"
  <2>1. SUFFICES ASSUME pc'[p] = "call" PROVE FALSE
    OBVIOUS
  <2>2. PICK q \in Proc : Good(q)
    BY <1>1, StepGood DEF vars
  <2>3. q = p
    BY <1>1, <2>2 DEF Good, Frame, Shape
  <2>4. /\ job'[p].op = job[p].op /\ job'[p].wish = job[p].wish /\ job'[p].prev = job[p].prev
    BY <1>1, <2>1, <2>2, <2>3 DEF Good, Keeps
  <2>5. Update(p)'
    BY <1>1, <2>4 DEF IInv, Inv
  <2>6. Quiet(job[p])
    BY <1>1 DEF Quiet
  <2>7. Quiet(job[p])'
    BY <2>4, <2>6 DEF Quiet
  <2> QED
    BY <1>1, <2>1, <2>5, <2>7 DEF Update
<1>2. ASSUME IInv, IInv', [Next]_vars
      PROVE  [\A p \in Proc : Unrelated(p) => pc'[p] # "call"]_vars
  BY <1>1, <1>2
<1> QED
  BY <1>2, Inductive, PTL DEF Spec, UnrelatedSaveKeepsSchedule

\* What is put back is what was read, unless that could not be read back at all,
\* and then an unspoiled update has called nothing it would have to undo.
LEMMA Undone ==
    ASSUME IInv, NEW p \in Proc, job[p].op = "update", job[p].next = "restored", clean[p],
           pc[p] \notin {"idle", "describe"}
    PROVE  /\ Valid(job[p].to) /\ Target(job[p].to) = job[p].prev /\ job[p].prev # Odd
           /\ platform = "windows" => job[p].prev = Off
<1>1. Update(p) /\ job[p].prev \in Schedule
  BY DEF IInv, Inv, TypeOK, Jobs
<1>2. job[p].prev # Odd
  BY <1>1 DEF Update, Quiet
<1>3. job[p].to = job[p].prev
  BY <1>1 DEF Update
<1> QED
  BY <1>1, <1>2, <1>3, Recovered DEF Update

\* The command of p has ended without having saved, and the entry is as it was.
Restored(p) ==
    /\ job[p].op = "update" /\ clean'[p] /\ pc[p] # "idle" /\ pc'[p] = "idle"
    /\ outcome' \in {"savefailed", "notrestored"}
    => job[p].prev = IF platform' = "windows" /\ entry'[job[p].task].enabled
                     THEN Odd ELSE entry'[job[p].task]

LEMMA ReturnRestores ==
    ASSUME IInv, NEW p \in Proc, Returned(p), pc[p] \notin {"idle", "describe"},
           NEW ok \in BOOLEAN, Spoils(p, ok), platform' = platform,
           ok /\ clean[p] /\ job[p].op = "update" => entry'[job[p].task] = Target(job[p].to)
    PROVE  Restored(p)
<1> SUFFICES ASSUME job[p].op = "update", clean'[p], pc'[p] = "idle"
             PROVE  job[p].prev = IF platform' = "windows" /\ entry'[job[p].task].enabled
                                  THEN Odd ELSE entry'[job[p].task]
  BY DEF Restored
<1>1. clean[p] /\ ok
  BY DEF Spoils
<1>2. job[p].next = "restored"
  <2>1. job[p].next \in {"done", "save", "restored"} /\ Update(p)
    BY DEF IInv, Inv, TypeOK, Jobs
  <2>2. job[p].next # "save"
    BY ReturnedFacts DEF IInv
  <2> QED
    BY <2>1, <2>2 DEF Update
<1>3. entry'[job[p].task] = job[p].prev /\ (platform = "windows" => job[p].prev = Off)
  BY <1>1, <1>2, Undone
<1> QED
  BY <1>3 DEF Off

LEMMA StepRestores ==
    ASSUME IInv, NEW p \in Proc, NEW ok \in BOOLEAN, Spoils(p, ok), ~ok
    PROVE  Restored(p)
BY DEF Restored, Spoils

LEMMA NextRestores ==
    ASSUME IInv, Next
    PROVE  \E p \in Proc : Good(p) /\ Restored(p)
<1>0. TypeOK /\ pc \in [Proc -> Labels]
  BY DEF IInv, TypeOK
<1>1. ASSUME NEW p \in Proc, outcome' \in {"ok", "error", "killed"} \/ pc[p] = "idle"
      PROVE  Restored(p)
  BY <1>1 DEF Restored
<1>2. ASSUME NEW p \in Proc, NEW l \in Labels \ {"idle"}, pc' = [pc EXCEPT ![p] = l]
      PROVE  Restored(p)
  BY <1>0, <1>2 DEF Restored
<1>3. ASSUME NEW p \in Proc, Own(p, FALSE) \/ Changed(p, FALSE) PROVE Restored(p)
  BY <1>0, <1>3, OwnFacts, ChangedFacts, StepRestores
<1>4. ASSUME NEW p \in Proc,
             ConfigUpdate(p) \/ ScheduleConfig(p) \/ ScheduleEnable(p) \/ ScheduleDisable(p)
      PROVE  Restored(p)
  <2>1. pc[p] = "idle"
    BY <1>4, Zenon DEF ConfigUpdate, ScheduleConfig, ScheduleEnable, ScheduleDisable, Begin
  <2> QED
    BY <1>1, <2>1
<1>5. ASSUME NEW p \in Proc, DescribeFails(p) \/ Save(p) \/ Killed(p) PROVE Restored(p)
  BY <1>1, <1>5 DEF DescribeFails, Save, Killed, End
<1>6. ASSUME NEW p \in Proc, UpdateDescribe(p) PROVE Restored(p)
  <2>1. outcome' = "error" \/ pc' = [pc EXCEPT ![p] = "apply"]
    BY <1>6, Zenon DEF UpdateDescribe, End, Goto
  <2> QED
    BY <1>1, <1>2, <2>1 DEF Labels
<1>7. ASSUME NEW p \in Proc, UpdateApply(p) PROVE Restored(p)
  <2>1. outcome' = "error" \/ pc' = [pc EXCEPT ![p] = "save"] \/ pc' = [pc EXCEPT ![p] = "call"]
    BY <1>7, Zenon DEF UpdateApply, End, Goto
  <2> QED
    BY <1>1, <1>2, <2>1 DEF Labels
<1>8. ASSUME NEW p \in Proc, ConfigDescribe(p) PROVE Restored(p)
  BY <1>8 DEF ConfigDescribe, Restored
<1>9. ASSUME NEW p \in Proc, InvalidTiming(p) PROVE Restored(p)
  <2> SUFFICES ASSUME job[p].op = "update", clean'[p], outcome' \in {"savefailed", "notrestored"}
               PROVE  FALSE
    BY DEF Restored
  <2>1. Failed(p) /\ pc[p] = "call" /\ ~Valid(job[p].to) /\ clean[p]
    BY <1>9 DEF InvalidTiming
  <2>2. job[p].next = "restored"
    BY <1>0, <2>1, FailedFacts
  <2> QED
    BY <2>1, <2>2, Undone
<1>10. ASSUME NEW p \in Proc, LockCrontab(p) \/ ListCrontab(p) \/ DeleteTask(p) PROVE Restored(p)
  BY <1>2, <1>10 DEF LockCrontab, ListCrontab, DeleteTask, Goto, Labels
<1>11. ASSUME NEW p \in Proc, ListFails(p) \/ WriteCrontabFails(p) PROVE Restored(p)
  BY <1>3, <1>11 DEF ListFails, WriteCrontabFails
<1>12. ASSUME NEW p \in Proc, WriteCrontab(p) PROVE Restored(p)
  <2>1. pc[p] = "write" /\ Changed(p, TRUE) /\ Returned(p) /\ platform' = platform
    BY <1>12 DEF WriteCrontab
  <2>2. table[p].lines \in [Task -> Schedule] /\ job[p].task \in Task
    BY <1>0 DEF TypeOK, Tables, Jobs
  <2>3. entry'[job[p].task] = Target(job[p].to)
    BY <1>12, <2>2 DEF WriteCrontab
  <2>4. Spoils(p, TRUE)
    BY <1>0, <2>1, ChangedFacts
  <2> QED
    BY <2>1, <2>3, <2>4, ReturnRestores
<1>13. ASSUME NEW p \in Proc, WritePlist(p) PROVE Restored(p)
  BY <1>2, <1>3, <1>13 DEF WritePlist, Goto, Labels
<1>14. ASSUME NEW p \in Proc, LoadPlist(p) PROVE Restored(p)
  <2>1. CASE Changed(p, TRUE) /\ Returned(p)
    <3>1. Spoils(p, TRUE)
      BY <1>0, <2>1, ChangedFacts
    <3>2. pc[p] = "load" /\ UNCHANGED << platform, entry >>
      BY <1>14 DEF LoadPlist
    <3>3. clean[p] /\ job[p].op = "update" => entry'[job[p].task] = Target(job[p].to)
      BY <3>2 DEF IInv, Inv, Update
    <3> QED
      BY <2>1, <3>1, <3>2, <3>3, ReturnRestores
  <2>2. CASE Changed(p, FALSE)
    BY <1>3, <2>2
  <2>3. (Changed(p, TRUE) /\ Returned(p)) \/ Changed(p, FALSE)
    BY <1>14, Zenon DEF LoadPlist
  <2> QED
    BY <2>1, <2>2, <2>3
<1>15. ASSUME NEW p \in Proc, NEW ok \in BOOLEAN, Spoils(p, ok), Returned(p), pc[p] = "call",
              entry' = [entry EXCEPT ![job[p].task] = Off], ~job[p].to.enabled,
              platform' = platform
       PROVE  Restored(p)
  <2>1. entry'[job[p].task] = Off
    BY <1>0, <1>15 DEF TypeOK, Jobs
  <2>2. Target(job[p].to) = Off
    BY <1>15 DEF Target
  <2> QED
    BY <1>15, <2>1, <2>2, ReturnRestores
<1>16. ASSUME NEW p \in Proc, RemovePlist(p) \/ DisableTask(p) PROVE Restored(p)
  <2>1. CASE Own(p, FALSE) \/ Changed(p, FALSE)
    BY <1>3, <2>1
  <2>2. CASE Changed(p, TRUE) /\ Returned(p) /\ entry' = [entry EXCEPT ![job[p].task] = Off]
    <3>1. Spoils(p, TRUE)
      BY <1>0, <2>2, ChangedFacts
    <3>2. pc[p] = "call" /\ ~job[p].to.enabled /\ platform' = platform
      BY <1>16 DEF RemovePlist, DisableTask, Calls
    <3> QED
      BY <1>15, <2>2, <3>1, <3>2
  <2> QED
    BY <1>16, <2>1, <2>2 DEF RemovePlist, DisableTask
<1>17. ASSUME NEW p \in Proc, CreateTask(p) PROVE Restored(p)
  <2>1. CASE Own(p, FALSE)
    BY <1>3, <2>1
  <2>2. CASE /\ Changed(p, TRUE) /\ Returned(p)
             /\ entry' = [entry EXCEPT ![job[p].task] = Target(job[p].to)]
    <3>1. Spoils(p, TRUE)
      BY <1>0, <2>2, ChangedFacts
    <3>2. entry'[job[p].task] = Target(job[p].to)
      BY <1>0, <2>2 DEF TypeOK, Jobs
    <3>3. pc[p] = "create" /\ platform' = platform
      BY <1>17 DEF CreateTask
    <3> QED
      BY <2>2, <3>1, <3>2, <3>3, ReturnRestores
  <2> QED
    BY <1>17, <2>1, <2>2 DEF CreateTask
<1>18. ASSUME NEW p \in Proc, SaveFails(p) PROVE Restored(p)
  BY <1>2, <1>18 DEF SaveFails, Restore, Goto, Labels
<1>19. ASSUME NEW p \in Proc, Inspect(p) PROVE Restored(p)
  <2>1. PICK ok \in BOOLEAN :
          /\ Own(p, ok)
          /\ IF Described(job[p].task, ok) = job[p].prev /\ (ok \/ platform = "windows")
             THEN End(p, "savefailed")
             ELSE Restore(p)
          /\ UNCHANGED << platform, Scheduler, runs >>
    BY <1>19, Zenon DEF Inspect
  <2>2. Spoils(p, ok)
    BY <1>0, <2>1, OwnFacts
  <2>3. CASE ~ok
    BY <2>2, <2>3, StepRestores
  <2>4. CASE Restore(p)
    BY <1>2, <2>4 DEF Restore, Goto, Labels
  <2>5. CASE ok /\ Described(job[p].task, ok) = job[p].prev
    BY <2>1, <2>5 DEF Restored, Described, Seen, Scheduler
  <2> QED
    BY <2>1, <2>3, <2>4, <2>5
<1> QED
  BY <1>4, <1>5, <1>6, <1>7, <1>8, <1>9, <1>10, <1>11, <1>12, <1>13, <1>14, <1>16, <1>17, <1>18,
     <1>19, BeginGood, DescribeFailsGood, UpdateDescribeGood, UpdateApplyGood, ConfigDescribeGood,
     CrontabGood, WritePlistGood, LoadPlistGood, RemovePlistGood, DeleteTaskGood, CreateTaskGood,
     DisableTaskGood, SaveFailsGood, InspectGood, OtherEndsGood DEF Next

\* A config update whose file could not be written has put the schedule back as
\* it was, on every platform, whatever other processes did meanwhile to the
\* other task, unless one of its own scheduler commands failed
\* (applyConfigUpdateAndSave, config_api.go:253-294).
THEOREM FailedUpdatesRestore == Spec => FailedUpdateRestores
<1>1. ASSUME IInv, [Next]_vars, NEW p \in Proc, NEW t \in Task,
             job[p].op = "update", job[p].task = t, clean'[p],
             Ends(p, "savefailed") \/ Ends(p, "notrestored")
      PROVE  Seen(t)' = job[p].prev
  <2>1. pc[p] # "idle" /\ pc'[p] = "idle" /\ outcome' \in {"savefailed", "notrestored"}
    BY <1>1 DEF Ends
  <2>2. PICK q \in Proc : Good(q) /\ Restored(q)
    BY <1>1, <2>1, NextRestores DEF vars
  <2>3. q = p
    BY <2>1, <2>2 DEF Good, Frame, Shape
  <2>4. Seen(t)' = IF platform' = "windows" /\ entry'[t].enabled THEN Odd ELSE entry'[t]
    BY DEF Seen
  <2> QED
    BY <1>1, <2>1, <2>2, <2>3, <2>4 DEF Restored
<1>2. ASSUME IInv, [Next]_vars
      PROVE  [\A p \in Proc, t \in Task :
                 job[p].op = "update" /\ job[p].task = t /\ clean'[p]
                    /\ (Ends(p, "savefailed") \/ Ends(p, "notrestored"))
                    => Seen(t)' = job[p].prev]_vars
  BY <1>1, <1>2
<1> QED
  BY <1>2, Inductive, PTL DEF Spec, FailedUpdateRestores
=============================================================================
