-------------------------- MODULE UsageRefreshProofs --------------------------
(***************************************************************************)
(* Proofs about UsageRefresh, for any number of calls and any timeouts.    *)
(* The inductive invariant says what the record of a call tells about its  *)
(* child, and that every credit spent, being spent or asked for was paid   *)
(* for by a click of its own.                                              *)
(***************************************************************************)
EXTENDS UsageRefresh, FiniteSetTheorems, TLAPS

\* What a record tells: pipes seen closed mean the child is gone, and a child
\* that was signalled while it ran leaves the flag of a work item or open pipes.
Telling(x) ==
    /\ x.closed => x.child # "run" /\ x.at \in {"reap", "kill", "answered"}
    /\ x.cut => x.timedOut \/ (x.at \in {"kill", "answered"} /\ ~x.closed)
    /\ x.ok => x.at = "answered" /\ x.child = "exit0" /\ x.closed /\ ~x.timedOut

\* The calls that may still spend a credit.
Owes(x) == x.kind = "credit" /\ x.at \in {"queued", "eof", "reap", "kill"} /\ ~x.landed
Owed == {c \in Calls : Owes(call[c])}
Asked == IF pending THEN 1 ELSE 0

TellingInv == \A c \in Calls : Telling(call[c])
CreditInv == spent + Cardinality(Owed) + Asked <= requested

IInv == TypeOK /\ TellingInv /\ CreditInv

-----------------------------------------------------------------------------
(* Records of calls.                                                       *)

LEMMA RecordTypes ==
    /\ Idle \in CallRecords /\ Telling(Idle) /\ ~Owes(Idle)
    /\ \A kind \in {"usage", "credit"}, gen \in Nat :
            /\ Queued(kind, gen) \in CallRecords
            /\ Telling(Queued(kind, gen))
            /\ Owes(Queued(kind, gen)) <=> kind = "credit"
<1>1. Idle \in CallRecords /\ Telling(Idle) /\ ~Owes(Idle) /\ Idle.at = "none" /\ ~Idle.landed
  BY DEF Idle, CallRecords, Telling, Owes
<1>2. ASSUME NEW kind \in {"usage", "credit"}, NEW gen \in Nat
      PROVE  /\ Queued(kind, gen) \in CallRecords
             /\ Telling(Queued(kind, gen))
             /\ Owes(Queued(kind, gen)) <=> kind = "credit"
  <2>1. Queued(kind, gen) \in CallRecords
    BY <1>1 DEF Queued, CallRecords
  <2>2. Telling(Queued(kind, gen))
    BY <1>1 DEF Queued, CallRecords, Telling
  <2>3. Owes(Queued(kind, gen)) <=> kind = "credit"
    BY <1>1 DEF Queued, CallRecords, Owes
  <2> QED BY <2>1, <2>2, <2>3
<1> QED BY <1>1, <1>2

LEMMA ThrownType ==
    ASSUME TypeOK, NEW c \in Calls
    PROVE  Thrown(c) \in CallRecords /\ Telling(Thrown(c)) /\ ~Owes(Thrown(c))
BY DEF TypeOK, Thrown, Idle, Queued, CallRecords, Telling, Owes

\* The record c has after a step that changes no more than it.
Becomes(c, f) ==
    /\ f \in CallRecords /\ Telling(f)
    /\ Owes(f) => Owes(call[c])
    /\ Only(c, f)

CallActions(c) ==
    \/ LaunchFails(c)
    \/ \E held \in BOOLEAN : Launch(c, held)
    \/ \E code \in {"exit0", "failed"} : ChildExits(c, code)
    \/ GrandchildEnds(c)
    \/ timeoutWorkItem(c)
    \/ Wait(c)
    \/ CreditAnswered(c)

LEMMA ReapedBecomes ==
    ASSUME TypeOK, TellingInv, NEW c \in Calls, Reaped(c)
    PROVE  \E f : Becomes(c, f)
<1> DEFINE g == [call[c] EXCEPT !.at = "answered", !.ok = TRUE, !.age = 0, !.grace = 0]
<1>1. call[c] \in CallRecords /\ Telling(call[c])
  BY DEF TypeOK, TellingInv
<1>2. CASE Success(call[c])
  <2>1. g \in CallRecords /\ Telling(g) /\ ~Owes(g)
    BY <1>1, <1>2 DEF Success, CallRecords, Telling, Owes
  <2>2. Only(c, g)
    BY <1>2 DEF Reaped
  <2> QED BY <2>1, <2>2 DEF Becomes
<1>3. CASE ~Success(call[c])
  <2>1. Only(c, Thrown(c))
    BY <1>3 DEF Reaped
  <2> QED BY <2>1, ThrownType DEF Becomes
<1> QED BY <1>2, <1>3

LEMMA CallBecomes ==
    ASSUME TypeOK, TellingInv, NEW c \in Calls, CallActions(c)
    PROVE  \E f : Becomes(c, f)
<1>0. call[c] \in CallRecords /\ Telling(call[c])
  BY DEF TypeOK, TellingInv
<1>1. CASE LaunchFails(c) \/ ReapGivesUp(c)
  BY <1>1, ThrownType DEF LaunchFails, ReapGivesUp, Becomes
<1>2. ASSUME NEW held \in BOOLEAN, Launch(c, held) PROVE \E f : Becomes(c, f)
  <2> DEFINE f == [call[c] EXCEPT !.at = "eof", !.held = held]
  <2>1. f \in CallRecords /\ Telling(f) /\ (Owes(f) => Owes(call[c]))
    BY <1>0, <1>2 DEF Launch, CallRecords, Telling, Owes
  <2> QED BY <1>2, <2>1 DEF Launch, Becomes
<1>3. ASSUME NEW code \in {"exit0", "failed"}, ChildExits(c, code)
      PROVE  \E f : Becomes(c, f)
  <2> DEFINE f == [call[c] EXCEPT !.child = code]
  <2>1. f \in CallRecords /\ Telling(f) /\ (Owes(f) => Owes(call[c]))
    BY <1>0, <1>3 DEF ChildExits, Alive, Waiting, Reaping, CallRecords, Telling, Owes
  <2> QED BY <1>3, <2>1 DEF ChildExits, Becomes
<1>4. CASE GrandchildEnds(c)
  <2> DEFINE f == [call[c] EXCEPT !.held = FALSE]
  <2>1. f \in CallRecords /\ Telling(f) /\ (Owes(f) => Owes(call[c]))
    BY <1>0 DEF CallRecords, Telling, Owes
  <2> QED BY <1>4, <2>1 DEF GrandchildEnds, Becomes
<1>5. CASE timeoutWorkItem(c)
  <2> DEFINE f == [call[c] EXCEPT !.timedOut = TRUE, !.cut = @ \/ call[c].child = "run"]
  <2>1. f \in CallRecords /\ Telling(f) /\ (Owes(f) => Owes(call[c]))
    BY <1>0, <1>5 DEF timeoutWorkItem, Waiting, Reaping, CallRecords, Telling, Owes
  <2> QED BY <1>5, <2>1 DEF timeoutWorkItem, Becomes
<1>6. CASE PipesClose(c)
  <2> DEFINE f == [call[c] EXCEPT !.at = "reap", !.closed = TRUE]
  <2>1. f \in CallRecords /\ Telling(f) /\ (Owes(f) => Owes(call[c]))
    BY <1>0, <1>6 DEF PipesClose, CallRecords, Telling, Owes
  <2> QED BY <1>6, <2>1 DEF PipesClose, Becomes
<1>7. CASE PipesDeadline(c)
  <2> DEFINE f == [call[c] EXCEPT !.at = "reap", !.held = FALSE]
  <2>1. f \in CallRecords /\ Telling(f) /\ (Owes(f) => Owes(call[c]))
    BY <1>0, <1>7 DEF PipesDeadline, CallRecords, Telling, Owes
  <2> QED BY <1>7, <2>1 DEF PipesDeadline, Becomes
<1>8. CASE ReapKill(c)
  <2> DEFINE f == [call[c] EXCEPT !.at = "kill", !.grace = 0, !.cut = @ \/ call[c].child = "run"]
  <2>1. f \in CallRecords /\ Telling(f) /\ (Owes(f) => Owes(call[c]))
    BY <1>0, <1>8 DEF ReapKill, CallRecords, Telling, Owes
  <2> QED BY <1>8, <2>1 DEF ReapKill, Becomes
<1>9. CASE CreditAnswered(c)
  BY <1>9, RecordTypes DEF CreditAnswered, Becomes
<1> QED BY <1>1, <1>2, <1>3, <1>4, <1>5, <1>6, <1>7, <1>8, <1>9, ReapedBecomes
        DEF CallActions, Wait

-----------------------------------------------------------------------------
(* Type correctness.                                                       *)

LEMMA TypeInit == Init => TypeOK
<1> SUFFICES ASSUME Init PROVE TypeOK
  OBVIOUS
<1>1. call \in [Calls -> CallRecords]
  BY RecordTypes DEF Init
<1>2. watchdog \in [on: BOOLEAN, gen: Nat, slept: Nat] /\ ~watchdog.on
  BY DEF Init
<1>3. isRefreshing \in BOOLEAN /\ pending \in BOOLEAN
  BY Zenon DEF Init
<1>4. ~isRefreshing
  BY Zenon DEF Init
<1>5. generation \in Nat /\ snapshot \in Int /\ requested \in Nat /\ spent \in Nat
  BY DEF Init
<1> QED BY <1>1, <1>2, <1>3, <1>4, <1>5 DEF TypeOK

LEMMA StartType ==
    ASSUME TypeOK, NEW c \in Calls, StartRefresh(c),
           UNCHANGED << snapshot, pending, requested, spent >>
    PROVE  TypeOK'
<1>1. Queued("usage", generation + 1) \in CallRecords
  BY RecordTypes DEF TypeOK
<1>2. call' \in [Calls -> CallRecords]
  BY <1>1 DEF TypeOK, StartRefresh
<1>3. watchdog' \in [on: BOOLEAN, gen: Nat, slept: Nat] /\ watchdog'.on /\ watchdog'.gen = generation'
  BY DEF TypeOK, StartRefresh
<1> QED BY <1>2, <1>3 DEF TypeOK, StartRefresh

LEMMA FinishType ==
    ASSUME TypeOK, NEW gen \in Nat, finishRefresh(gen)
    PROVE  /\ isRefreshing' \in BOOLEAN /\ generation' \in Nat /\ snapshot' \in Int
           /\ watchdog' \in [on: BOOLEAN, gen: Nat, slept: Nat]
           /\ (watchdog'.on <=> isRefreshing')
           /\ isRefreshing' => watchdog'.gen = generation'
<1>1. CASE isRefreshing /\ gen = generation
  <2>1. watchdog' \in [on: BOOLEAN, gen: Nat, slept: Nat] /\ ~watchdog'.on
    BY <1>1 DEF TypeOK, finishRefresh
  <2>2. ~isRefreshing' /\ generation' \in Nat /\ snapshot' \in Int
    BY <1>1 DEF TypeOK, finishRefresh
  <2> QED BY <2>1, <2>2, <1>1 DEF finishRefresh
<1>2. CASE ~(isRefreshing /\ gen = generation)
  BY <1>2 DEF TypeOK, finishRefresh, vmVars
<1> QED BY <1>1, <1>2

LEMMA TickCalls ==
    ASSUME TypeOK, TellingInv, Tick, NEW c \in Calls
    PROVE  /\ call'[c] \in CallRecords /\ Telling(call'[c])
           /\ Owes(call'[c]) <=> Owes(call[c])
<1>1. call[c] \in CallRecords /\ Telling(call[c])
  BY DEF TypeOK, TellingInv
<1>2. PICK a \in Nat, g \in Nat : call'[c] = [call[c] EXCEPT !.age = a, !.grace = g]
  <2> DEFINE a == IF Waiting(c) THEN Later(call[c].age, RefreshDeadline) ELSE call[c].age
             g == IF Reaping(c) THEN Later(call[c].grace, ExitGrace) ELSE call[c].grace
  <2>1. a \in Nat /\ g \in Nat
    BY <1>1 DEF CallRecords, Later
  <2>2. call'[c] = [call[c] EXCEPT !.age = a, !.grace = g]
    BY DEF Tick
  <2> HIDE DEF a, g
  <2> QED BY <2>1, <2>2
<1> QED BY <1>1, <1>2 DEF CallRecords, Telling, Owes

LEMMA TypeNext == TypeOK /\ TellingInv /\ [Next]_vars => TypeOK'
<1> SUFFICES ASSUME TypeOK, TellingInv, [Next]_vars PROVE TypeOK'
  OBVIOUS
<1>1. ASSUME NEW c \in Calls, CallActions(c) PROVE TypeOK'
  <2>1. PICK f : Becomes(c, f)
    BY <1>1, CallBecomes
  <2> QED BY <2>1 DEF Becomes, Only, TypeOK
<1>2. ASSUME NEW c \in Calls, CreditLands(c) PROVE TypeOK'
  <2>1. call' \in [Calls -> CallRecords]
    <3>1. [call[c] EXCEPT !.landed = TRUE] \in CallRecords
      BY DEF TypeOK, CallRecords
    <3> QED BY <1>2, <3>1 DEF CreditLands, TypeOK
  <2> QED BY <1>2, <2>1 DEF CreditLands, TypeOK
<1>3. ASSUME NEW c \in Calls, refresh(c) \/ RefreshAfterCredit(c) PROVE TypeOK'
  BY <1>3, StartType DEF refresh, RefreshAfterCredit
<1>4. ASSUME NEW c \in Calls, Answered(c) PROVE TypeOK'
  <2>1. call[c].gen \in Nat
    BY DEF TypeOK, CallRecords
  <2>2. call' \in [Calls -> CallRecords]
    BY <1>4, RecordTypes DEF Answered, TypeOK
  <2> QED BY <1>4, <2>1, <2>2, FinishType DEF Answered, TypeOK
<1>5. CASE WatchdogFires
  <2>1. watchdog.gen \in Nat
    BY DEF TypeOK
  <2> QED BY <1>5, <2>1, FinishType DEF WatchdogFires, TypeOK
<1>6. ASSUME NEW c \in Calls, confirmResetCredit(c) PROVE TypeOK'
  <2>1. call' \in [Calls -> CallRecords]
    BY <1>6, RecordTypes DEF confirmResetCredit, TypeOK
  <2> QED BY <1>6, <2>1 DEF confirmResetCredit, TypeOK
<1>7. CASE requestResetCredit \/ cancelResetCredit
  <2>1. pending' \in BOOLEAN
    BY <1>7, Zenon DEF requestResetCredit, cancelResetCredit
  <2>2. requested' \in Nat
    BY <1>7 DEF requestResetCredit, cancelResetCredit, TypeOK
  <2> QED BY <1>7, <2>1, <2>2 DEF requestResetCredit, cancelResetCredit, TypeOK
<1>8. CASE Tick
  <2>1. call' \in [Calls -> CallRecords]
    <3>1. \A c \in Calls : call'[c] \in CallRecords
      BY <1>8, TickCalls
    <3>2. call' = [c \in Calls |-> call'[c]]
      BY <1>8 DEF Tick
    <3> QED BY <3>1, <3>2
  <2>2. /\ watchdog' \in [on: BOOLEAN, gen: Nat, slept: Nat]
        /\ (watchdog'.on <=> watchdog.on) /\ watchdog'.gen = watchdog.gen
    <3> DEFINE s == IF watchdog.on THEN Later(watchdog.slept, RefreshDeadline) ELSE watchdog.slept
    <3>1. s \in Nat
      BY DEF TypeOK, Later
    <3>2. watchdog' = [watchdog EXCEPT !.slept = s]
      BY <1>8 DEF Tick
    <3> HIDE DEF s
    <3> QED BY <3>1, <3>2 DEF TypeOK
  <2> QED BY <1>8, <2>1, <2>2 DEF Tick, TypeOK
<1>9. CASE UNCHANGED vars
  BY <1>9 DEF vars, TypeOK
<1> QED BY <1>1, <1>2, <1>3, <1>4, <1>5, <1>6, <1>7, <1>8, <1>9
        DEF Next, Child, CallActions

-----------------------------------------------------------------------------
(* What the records tell.                                                  *)

LEMMA TellingNext == TypeOK /\ TellingInv /\ [Next]_vars => TellingInv'
<1> SUFFICES ASSUME TypeOK, TellingInv, [Next]_vars PROVE TellingInv'
  OBVIOUS
<1>0. ASSUME NEW c \in Calls, NEW f, Telling(f), call' = [call EXCEPT ![c] = f]
      PROVE  TellingInv'
  BY <1>0 DEF TypeOK, TellingInv
<1>1. ASSUME NEW c \in Calls, CallActions(c) PROVE TellingInv'
  <2>1. PICK f : Becomes(c, f)
    BY <1>1, CallBecomes
  <2> QED BY <1>0, <2>1 DEF Becomes, Only
<1>2. ASSUME NEW c \in Calls, CreditLands(c) PROVE TellingInv'
  <2> DEFINE f == [call[c] EXCEPT !.landed = TRUE]
  <2>1. Telling(f)
    BY DEF TypeOK, TellingInv, CallRecords, Telling
  <2>2. call' = [call EXCEPT ![c] = f]
    BY <1>2 DEF CreditLands
  <2> QED BY <1>0, <2>1, <2>2
<1>3. ASSUME NEW c \in Calls, refresh(c) \/ RefreshAfterCredit(c) PROVE TellingInv'
  <2>1. Telling(Queued("usage", generation + 1))
    BY RecordTypes DEF TypeOK
  <2> QED BY <1>0, <1>3, <2>1 DEF refresh, RefreshAfterCredit, StartRefresh
<1>4. ASSUME NEW c \in Calls, Answered(c) PROVE TellingInv'
  BY <1>0, <1>4, RecordTypes DEF Answered
<1>5. ASSUME NEW c \in Calls, confirmResetCredit(c) PROVE TellingInv'
  BY <1>0, <1>5, RecordTypes DEF confirmResetCredit
<1>6. CASE Tick
  BY <1>6, TickCalls DEF TellingInv
<1>7. CASE WatchdogFires \/ requestResetCredit \/ cancelResetCredit \/ UNCHANGED vars
  <2>1. UNCHANGED call
    BY <1>7 DEF WatchdogFires, requestResetCredit, cancelResetCredit, vars
  <2> QED BY <2>1 DEF TellingInv
<1> QED BY <1>1, <1>2, <1>3, <1>4, <1>5, <1>6, <1>7 DEF Next, Child, CallActions

\* Output that is believed comes from a child that ended well by itself and
\* whose pipes were read to their end, whatever the timers, signals and
\* grandchildren of runProcess did.
THEOREM BelievedOutputIsWhole == Spec => []OutputIsWhole
<1>1. Init => TellingInv
  BY RecordTypes DEF Init, TellingInv
<1>2. TellingInv => OutputIsWhole
  BY DEF TellingInv, Telling, OutputIsWhole
<1> QED BY <1>1, <1>2, TypeInit, TypeNext, TellingNext, PTL DEF Spec

\* Every variable keeps its type, and the watchdog is set exactly while the
\* refresh it was set for runs.
THEOREM TypeCorrect == Spec => []TypeOK
<1>1. Init => TellingInv
  BY RecordTypes DEF Init, TellingInv
<1> QED BY <1>1, TypeInit, TypeNext, TellingNext, PTL DEF Spec

-----------------------------------------------------------------------------
(* One credit per click.                                                   *)

LEMMA OwedFinite == IsFiniteSet(Owed) /\ Cardinality(Owed) \in Nat
BY CallsAssumption, FS_Subset, FS_CardinalityType DEF Owed

LEMMA OwedAfter ==
    ASSUME TypeOK, NEW c \in Calls, NEW f, call' = [call EXCEPT ![c] = f]
    PROVE  /\ Owes(f) => Owed' = Owed \cup {c}
           /\ ~Owes(f) => Owed' = Owed \ {c}
<1>1. \A d \in Calls : call'[d] = IF d = c THEN f ELSE call[d]
  BY DEF TypeOK
<1> QED BY <1>1 DEF Owed

\* A step that gives no call a new credit to spend, and no click one less.
LEMMA CreditKept ==
    ASSUME TypeOK, CreditInv, IsFiniteSet(Owed'), Cardinality(Owed') \in Nat,
           Cardinality(Owed') <= Cardinality(Owed), UNCHANGED << pending, requested, spent >>
    PROVE  CreditInv'
<1>1. Asked' = Asked /\ Asked \in Nat
  BY DEF Asked
<1> QED BY <1>1, OwedFinite DEF CreditInv, TypeOK

LEMMA CreditCall ==
    ASSUME TypeOK, CreditInv, NEW c \in Calls, NEW f, call' = [call EXCEPT ![c] = f],
           Owes(f) => Owes(call[c]), UNCHANGED << pending, requested, spent >>
    PROVE  CreditInv'
<1>1. CASE Owes(f)
  <2>1. Owed' = Owed
    BY <1>1, OwedAfter DEF Owed
  <2> QED BY <2>1, OwedFinite, CreditKept
<1>2. CASE ~Owes(f)
  <2>1. Owed' = Owed \ {c}
    BY <1>2, OwedAfter
  <2>2. Cardinality(Owed') <= Cardinality(Owed) /\ IsFiniteSet(Owed') /\ Cardinality(Owed') \in Nat
    <3>1. /\ IsFiniteSet(Owed')
          /\ Cardinality(Owed') = IF c \in Owed THEN Cardinality(Owed) - 1 ELSE Cardinality(Owed)
      BY <2>1, OwedFinite, FS_RemoveElement
    <3>2. Cardinality(Owed') \in Nat
      BY <3>1, FS_CardinalityType
    <3> QED BY <3>1, <3>2, OwedFinite
  <2> QED BY <2>2, CreditKept
<1> QED BY <1>1, <1>2

LEMMA CreditNext == TypeOK /\ TellingInv /\ CreditInv /\ [Next]_vars => CreditInv'
<1> SUFFICES ASSUME TypeOK, TellingInv, CreditInv, [Next]_vars PROVE CreditInv'
  OBVIOUS
<1>1. ASSUME NEW c \in Calls, CallActions(c) PROVE CreditInv'
  <2>1. PICK f : Becomes(c, f)
    BY <1>1, CallBecomes
  <2> QED BY <2>1, CreditCall DEF Becomes, Only
<1>2. ASSUME NEW c \in Calls, CreditLands(c) PROVE CreditInv'
  <2> DEFINE f == [call[c] EXCEPT !.landed = TRUE]
  <2>1. call' = [call EXCEPT ![c] = f] /\ Owes(call[c]) /\ ~Owes(f)
    BY <1>2 DEF CreditLands, Alive, Waiting, Reaping, Owes, TypeOK, CallRecords
  <2>2. Owed' = Owed \ {c} /\ c \in Owed
    BY <2>1, OwedAfter DEF Owed
  <2>3. Cardinality(Owed') = Cardinality(Owed) - 1
    BY <2>2, OwedFinite, FS_RemoveElement
  <2>4. Asked' = Asked /\ Asked \in Nat
    BY <1>2 DEF CreditLands, Asked
  <2> QED BY <1>2, <2>3, <2>4, OwedFinite DEF CreditLands, CreditInv, TypeOK
<1>3. ASSUME NEW c \in Calls, refresh(c) \/ RefreshAfterCredit(c) PROVE CreditInv'
  <2>1. ~Owes(Queued("usage", generation + 1))
    BY RecordTypes DEF TypeOK
  <2> QED BY <1>3, <2>1, CreditCall DEF refresh, RefreshAfterCredit, StartRefresh
<1>4. ASSUME NEW c \in Calls, Answered(c) PROVE CreditInv'
  BY <1>4, RecordTypes, CreditCall DEF Answered
<1>5. ASSUME NEW c \in Calls, confirmResetCredit(c) PROVE CreditInv'
  <2>1. Owes(Queued("credit", 0)) /\ Asked = 1 /\ Asked' = 0
    BY <1>5, RecordTypes DEF confirmResetCredit, Asked
  <2>2. Owed' = Owed \cup {c}
    BY <1>5, <2>1, OwedAfter DEF confirmResetCredit
  <2>3. Cardinality(Owed') \in Nat /\ Cardinality(Owed') <= Cardinality(Owed) + 1
    BY <2>2, OwedFinite, FS_AddElement
  <2> QED BY <1>5, <2>1, <2>3, OwedFinite DEF confirmResetCredit, CreditInv, TypeOK
<1>6. CASE requestResetCredit
  <2>1. UNCHANGED << call, spent >> /\ requested' = requested + 1 /\ Asked = 0 /\ Asked' = 1
    BY <1>6 DEF requestResetCredit, Asked
  <2>2. Owed' = Owed
    BY <2>1 DEF Owed
  <2> QED BY <2>1, <2>2, OwedFinite DEF CreditInv, TypeOK
<1>7. CASE cancelResetCredit
  <2>1. UNCHANGED << call, spent, requested >> /\ Asked = 1 /\ Asked' = 0
    BY <1>7 DEF cancelResetCredit, Asked
  <2>2. Owed' = Owed
    BY <2>1 DEF Owed
  <2> QED BY <2>1, <2>2, OwedFinite DEF CreditInv, TypeOK
<1>8. CASE Tick
  <2>1. Owed' = Owed
    BY <1>8, TickCalls DEF Owed
  <2>2. UNCHANGED << pending, requested, spent >>
    BY <1>8, Zenon DEF Tick
  <2> QED BY <2>1, <2>2, OwedFinite, CreditKept
<1>9. CASE WatchdogFires \/ UNCHANGED vars
  <2>1. UNCHANGED << call, pending, requested, spent >>
    BY <1>9, Zenon DEF WatchdogFires, vars
  <2>2. Owed' = Owed
    BY <2>1 DEF Owed
  <2> QED BY <2>1, <2>2, OwedFinite, CreditKept
<1> QED BY <1>1, <1>2, <1>3, <1>4, <1>5, <1>6, <1>7, <1>8, <1>9
        DEF Next, Child, CallActions

LEMMA CreditInit == Init => TellingInv /\ CreditInv
<1> SUFFICES ASSUME Init PROVE TellingInv /\ CreditInv
  OBVIOUS
<1>1. TellingInv /\ Owed = {} /\ Asked = 0
  BY RecordTypes DEF Init, TellingInv, Owed, Asked
<1>2. Cardinality(Owed) = 0
  BY <1>1, FS_EmptySet
<1> QED BY <1>1, <1>2 DEF Init, CreditInv

\* Whatever fails between the alert, the process and the provider, no more
\* credits are spent than were asked for.
THEOREM CreditsArePaidFor == Spec => []SpentOncePerRequest
<1>1. TypeOK /\ CreditInv => SpentOncePerRequest
  <2> SUFFICES ASSUME TypeOK, CreditInv PROVE SpentOncePerRequest
    OBVIOUS
  <2>1. Asked \in Nat
    BY DEF Asked
  <2> QED BY <2>1, OwedFinite DEF TypeOK, CreditInv, SpentOncePerRequest
<1> QED BY <1>1, CreditInit, TypeInit, TypeNext, TellingNext, CreditNext, PTL DEF Spec

-----------------------------------------------------------------------------
(* The refresh as the popover promises it.                                 *)

LEMMA AnswersStart ==
    ASSUME TypeOK, NEW c \in Calls, StartRefresh(c), ~isRefreshing, UNCHANGED snapshot
    PROVE  Answers!Start
BY DEF TypeOK, StartRefresh, Answers!Start

LEMMA AnswersFinish ==
    ASSUME TypeOK, NEW gen \in Nat, finishRefresh(gen)
    PROVE  [Answers!Next]_Answers!vars
<1>1. CASE isRefreshing /\ gen = generation
  <2>1. Answers!Answer
    BY <1>1 DEF TypeOK, finishRefresh, Answers!Answer
  <2> QED BY <2>1 DEF Answers!Next
<1>2. CASE ~(isRefreshing /\ gen = generation)
  BY <1>2 DEF finishRefresh, vmVars, Answers!vars
<1> QED BY <1>1, <1>2

LEMMA AnswersStep == TypeOK /\ TellingInv /\ [Next]_vars => [Answers!Next]_Answers!vars
<1> SUFFICES ASSUME TypeOK, TellingInv, [Next]_vars PROVE [Answers!Next]_Answers!vars
  OBVIOUS
<1>1. ASSUME NEW c \in Calls, refresh(c) \/ RefreshAfterCredit(c) PROVE Answers!Next
  BY <1>1, AnswersStart DEF refresh, RefreshAfterCredit, Answers!Next
<1>2. ASSUME NEW c \in Calls, Answered(c) PROVE [Answers!Next]_Answers!vars
  <2>1. call[c].gen \in Nat
    BY DEF TypeOK, CallRecords
  <2> QED BY <1>2, <2>1, AnswersFinish DEF Answered
<1>3. CASE WatchdogFires
  <2>1. watchdog.gen \in Nat
    BY DEF TypeOK
  <2> QED BY <1>3, <2>1, AnswersFinish DEF WatchdogFires
<1>4. CASE UNCHANGED << isRefreshing, generation, snapshot >>
  BY <1>4 DEF Answers!vars
<1>5. ASSUME NEW c \in Calls, CallActions(c) PROVE UNCHANGED << isRefreshing, generation, snapshot >>
  <2>1. PICK f : Becomes(c, f)
    BY <1>5, CallBecomes
  <2> QED BY <2>1 DEF Becomes, Only
<1>6. ASSUME NEW c \in Calls, CreditLands(c) \/ confirmResetCredit(c)
      PROVE  UNCHANGED << isRefreshing, generation, snapshot >>
  BY <1>6 DEF CreditLands, confirmResetCredit
<1>7. CASE Tick \/ requestResetCredit \/ cancelResetCredit \/ UNCHANGED vars
  BY <1>4, <1>7 DEF Tick, requestResetCredit, cancelResetCredit, vars
<1> QED BY <1>1, <1>2, <1>3, <1>4, <1>5, <1>6, <1>7 DEF Next, Child, CallActions

\* The popover refreshes one at a time and shows the answer of the last refresh
\* that ended: with its watchdog and its late answers it refines UsageAnswers.
THEOREM RefreshesAnswered == Spec => RefreshesAreAnswered
<1>1. Init => Answers!Init
  <2> SUFFICES ASSUME Init PROVE Answers!Init
    OBVIOUS
  <2>1. isRefreshing = FALSE /\ ~isRefreshing
    BY Zenon DEF Init
  <2>2. generation - 1 = -1 /\ snapshot = -1
    BY DEF Init
  <2> QED BY <2>1, <2>2, Zenon DEF Answers!Init
<1> QED BY <1>1, AnswersStep, TypeInit, TypeNext, CreditInit, TellingNext, PTL
        DEF Spec, RefreshesAreAnswered, Answers!Spec
=============================================================================
