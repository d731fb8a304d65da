----------------------- MODULE AntigravityUsageProofs -----------------------
(***************************************************************************)
(* Proofs about AntigravityUsage, for any processes, durations and bounds. *)
(* The inductive invariant says that a process past the lock holds it, so  *)
(* that the cache and what happened last speak of the same run of `agy`.   *)
(***************************************************************************)
EXTENDS AntigravityUsage, FiniteSetTheorems, TLAPS

Inside(p) == pc[p] \in {"hold", "agy"}

\* A process past the lock holds it, and only such a process waits for `agy`;
\* the others running were each left by a kill.
LockInv ==
    /\ \A p \in Proc : Inside(p) => lock = p
    /\ agy = {p \in Proc : pc[p] = "agy"}
    /\ left <= killed

\* The time taken under the lock is a time, and the latest run is the one going on.
TimeInv ==
    /\ clock >= 1
    /\ \A p \in Proc : Inside(p) => now[p] >= 1
    /\ \A p \in Proc : pc[p] = "agy" => last.at = now[p]

\* Numbers in the cache have a date.
DateInv ==
    /\ ServedNumbersAreDated
    /\ cache.buckets # None => cache.fetchedAt # 0

\* What a run left in the cache is there until the next one ends.
LastInv ==
    /\ last.end = "good" => cache.fetchedAt = last.at /\ last.at # 0
    /\ last.end = "auth" => cache.backoff = last.at + AuthBackoff

IInv == TypeOK /\ LockInv /\ TimeInv /\ DateInv /\ LastInv

-----------------------------------------------------------------------------
(* The cache file.                                                         *)

\* An entry read out of the cache or made for it is one.
LEMMA EntryTypes ==
    /\ NoEntry \in Entry
    /\ \A e \in Entry : e.fetchedAt \in Nat /\ e.backoff \in Nat /\ e.buckets \in Nat
    /\ \A a, b, c \in Nat : [fetchedAt |-> a, backoff |-> b, buckets |-> c] \in Entry
  BY DEF Entry, NoEntry, None

\* A recorded login failure keeps the numbers, and their date when there is one.
LEMMA MarkedEntry ==
    ASSUME NEW e \in Entry, NEW t \in Nat
    PROVE  /\ Marked(e, t) \in Entry
           /\ Marked(e, t).backoff = t + AuthBackoff
           /\ Marked(e, t).buckets = e.buckets
           /\ e.fetchedAt # 0 => Marked(e, t).fetchedAt = e.fetchedAt
<1>1. e.fetchedAt \in Nat /\ e.buckets \in Nat /\ t + AuthBackoff \in Nat
  BY EntryTypes, DurationAssumption
<1>2. ASSUME NEW b \in Nat, NEW d \in Nat
      PROVE  LET m == [e EXCEPT !.backoff = b, !.fetchedAt = d]
             IN  m \in Entry /\ m.backoff = b /\ m.buckets = e.buckets /\ m.fetchedAt = d
  BY <1>2 DEF Entry
<1>3. Marked(e, t) = [e EXCEPT !.backoff = t + AuthBackoff,
                              !.fetchedAt = IF e.fetchedAt = 0 THEN t ELSE e.fetchedAt]
  BY DEF Marked, Entry
<1>4. (IF e.fetchedAt = 0 THEN t ELSE e.fetchedAt) \in Nat
  BY <1>1
<1> DEFINE b == t + AuthBackoff
           d == IF e.fetchedAt = 0 THEN t ELSE e.fetchedAt
           m == [e EXCEPT !.backoff = b, !.fetchedAt = d]
<1>5. m \in Entry /\ m.backoff = b /\ m.buckets = e.buckets /\ m.fetchedAt = d
  <2> b \in Nat /\ d \in Nat
    BY <1>1, <1>4
  <2> HIDE DEF b, d
  <2> QED
    BY <1>2
<1>6. Marked(e, t) = m
  BY <1>3
<1>7. e.fetchedAt # 0 => d = e.fetchedAt
  OBVIOUS
<1> HIDE DEF m, d
<1> QED
  BY <1>5, <1>6, <1>7

-----------------------------------------------------------------------------
LEMMA InitInv == Init => IInv
<1> SUFFICES ASSUME Init PROVE IInv
  OBVIOUS
<1>1. TypeOK
  BY EntryTypes DEF Init, TypeOK, NoRow, NoEntry, None, Entry
<1>2. LockInv /\ TimeInv
  BY DEF Init, LockInv, TimeInv, Inside
<1>3. DateInv /\ LastInv
  BY DEF Init, DateInv, LastInv, ServedNumbersAreDated, NoEntry, NoRow, None
<1> QED
  BY <1>1, <1>2, <1>3 DEF IInv

\* Every variable stays in its range.
LEMMA TypeNext == TypeOK /\ [Next]_vars => TypeOK'
<1> SUFFICES ASSUME TypeOK, [Next]_vars PROVE TypeOK'
  OBVIOUS
<1> USE DEF TypeOK
<1>1. CASE Tick \/ LeftAgyEnds
  BY <1>1 DEF Tick, LeftAgyEnds
<1>2. ASSUME NEW p \in Proc, Fetch(p) \/ TakeLock(p) \/ RunAgy(p) PROVE TypeOK'
  BY <1>2 DEF Fetch, TakeLock, RunAgy, Goto
<1>3. ASSUME NEW p \in Proc, LockUnavailable(p) \/ Hold(p) PROVE TypeOK'
  BY <1>3, EntryTypes DEF LockUnavailable, Hold, ServeCached, Return, Goto
<1>4. ASSUME NEW p \in Proc, GoodRun(p) PROVE TypeOK'
  BY <1>4, EntryTypes DEF GoodRun, AgyEnds, Return, Goto
<1>5. ASSUME NEW p \in Proc, AuthFailure(p) PROVE TypeOK'
  <2>1. Marked(cache, now[p]) \in Entry
    BY MarkedEntry
  <2> HIDE DEF TypeOK
  <2>2. TypeOK /\ cache' \in Entry
    BY <1>5, <2>1 DEF AuthFailure, TypeOK
  <2> QED
    BY <1>5, <2>2, EntryTypes DEF TypeOK, AuthFailure, AgyEnds, Return, Goto
<1>6. ASSUME NEW p \in Proc, UselessRun(p) PROVE TypeOK'
  BY <1>6, EntryTypes DEF UselessRun, AgyEnds, Return, Goto
<1>7. ASSUME NEW p \in Proc, Killed(p) PROVE TypeOK'
  BY <1>7 DEF Killed, Goto
<1>8. CASE UNCHANGED vars
  BY <1>8 DEF vars
<1> QED
  BY <1>1, <1>2, <1>3, <1>4, <1>5, <1>6, <1>7, <1>8 DEF Next

\* A process inside keeps the lock until it leaves.
LEMMA LockNext == TypeOK /\ LockInv /\ [Next]_vars => LockInv'
<1> SUFFICES ASSUME TypeOK, LockInv, [Next]_vars PROVE LockInv'
  OBVIOUS
<1> USE ProcAssumption DEF TypeOK, LockInv, Inside
<1>1. CASE Tick \/ LeftAgyEnds
  BY <1>1 DEF Tick, LeftAgyEnds
<1>2. ASSUME NEW p \in Proc, Fetch(p) \/ TakeLock(p) \/ RunAgy(p) PROVE LockInv'
  BY <1>2 DEF Fetch, TakeLock, RunAgy, Goto
<1>3. ASSUME NEW p \in Proc, LockUnavailable(p) \/ Hold(p) PROVE LockInv'
  BY <1>3 DEF LockUnavailable, Hold, ServeCached, Return, Goto
<1>4. ASSUME NEW p \in Proc, GoodRun(p) \/ AuthFailure(p) \/ UselessRun(p) PROVE LockInv'
  BY <1>4 DEF GoodRun, AuthFailure, UselessRun, AgyEnds, Return, Goto
<1>5. ASSUME NEW p \in Proc, Killed(p) PROVE LockInv'
  BY <1>5 DEF Killed, Goto
<1>6. CASE UNCHANGED vars
  BY <1>6 DEF vars
<1> QED
  BY <1>1, <1>2, <1>3, <1>4, <1>5, <1>6 DEF Next

LEMMA TimeNext == TypeOK /\ LockInv /\ TimeInv /\ [Next]_vars => TimeInv'
<1> SUFFICES ASSUME TypeOK, LockInv, TimeInv, [Next]_vars PROVE TimeInv'
  OBVIOUS
<1> USE DEF TypeOK, LockInv, TimeInv, Inside
<1>1. CASE Tick \/ LeftAgyEnds
  BY <1>1 DEF Tick, LeftAgyEnds
<1>2. ASSUME NEW p \in Proc, Fetch(p) \/ TakeLock(p) \/ RunAgy(p) PROVE TimeInv'
  BY <1>2 DEF Fetch, TakeLock, RunAgy, Goto
<1>3. ASSUME NEW p \in Proc, LockUnavailable(p) \/ Hold(p) PROVE TimeInv'
  BY <1>3 DEF LockUnavailable, Hold, ServeCached, Return, Goto
<1>4. ASSUME NEW p \in Proc, GoodRun(p) \/ AuthFailure(p) \/ UselessRun(p) PROVE TimeInv'
  BY <1>4 DEF GoodRun, AuthFailure, UselessRun, AgyEnds, Return, Goto
<1>5. ASSUME NEW p \in Proc, Killed(p) PROVE TimeInv'
  BY <1>5 DEF Killed, Goto
<1>6. CASE UNCHANGED vars
  BY <1>6 DEF vars
<1> QED
  BY <1>1, <1>2, <1>3, <1>4, <1>5, <1>6 DEF Next

LEMMA DateNext == TypeOK /\ TimeInv /\ DateInv /\ [Next]_vars => DateInv'
<1> SUFFICES ASSUME TypeOK, TimeInv, DateInv, [Next]_vars PROVE DateInv'
  OBVIOUS
<1> USE DEF DateInv, ServedNumbersAreDated
<1>1. CASE Tick \/ LeftAgyEnds
  BY <1>1 DEF Tick, LeftAgyEnds
<1>2. ASSUME NEW p \in Proc, Fetch(p) \/ TakeLock(p) \/ RunAgy(p) PROVE DateInv'
  BY <1>2 DEF Fetch, TakeLock, RunAgy
<1>3. ASSUME NEW p \in Proc, LockUnavailable(p) \/ Hold(p) PROVE DateInv'
  BY <1>3 DEF LockUnavailable, Hold, ServeCached, Servable, Return
<1>4. ASSUME NEW p \in Proc, GoodRun(p) PROVE DateInv'
  BY <1>4 DEF GoodRun, AgyEnds, Return, TypeOK, TimeInv, Inside, None
<1>5. ASSUME NEW p \in Proc, AuthFailure(p) PROVE DateInv'
  <2>1. now[p] \in Nat /\ cache \in Entry
    BY DEF TypeOK
  <2> QED
    BY <1>5, <2>1, MarkedEntry DEF AuthFailure, AgyEnds, Return
<1>6. ASSUME NEW p \in Proc, UselessRun(p) PROVE DateInv'
  BY <1>6 DEF UselessRun, AgyEnds, Return
<1>7. ASSUME NEW p \in Proc, Killed(p) PROVE DateInv'
  BY <1>7 DEF Killed
<1>8. CASE UNCHANGED vars
  BY <1>8 DEF vars
<1> QED
  BY <1>1, <1>2, <1>3, <1>4, <1>5, <1>6, <1>7, <1>8 DEF Next

LEMMA LastNext == TypeOK /\ TimeInv /\ LastInv /\ [Next]_vars => LastInv'
<1> SUFFICES ASSUME TypeOK, TimeInv, LastInv, [Next]_vars PROVE LastInv'
  OBVIOUS
<1> USE DEF LastInv
<1>1. CASE Tick \/ LeftAgyEnds
  BY <1>1 DEF Tick, LeftAgyEnds
<1>2. ASSUME NEW p \in Proc, Fetch(p) \/ TakeLock(p) \/ RunAgy(p) PROVE LastInv'
  BY <1>2 DEF Fetch, TakeLock, RunAgy
<1>3. ASSUME NEW p \in Proc, LockUnavailable(p) \/ Hold(p) PROVE LastInv'
  BY <1>3 DEF LockUnavailable, Hold
<1>4. ASSUME NEW p \in Proc, GoodRun(p) PROVE LastInv'
  BY <1>4 DEF GoodRun, AgyEnds, TypeOK, TimeInv, Inside
<1>5. ASSUME NEW p \in Proc, AuthFailure(p) PROVE LastInv'
  <2>1. last.at = now[p]
    BY <1>5 DEF AuthFailure, AgyEnds, TimeInv
  <2>2. CASE last'.end = "auth"
    <3>1. cache' = Marked(cache, now[p]) /\ last'.at = last.at
      BY <1>5, <2>2 DEF AuthFailure, AgyEnds, TypeOK
    <3>2. cache'.backoff = now[p] + AuthBackoff
      BY <3>1, MarkedEntry DEF TypeOK
    <3> QED
      BY <2>1, <2>2, <3>1, <3>2
  <2>3. last'.end \in {"auth", "unwritten"}
    BY <1>5 DEF AuthFailure, AgyEnds, TypeOK
  <2> QED
    BY <2>2, <2>3
<1>6. ASSUME NEW p \in Proc, UselessRun(p) PROVE LastInv'
  BY <1>6 DEF UselessRun, AgyEnds, TypeOK
<1>7. ASSUME NEW p \in Proc, Killed(p) PROVE LastInv'
  BY <1>7 DEF Killed, TypeOK
<1>8. CASE UNCHANGED vars
  BY <1>8 DEF vars
<1> QED
  BY <1>1, <1>2, <1>3, <1>4, <1>5, <1>6, <1>7, <1>8 DEF Next

LEMMA Invariance == Spec => []IInv
<1>1. IInv /\ [Next]_vars => IInv'
  BY TypeNext, LockNext, TimeNext, DateNext, LastNext DEF IInv
<1> QED
  BY InitInv, <1>1, PTL DEF Spec

-----------------------------------------------------------------------------
\* Every variable stays in its range.
THEOREM TypeCorrect == Spec => []TypeOK
<1>1. IInv => TypeOK
  BY DEF IInv
<1> QED
  BY Invariance, <1>1, PTL

\* At most one `agy` runs for every process killed during its run, and one more
\* (the lock of gemini.go:65, held until the run has ended or its process has).
THEOREM OneAgy == Spec => []OneAgyAtATime
<1>1. IInv => OneAgyAtATime
  <2> SUFFICES ASSUME IInv PROVE Cardinality(agy) + left <= 1 + killed
    BY DEF OneAgyAtATime, Running
  <2>1. agy \subseteq {lock}
    BY DEF IInv, LockInv, Inside
  <2>2. IsFiniteSet({lock}) /\ Cardinality({lock}) = 1
    BY FS_Singleton
  <2>3. IsFiniteSet(agy) /\ Cardinality(agy) <= 1
    BY <2>1, <2>2, FS_Subset
  <2>4. Cardinality(agy) \in Nat
    BY <2>3, FS_CardinalityType
  <2>5. left <= killed /\ left \in Nat /\ killed \in Nat
    BY DEF IInv, LockInv, TypeOK
  <2> QED
    BY <2>3, <2>4, <2>5
<1> QED
  BY Invariance, <1>1, PTL

\* Cached numbers keep the date of the run that printed them, whatever login
\* failures were recorded over them (antigravity_cache.go:158-166).
THEOREM NumbersDated == Spec => []ServedNumbersAreDated
<1>1. IInv => ServedNumbersAreDated
  BY DEF IInv, DateInv
<1> QED
  BY Invariance, <1>1, PTL

\* Only RunAgy begins a run.
LEMMA StartsByRunAgy ==
    ASSUME TypeOK, [Next]_vars, Starts
    PROVE  \E p \in Proc : RunAgy(p)
<1>1. CASE Tick \/ LeftAgyEnds \/ UNCHANGED vars
  BY <1>1 DEF Tick, LeftAgyEnds, vars, Starts
<1>2. ASSUME NEW p \in Proc,
             Fetch(p) \/ TakeLock(p) \/ LockUnavailable(p) \/ Hold(p) PROVE FALSE
  BY <1>2 DEF Fetch, TakeLock, LockUnavailable, Hold, Starts
<1>3. ASSUME NEW p \in Proc, GoodRun(p) \/ AuthFailure(p) \/ UselessRun(p) PROVE FALSE
  BY <1>3 DEF GoodRun, AuthFailure, UselessRun, AgyEnds, Starts, TypeOK
<1>4. ASSUME NEW p \in Proc, Killed(p) PROVE FALSE
  BY <1>4 DEF Killed, Starts, TypeOK
<1> QED
  BY <1>1, <1>2, <1>3, <1>4 DEF Next

\* A run after one that gave numbers starts a full interval later
\* (antigravityFetchHold, antigravity_cache.go:103-119).
THEOREM RunsSpaced == Spec => RunsAreSpaced
<1>1. IInv /\ [Next]_vars =>
        [Starts /\ last.end = "good" => last'.at - last.at >= MinInterval]_vars
  <2> SUFFICES ASSUME IInv, [Next]_vars, Starts, last.end = "good"
               PROVE  last'.at - last.at >= MinInterval
    OBVIOUS
  <2>1. PICK p \in Proc : RunAgy(p)
    BY StartsByRunAgy DEF IInv
  <2>2. cache.fetchedAt = last.at /\ last.at # 0 /\ last.at \in Nat /\ now[p] \in Nat
    BY DEF IInv, LastInv, TypeOK
  <2>3. ~(now[p] - last.at < MinInterval) /\ last'.at = now[p]
    BY <2>1, <2>2 DEF RunAgy, OnHold
  <2> QED
    BY <2>2, <2>3, DurationAssumption
<1> QED
  BY Invariance, <1>1, PTL DEF Spec, RunsAreSpaced

\* After a failed login `agy` is left alone until the pause is over
\* (markAntigravityAuthFailure and antigravityFetchHold).
THEOREM PauseKept == Spec => AuthPauseIsKept
<1>1. IInv /\ [Next]_vars =>
        [Starts /\ last.end = "auth" => clock - last.at >= AuthBackoff]_vars
  <2> SUFFICES ASSUME IInv, [Next]_vars, Starts, last.end = "auth"
               PROVE  clock - last.at >= AuthBackoff
    OBVIOUS
  <2>1. PICK p \in Proc : RunAgy(p)
    BY StartsByRunAgy DEF IInv
  <2>2. cache.backoff = last.at + AuthBackoff /\ last.at \in Nat /\ clock \in Nat
    BY DEF IInv, LastInv, TypeOK
  <2>3. ~(last.at + AuthBackoff > clock)
    BY <2>1, <2>2 DEF RunAgy, OnHold
  <2> QED
    BY <2>2, <2>3, DurationAssumption
<1> QED
  BY Invariance, <1>1, PTL DEF Spec, AuthPauseIsKept
=============================================================================
