-------------------------- MODULE ClaudeUsageProofs --------------------------
(***************************************************************************)
(* Proofs about ClaudeUsage, for any processes, durations and bounds.  The *)
(* inductive invariant says that every copy of the cache a process still   *)
(* holds is dated like the file, and that the attempts a call still has    *)
(* left are counted before they are made.                                  *)
(***************************************************************************)
EXTENDS ClaudeUsage, TLAPS

\* Numbers of e, if it has any, were recorded at its date.
Dated(e) == e.buckets # None => << e.buckets, e.fetchedAt >> \in saved /\ e.fetchedAt # 0

\* The file, the copies read for recording a 429, and the row.
DateInv ==
    /\ clock >= 1
    /\ Dated(cache)
    /\ \A p \in Proc : pc[p] = "write" => Dated(answer[p].entry)
    /\ row.source = "cache" =>
          /\ << row.entry.buckets, row.entry.fetchedAt >> \in saved
          /\ row.at - row.entry.fetchedAt <= MaxAge

\* Answers came in the past, so that a backoff counted from one is bounded.
BackoffInv ==
    /\ BackoffIsBounded
    /\ \A p \in Proc : answer[p].at <= clock

\* The attempts the client may still make for p, which does not check again.
Left(p) == IF pc[p] \in {"request", "sent", "asleep"} THEN MaxRetries + 1 - call[p].tries ELSE 0

Silent(p) == sent[p] = 0 /\ Left(p) = 0

SentInv ==
    InBackoff(cache) =>
        /\ \A p \in Proc : sent[p] + Left(p) <= MaxRetries + 1
        /\ \E p \in Proc : Silent(p)

IInv == TypeOK /\ DateInv /\ BackoffInv /\ SentInv

-----------------------------------------------------------------------------
(* The cache file and the records.                                         *)

LEMMA EntryTypes ==
    /\ NoEntry \in Entry /\ NoEntry.buckets = None
    /\ \A e \in Entry : e.fetchedAt \in Nat /\ e.backoff \in Nat /\ e.buckets \in Nat
    /\ \A a, b, c \in Nat : [fetchedAt |-> a, backoff |-> b, buckets |-> c] \in Entry
  BY DEF Entry, NoEntry, None

Answers == [at : Nat, retry : Nat, entry : Entry]

LEMMA AnswerTypes ==
    /\ NoAnswer \in Answers /\ NoAnswer.at = 0
    /\ \A a \in Answers : a.at \in Nat /\ a.retry \in Nat /\ a.entry \in Entry
  BY EntryTypes DEF Answers, NoAnswer

Calls == [tries : 0..(MaxRetries + 1), wake : Nat]

LEMMA CallTypes ==
    /\ NoCall \in Calls /\ NoCall.tries = 0
    /\ \A c \in Calls : c.tries \in 0..(MaxRetries + 1) /\ c.wake \in Nat
  BY DurationAssumption DEF Calls, NoCall

\* However long the server asks to wait, the pause is a bounded number.
LEMMA BackoffBounded ==
    ASSUME NEW r \in Nat
    PROVE  Backoff(r) \in Nat /\ Backoff(r) <= BackoffMax
  BY DurationAssumption DEF Backoff

\* A recorded 429 keeps the numbers, and their date when there is one.
LEMMA MarkedEntry ==
    ASSUME TypeOK, NEW p \in Proc
    PROVE  /\ Marked(p) \in Entry
           /\ Marked(p).backoff = answer[p].at + Backoff(answer[p].retry)
           /\ Marked(p).buckets = answer[p].entry.buckets
           /\ answer[p].entry.fetchedAt # 0 => Marked(p).fetchedAt = answer[p].entry.fetchedAt
<1> DEFINE e == answer[p].entry
           b == answer[p].at + Backoff(answer[p].retry)
           d == IF e.fetchedAt = 0 THEN answer[p].at ELSE e.fetchedAt
           m == [e EXCEPT !.backoff = b, !.fetchedAt = d]
<1>1. answer[p] \in Answers
  BY DEF TypeOK, Answers
<1>2. e \in Entry /\ b \in Nat /\ d \in Nat
  BY <1>1, AnswerTypes, EntryTypes, BackoffBounded
<1>3. m \in Entry /\ m.backoff = b /\ m.buckets = e.buckets /\ m.fetchedAt = d
  <2> HIDE DEF e, b, d
  <2> QED
    BY <1>2 DEF Entry
<1>4. Marked(p) = m
  BY <1>2 DEF Marked, Entry
<1>5. e.fetchedAt # 0 => d = e.fetchedAt
  OBVIOUS
<1> HIDE DEF m, d
<1> QED
  BY <1>3, <1>4, <1>5

\* The row and the copy after a return.
LEMMA ReturnTypes ==
    ASSUME TypeOK, NEW p \in Proc, NEW status \in {"ok", "warn", "error"},
           NEW source \in {"oauth", "cli", "claude-cli", "cache", "claude.json", "oct"},
           NEW e \in Entry, Return(p, status, source, e)
    PROVE  /\ pc' = [pc EXCEPT ![p] = "idle"]
           /\ call' = [call EXCEPT ![p] = NoCall] /\ call' \in [Proc -> Calls]
           /\ answer' = [answer EXCEPT ![p] = NoAnswer]
           /\ answer' \in [Proc -> Answers]
           /\ bare' \in [Proc -> BOOLEAN]
           /\ row' \in [status : {"none", "ok", "warn", "error"},
                        source : {"none", "oauth", "cli", "claude-cli", "cache",
                                  "claude.json", "oct"},
                        entry : Entry, at : Nat]
           /\ row'.source = source /\ row'.entry = e /\ row'.at = clock
<1>1. answer \in [Proc -> Answers] /\ call \in [Proc -> Calls]
  BY DEF TypeOK, Answers, Calls
<1> QED
  BY <1>1, AnswerTypes, CallTypes DEF TypeOK, Return, Goto

-----------------------------------------------------------------------------
LEMMA InitInv == Init => IInv
<1> SUFFICES ASSUME Init PROVE IInv
  OBVIOUS
<1>1. TypeOK
  <2>1. answer \in [Proc -> Answers] /\ call \in [Proc -> Calls]
    BY AnswerTypes, CallTypes DEF Init
  <2> QED
    BY <2>1, EntryTypes DEF Init, TypeOK, Answers, Calls, NoRow
<1>2. DateInv
  BY EntryTypes DEF Init, DateInv, Dated, NoRow
<1>3. BackoffInv
  BY DurationAssumption, AnswerTypes DEF Init, BackoffInv, BackoffIsBounded, NoEntry
<1>4. SentInv
  BY DEF Init, SentInv, InBackoff, NoEntry
<1> QED
  BY <1>1, <1>2, <1>3, <1>4 DEF IInv

\* The steps that end a fetch, with the row each reports.
Returning(p) ==
    \/ NoToken(p) \/ Serve(p) \/ Canceled(p) \/ PoorAnswer(p) \/ SaveFails(p) \/ ServeOwn(p)
    \/ Abandon(p)

\* The steps that only move a fetch on.
Moving(p) ==
    \/ Fetch(p) \/ HoldBack(p) \/ Request(p) \/ Send(p) \/ Retry(p) \/ TakeLock(p)
    \/ GiveUpLock(p) \/ WriteMarkFails(p)

LEMMA ReturningRow ==
    ASSUME TypeOK, NEW p \in Proc, Returning(p)
    PROVE  /\ \E status \in {"ok", "warn", "error"},
                source \in {"oauth", "cli", "claude-cli", "cache", "claude.json", "oct"},
                e \in Entry :
                  /\ Return(p, status, source, e)
                  /\ source = "cache" => e = cache /\ Servable(cache)
           /\ lock' \in Proc \cup {NoProc}
           /\ UNCHANGED << clock, cache, runs, saved, sent >>
<1>1. CASE NoToken(p)
  BY <1>1, EntryTypes DEF NoToken, TypeOK
<1>2. CASE Serve(p)
  BY <1>2, EntryTypes DEF Serve, TypeOK
<1>3. CASE PoorAnswer(p) \/ Canceled(p)
  BY <1>3, EntryTypes DEF PoorAnswer, Canceled, TypeOK
<1>4. CASE SaveFails(p) \/ ServeOwn(p)
  BY <1>4, EntryTypes DEF SaveFails, ServeOwn, TypeOK
<1>5. CASE Abandon(p)
  BY <1>5, EntryTypes DEF Abandon, Unlock, TypeOK
<1> QED
  BY <1>1, <1>2, <1>3, <1>4, <1>5 DEF Returning

LEMMA NextSteps ==
    ASSUME Next
    PROVE  \/ Tick
           \/ \E p \in Proc : \/ Returning(p) \/ Moving(p) \/ GoodAnswer(p) \/ RateLimited(p)
                             \/ SaveLastGood(p) \/ ReadForMark(p) \/ WriteMark(p)
  BY DEF Next, Returning, Moving

-----------------------------------------------------------------------------
\* Every variable stays in its range.
LEMMA TypeNext == TypeOK /\ [Next]_vars => TypeOK'
<1> SUFFICES ASSUME TypeOK, [Next]_vars PROVE TypeOK'
  OBVIOUS
<1>1. CASE Tick \/ UNCHANGED vars
  BY <1>1 DEF Tick, vars, TypeOK
<1>2. ASSUME NEW p \in Proc, Returning(p) PROVE TypeOK'
  <2>1. PICK status \in {"ok", "warn", "error"},
             source \in {"oauth", "cli", "claude-cli", "cache", "claude.json", "oct"},
             e \in Entry : Return(p, status, source, e)
    BY <1>2, ReturningRow
  <2>2. lock' \in Proc \cup {NoProc} /\ UNCHANGED << clock, cache, runs, saved, sent >>
    BY <1>2, ReturningRow
  <2>3. /\ pc' = [pc EXCEPT ![p] = "idle"] /\ answer' \in [Proc -> Answers]
        /\ call' \in [Proc -> Calls]
        /\ bare' \in [Proc -> BOOLEAN]
        /\ row' \in [status : {"none", "ok", "warn", "error"},
                     source : {"none", "oauth", "cli", "claude-cli", "cache", "claude.json", "oct"},
                     entry : Entry, at : Nat]
    BY <2>1, ReturnTypes
  <2> QED
    BY <2>2, <2>3 DEF TypeOK, Answers, Calls
<1>3. ASSUME NEW p \in Proc, Moving(p) PROVE TypeOK'
  <2>1. CASE Fetch(p)
    BY <2>1 DEF Fetch, Goto, TypeOK
  <2>2. CASE HoldBack(p) \/ Request(p)
    BY <2>2 DEF HoldBack, Request, Goto, TypeOK
  <2>3. CASE Send(p)
    <3>1. call' \in [Proc -> Calls] /\ sent' \in [Proc -> Nat]
      <4>1. call \in [Proc -> Calls] /\ sent \in [Proc -> Nat]
        BY DEF TypeOK, Calls
      <4>2. call[p].tries + 1 \in 0..(MaxRetries + 1)
        BY <2>3, <4>1, CallTypes, DurationAssumption DEF Send
      <4> QED
        BY <2>3, <4>1, <4>2 DEF Send, Calls
    <3> QED
      BY <2>3, <3>1 DEF Send, Goto, TypeOK, Calls
  <2>7. CASE Retry(p)
    <3>1. PICK wait \in Nat : Sleep(p, wait)
      BY <2>7, DurationAssumption DEF Retry
    <3>2. call' \in [Proc -> Calls]
      BY <3>1 DEF Sleep, TypeOK, Calls
    <3> QED
      BY <3>1, <3>2 DEF Sleep, Goto, TypeOK, Calls
  <2>4. CASE TakeLock(p)
    BY <2>4 DEF TakeLock, Goto, TypeOK
  <2>5. CASE GiveUpLock(p)
    BY <2>5 DEF GiveUpLock, Goto, TypeOK
  <2>6. CASE WriteMarkFails(p)
    BY <2>6 DEF WriteMarkFails, Unlock, Goto, TypeOK
  <2> QED
    BY <1>3, <2>1, <2>2, <2>3, <2>4, <2>5, <2>6, <2>7 DEF Moving
<1>4. ASSUME NEW p \in Proc, GoodAnswer(p) \/ RateLimited(p) PROVE TypeOK'
  <2>1. PICK r \in Nat, label \in {"save", "mark"} :
          Hear(p, r, label) /\ UNCHANGED << clock, cache, lock, bare, row, runs, saved, sent >>
    BY <1>4, DurationAssumption DEF GoodAnswer, RateLimited
  <2>2. clock \in Nat /\ answer \in [Proc -> Answers] /\ call \in [Proc -> Calls]
    BY DEF TypeOK, Answers, Calls
  <2>3. answer' \in [Proc -> Answers] /\ call' \in [Proc -> Calls]
    BY <2>1, <2>2, CallTypes DEF Hear, Answers
  <2> QED
    BY <2>1, <2>3 DEF Hear, Goto, TypeOK, Answers, Calls
<1>6. ASSUME NEW p \in Proc, SaveLastGood(p) PROVE TypeOK'
  <2>1. answer[p].at \in Nat /\ clock \in Nat
    BY DEF TypeOK
  <2>2. cache' \in Entry /\ saved' \in SUBSET (Nat \X Nat) /\ sent' \in [Proc -> Nat]
    BY <1>6, <2>1, EntryTypes DEF SaveLastGood, TypeOK
  <2>3. Return(p, "ok", "oauth", NoEntry) /\ UNCHANGED << clock, lock, runs >>
    BY <1>6 DEF SaveLastGood
  <2> QED
    BY <2>2, <2>3, ReturnTypes, EntryTypes DEF TypeOK, Answers, Calls
<1>7. ASSUME NEW p \in Proc, ReadForMark(p) PROVE TypeOK'
  BY <1>7 DEF ReadForMark, Goto, TypeOK
<1>8. ASSUME NEW p \in Proc, WriteMark(p) PROVE TypeOK'
  <2>1. cache' \in Entry
    BY <1>8, MarkedEntry DEF WriteMark
  <2> QED
    BY <1>8, <2>1 DEF WriteMark, Unlock, Goto, TypeOK
<1> QED
  BY NextSteps, <1>1, <1>2, <1>3, <1>4, <1>6, <1>7, <1>8

\* Copies stay dated because numbers once recorded remain recorded.
LEMMA DateNext == TypeOK /\ DateInv /\ [Next]_vars => DateInv'
<1> SUFFICES ASSUME TypeOK, DateInv, [Next]_vars PROVE DateInv'
  OBVIOUS
<1>1. CASE Tick \/ UNCHANGED vars
  <2>1. UNCHANGED << cache, pc, answer, row, saved >> /\ clock' >= clock /\ clock' \in Nat
    BY <1>1 DEF Tick, vars, TypeOK
  <2> QED
    BY <2>1 DEF DateInv, Dated, TypeOK
<1>2. ASSUME NEW p \in Proc, Returning(p) PROVE DateInv'
  <2>1. PICK status \in {"ok", "warn", "error"},
             source \in {"oauth", "cli", "claude-cli", "cache", "claude.json", "oct"},
             e \in Entry :
               /\ Return(p, status, source, e)
               /\ source = "cache" => e = cache /\ Servable(cache)
    BY <1>2, ReturningRow
  <2>2. /\ pc' = [pc EXCEPT ![p] = "idle"] /\ answer' = [answer EXCEPT ![p] = NoAnswer]
        /\ row'.source = source /\ row'.entry = e /\ row'.at = clock
        /\ UNCHANGED << clock, cache, saved >>
    BY <1>2, <2>1, ReturnTypes, ReturningRow
  <2>3. \A q \in Proc : pc'[q] = "write" => pc[q] = "write" /\ answer'[q] = answer[q]
    BY <2>2 DEF TypeOK
  <2>4. \A q \in Proc : pc'[q] = "write" => Dated(answer[q].entry)'
    BY <2>2, <2>3 DEF DateInv, Dated
  <2>5. row'.source = "cache" =>
          /\ << row'.entry.buckets, row'.entry.fetchedAt >> \in saved'
          /\ row'.at - row'.entry.fetchedAt <= MaxAge
    BY <2>1, <2>2 DEF Servable, DateInv, Dated
  <2> QED
    BY <2>2, <2>4, <2>5 DEF DateInv, Dated
<1>3. ASSUME NEW p \in Proc, Moving(p) PROVE DateInv'
  <2>1. \A q \in Proc : pc'[q] = "write" => pc[q] = "write"
    BY <1>3 DEF Moving, Fetch, HoldBack, Request, Send, Retry, Sleep, TakeLock, GiveUpLock,
                WriteMarkFails, Goto, TypeOK
  <2>2. UNCHANGED << clock, cache, answer, row, saved >>
    BY <1>3 DEF Moving, Fetch, HoldBack, Request, Send, Retry, Sleep, TakeLock, GiveUpLock,
                WriteMarkFails
  <2> QED
    BY <2>1, <2>2 DEF DateInv, Dated
<1>4. ASSUME NEW p \in Proc, GoodAnswer(p) \/ RateLimited(p) PROVE DateInv'
  <2>1. \A q \in Proc : pc'[q] = "write" => pc[q] = "write" /\ q # p
    BY <1>4 DEF GoodAnswer, RateLimited, Hear, Goto, TypeOK
  <2>2. \A q \in Proc : q # p => answer'[q] = answer[q]
    BY <1>4 DEF GoodAnswer, RateLimited, Hear, TypeOK
  <2>3. UNCHANGED << clock, cache, row, saved >>
    BY <1>4 DEF GoodAnswer, RateLimited
  <2> QED
    BY <2>1, <2>2, <2>3 DEF DateInv, Dated
<1>5. ASSUME NEW p \in Proc, SaveLastGood(p) PROVE DateInv'
  <2>1. Return(p, "ok", "oauth", NoEntry)
    BY <1>5 DEF SaveLastGood
  <2>2. pc' = [pc EXCEPT ![p] = "idle"] /\ answer' = [answer EXCEPT ![p] = NoAnswer]
        /\ row'.source = "oauth"
    BY <2>1, ReturnTypes, EntryTypes
  <2>3. \A q \in Proc : pc'[q] = "write" => pc[q] = "write" /\ answer'[q] = answer[q]
    BY <2>2 DEF TypeOK
  <2>4. clock' = clock /\ saved \subseteq saved' /\ Dated(cache)' /\ clock \in Nat
    BY <1>5 DEF SaveLastGood, Dated, DateInv, TypeOK
  <2> QED
    BY <2>2, <2>3, <2>4 DEF DateInv, Dated
<1>6. ASSUME NEW p \in Proc, ReadForMark(p) PROVE DateInv'
  <2>1. answer'[p].entry = cache /\ \A q \in Proc : q # p => answer'[q] = answer[q] /\ pc'[q] = pc[q]
    BY <1>6 DEF ReadForMark, Goto, TypeOK
  <2>2. UNCHANGED << clock, cache, row, saved >>
    BY <1>6 DEF ReadForMark
  <2> QED
    BY <2>1, <2>2 DEF DateInv, Dated
<1>7. ASSUME NEW p \in Proc, WriteMark(p) PROVE DateInv'
  <2>1. pc[p] = "write" /\ cache' = Marked(p)
        /\ UNCHANGED << clock, answer, row, saved >>
    BY <1>7 DEF WriteMark
  <2>2. \A q \in Proc : pc'[q] = "write" => pc[q] = "write"
    BY <1>7 DEF WriteMark, Goto, TypeOK
  <2>3. Dated(cache)'
    BY <2>1, MarkedEntry DEF Dated, DateInv
  <2> QED
    BY <2>1, <2>2, <2>3 DEF DateInv, Dated
<1> QED
  BY NextSteps, <1>1, <1>2, <1>3, <1>4, <1>5, <1>6, <1>7

LEMMA BackoffNext == TypeOK /\ BackoffInv /\ [Next]_vars => BackoffInv'
<1> SUFFICES ASSUME TypeOK, BackoffInv, [Next]_vars PROVE BackoffInv'
  OBVIOUS
<1> USE DurationAssumption
<1>1. CASE Tick \/ UNCHANGED vars
  BY <1>1 DEF Tick, vars, TypeOK, Entry, BackoffInv, BackoffIsBounded
<1>2. ASSUME NEW p \in Proc, Returning(p) \/ SaveLastGood(p) PROVE BackoffInv'
  <2>1. answer' = [answer EXCEPT ![p] = NoAnswer] /\ clock' = clock
    BY <1>2, ReturningRow, ReturnTypes, EntryTypes DEF SaveLastGood
  <2>2. cache'.backoff \in {cache.backoff, 0}
    BY <1>2, ReturningRow DEF SaveLastGood
  <2>3. \A q \in Proc : answer'[q].at \in {answer[q].at, 0}
    BY <2>1, AnswerTypes DEF TypeOK
  <2> QED
    BY <2>1, <2>2, <2>3 DEF TypeOK, Entry, BackoffInv, BackoffIsBounded
<1>3. ASSUME NEW p \in Proc, Moving(p) PROVE BackoffInv'
  BY <1>3 DEF Moving, Fetch, HoldBack, Request, Send, Retry, Sleep, TakeLock, GiveUpLock,
              WriteMarkFails, BackoffInv, BackoffIsBounded
<1>4. ASSUME NEW p \in Proc, GoodAnswer(p) \/ RateLimited(p) \/ ReadForMark(p) PROVE BackoffInv'
  <2>1. \A q \in Proc : answer'[q].at \in {answer[q].at, clock}
    <3>1. CASE ReadForMark(p)
      BY <3>1 DEF ReadForMark, TypeOK
    <3>2. CASE GoodAnswer(p) \/ RateLimited(p)
      <4>1. PICK r : Hear(p, r, "save") \/ Hear(p, r, "mark")
        BY <3>2 DEF GoodAnswer, RateLimited
      <4>2. answer \in [Proc -> Answers]
        BY DEF TypeOK, Answers
      <4>3. answer' = [answer EXCEPT ![p].at = clock, ![p].retry = r]
        BY <4>1 DEF Hear
      <4>4. \A q \in Proc : q # p => answer'[q] = answer[q]
        BY <4>2, <4>3
      <4>5. answer'[p].at = clock
        BY <4>2, <4>3 DEF Answers
      <4> QED
        BY <4>4, <4>5
    <3> QED
      BY <1>4, <3>1, <3>2
  <2>2. UNCHANGED << clock, cache >>
    BY <1>4 DEF GoodAnswer, RateLimited, ReadForMark
  <2> QED
    BY <2>1, <2>2 DEF TypeOK, BackoffInv, BackoffIsBounded
<1>5. ASSUME NEW p \in Proc, WriteMark(p) PROVE BackoffInv'
  <2>1. cache' = Marked(p) /\ UNCHANGED << clock, answer >>
    BY <1>5 DEF WriteMark
  <2>2. answer[p].at \in Nat /\ answer[p].retry \in Nat /\ answer[p].at <= clock
    BY DEF TypeOK, BackoffInv
  <2>3. cache'.backoff <= clock + BackoffMax
    BY <2>1, <2>2, MarkedEntry, BackoffBounded DEF TypeOK
  <2> QED
    BY <2>1, <2>3 DEF BackoffInv, BackoffIsBounded
<1> QED
  BY NextSteps, <1>1, <1>2, <1>3, <1>4, <1>5

-----------------------------------------------------------------------------
(* Requests after a recorded 429.                                          *)

LEMMA LeftTypes ==
    ASSUME TypeOK, NEW p \in Proc
    PROVE  Left(p) \in 0..(MaxRetries + 1) /\ sent[p] \in Nat
<1>1. call[p].tries \in 0..(MaxRetries + 1)
  BY CallTypes DEF TypeOK, Calls
<1> QED
  BY <1>1, DurationAssumption DEF TypeOK, Left

\* A call that has left the client has no attempts left.
LEMMA NoneLeft ==
    ASSUME NEW p \in Proc, pc'[p] \notin {"request", "sent", "asleep"}
    PROVE  Left(p)' = 0
  BY DEF Left

\* Nobody gains an attempt while the file and the counts stay as they are.
LEMMA SentKept ==
    ASSUME TypeOK, SentInv, sent' = sent, cache' = cache, clock' \in Nat, clock' >= clock,
           \A q \in Proc : Left(q)' = Left(q) \/ Left(q)' = 0
    PROVE  SentInv'
<1> SUFFICES ASSUME InBackoff(cache)'
             PROVE  /\ \A q \in Proc : sent'[q] + Left(q)' <= MaxRetries + 1
                    /\ \E q \in Proc : sent'[q] = 0 /\ Left(q)' = 0
  BY DEF SentInv, Silent
<1>1. InBackoff(cache)
  BY EntryTypes DEF InBackoff, TypeOK
<1>2. \A q \in Proc : sent[q] + Left(q) <= MaxRetries + 1
  BY <1>1 DEF SentInv
<1>3. PICK r \in Proc : sent[r] = 0 /\ Left(r) = 0
  BY <1>1 DEF SentInv, Silent
<1>4. ASSUME NEW q \in Proc PROVE sent'[q] + Left(q)' <= MaxRetries + 1
  BY <1>2, LeftTypes, DurationAssumption
<1> QED
  BY <1>3, <1>4

LEMMA SentNext == TypeOK /\ DateInv /\ SentInv /\ [Next]_vars => SentInv'
<1> SUFFICES ASSUME TypeOK, DateInv, SentInv, [Next]_vars PROVE SentInv'
  OBVIOUS
<1>1. CASE Tick \/ UNCHANGED vars
  <2>1. UNCHANGED << cache, sent, pc, call >> /\ clock' \in Nat /\ clock' >= clock
    BY <1>1 DEF Tick, vars, TypeOK
  <2> QED
    BY <2>1, SentKept DEF Left
<1>2. ASSUME NEW p \in Proc, Returning(p) PROVE SentInv'
  <2>1. /\ pc' = [pc EXCEPT ![p] = "idle"] /\ call' = [call EXCEPT ![p] = NoCall]
        /\ UNCHANGED << clock, cache, sent >>
    BY <1>2, ReturningRow, ReturnTypes
  <2>2. \A q \in Proc : Left(q)' = Left(q) \/ Left(q)' = 0
    BY <2>1 DEF Left, TypeOK
  <2> QED
    BY <2>1, <2>2, SentKept DEF TypeOK
<1>3. ASSUME NEW p \in Proc, Request(p) PROVE SentInv'
  BY <1>3 DEF Request, SentInv, InBackoff
<1>4. ASSUME NEW p \in Proc, Send(p) PROVE SentInv'
  <2>1. /\ pc[p] \in {"request", "asleep"} /\ call[p].tries <= MaxRetries
        /\ call'[p].tries = call[p].tries + 1 /\ pc'[p] = "sent" /\ sent'[p] = sent[p] + 1
        /\ UNCHANGED << clock, cache >>
    BY <1>4 DEF Send, Goto, TypeOK
  <2>2. \A q \in Proc : q # p => Left(q)' = Left(q) /\ sent'[q] = sent[q]
    BY <1>4 DEF Send, Goto, TypeOK, Left
  <2>3. call[p].tries \in Nat
    BY CallTypes DEF TypeOK, Calls
  <2>4. Left(p)' = Left(p) - 1 /\ Left(p) # 0
    BY <2>1, <2>3, DurationAssumption DEF Left
  <2>5. SUFFICES ASSUME InBackoff(cache)
                 PROVE  /\ \A q \in Proc : sent'[q] + Left(q)' <= MaxRetries + 1
                        /\ \E q \in Proc : sent'[q] = 0 /\ Left(q)' = 0
    BY <2>1 DEF SentInv, Silent, InBackoff
  <2>6. ASSUME NEW q \in Proc PROVE sent'[q] + Left(q)' <= MaxRetries + 1
    <3>1. sent[q] + Left(q) <= MaxRetries + 1
      BY <2>5 DEF SentInv
    <3> QED
      BY <3>1, <2>1, <2>2, <2>4, LeftTypes, DurationAssumption
  <2>7. PICK r \in Proc : sent[r] = 0 /\ Left(r) = 0
    BY <2>5 DEF SentInv, Silent
  <2> QED
    BY <2>2, <2>4, <2>6, <2>7
<1>5. ASSUME NEW p \in Proc,
             \/ Fetch(p) \/ HoldBack(p) \/ TakeLock(p) \/ GiveUpLock(p) \/ WriteMarkFails(p)
             \/ ReadForMark(p)
      PROVE  SentInv'
  <2>1. UNCHANGED << clock, cache, sent, call >>
    BY <1>5 DEF Fetch, HoldBack, TakeLock, GiveUpLock, WriteMarkFails, ReadForMark
  <2>2. \A q \in Proc : Left(q)' = Left(q) \/ Left(q)' = 0
    BY <1>5, <2>1 DEF Fetch, HoldBack, TakeLock, GiveUpLock, WriteMarkFails, ReadForMark, Goto,
                      Left, TypeOK
  <2> QED
    BY <2>1, <2>2, SentKept DEF TypeOK
<1>6. ASSUME NEW p \in Proc, Retry(p) PROVE SentInv'
  <2>1. PICK wait \in Nat : Sleep(p, wait)
    BY <1>6, DurationAssumption DEF Retry
  <2>2. UNCHANGED << clock, cache, sent >> /\ pc[p] = "sent" /\ pc'[p] = "asleep"
        /\ call'[p].tries = call[p].tries
    BY <2>1 DEF Sleep, Goto, TypeOK
  <2>3. \A q \in Proc : q # p => pc'[q] = pc[q] /\ call'[q] = call[q]
    BY <2>1 DEF Sleep, Goto, TypeOK
  <2>4. \A q \in Proc : Left(q)' = Left(q)
    BY <2>2, <2>3 DEF Left
  <2> QED
    BY <2>2, <2>4, SentKept DEF TypeOK
<1>7. ASSUME NEW p \in Proc, GoodAnswer(p) \/ RateLimited(p) PROVE SentInv'
  <2>1. UNCHANGED << clock, cache, sent >> /\ pc'[p] \in {"save", "mark"}
        /\ \A q \in Proc : q # p => pc'[q] = pc[q] /\ call'[q] = call[q]
    BY <1>7 DEF GoodAnswer, RateLimited, Hear, Goto, TypeOK
  <2>2. \A q \in Proc : Left(q)' = Left(q) \/ Left(q)' = 0
    BY <2>1 DEF Left
  <2> QED
    BY <2>1, <2>2, SentKept DEF TypeOK
<1>8. ASSUME NEW p \in Proc, SaveLastGood(p) PROVE SentInv'
  BY <1>8 DEF SaveLastGood, SentInv, InBackoff, TypeOK
<1>9. ASSUME NEW p \in Proc, WriteMark(p) PROVE SentInv'
  <2>1. /\ pc[p] = "write" /\ sent' = [q \in Proc |-> 0] /\ call' = call
        /\ pc' = [pc EXCEPT ![p] = "limited"]
    BY <1>9 DEF WriteMark, Goto
  <2>2. \A q \in Proc : Left(q)' = Left(q)
    BY <2>1 DEF Left, TypeOK
  <2>3. Left(p) = 0
    BY <2>1 DEF Left
  <2>4. \A q \in Proc : sent'[q] + Left(q)' <= MaxRetries + 1
    BY <2>1, <2>2, LeftTypes, DurationAssumption
  <2> QED
    BY <2>1, <2>2, <2>3, <2>4 DEF SentInv, Silent
<1> QED
  BY NextSteps, <1>1, <1>2, <1>3, <1>4, <1>5, <1>6, <1>7, <1>8, <1>9 DEF Moving

LEMMA Invariance == Spec => []IInv
<1>1. IInv /\ [Next]_vars => IInv'
  BY TypeNext, DateNext, BackoffNext, SentNext DEF IInv
<1> QED
  BY InitInv, <1>1, PTL DEF Spec

-----------------------------------------------------------------------------
\* Every variable stays in its range.
THEOREM TypeCorrect == Spec => []TypeOK
<1>1. IInv => TypeOK
  BY DEF IInv
<1> QED
  BY Invariance, <1>1, PTL

\* Numbers in the file and in a cached row carry the time they were recorded,
\* although good answers are saved without the lock and may be overwritten from
\* older copies (claude_usage_cache.go:82-121).
THEOREM NumbersDated == Spec => []ServedNumbersAreDated
<1>1. IInv => ServedNumbersAreDated
  BY DEF IInv, DateInv, Dated, ServedNumbersAreDated
<1> QED
  BY Invariance, <1>1, PTL

\* No Retry-After shuts the endpoint out for longer than the maximum
\* (markClaudeRateLimited).
THEOREM BackoffsBounded == Spec => []BackoffIsBounded
<1>1. IInv => BackoffIsBounded
  BY DEF IInv, BackoffInv
<1> QED
  BY Invariance, <1>1, PTL

\* After a recorded 429 only fetches past their check still send, no more than
\* one call's attempts each, and the one that recorded it is silent
\* (claude.go:183-205, DoWithRetry and markClaudeRateLimited).
THEOREM EndpointSilent == Spec => []EndpointLeftAlone
<1>1. ASSUME IInv, InBackoff(cache), NEW p \in Proc PROVE sent[p] <= MaxRetries + 1
  <2>1. sent[p] + Left(p) <= MaxRetries + 1
    BY <1>1 DEF IInv, SentInv
  <2> QED
    BY <1>1, <2>1, LeftTypes, DurationAssumption DEF IInv
<1>2. IInv => EndpointLeftAlone
  BY <1>1 DEF IInv, SentInv, Silent, EndpointLeftAlone
<1> QED
  BY Invariance, <1>2, PTL
=============================================================================
