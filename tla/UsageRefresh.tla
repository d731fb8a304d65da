----------------------------- MODULE UsageRefresh -----------------------------
(***************************************************************************)
(* The popover's refresh (UsageViewModel.swift) over the processes the     *)
(* service runs for it (OctCLIService.runProcess): a child that may hang,  *)
(* ignore signals or leave its pipes to a grandchild; a watchdog that may  *)
(* give a refresh up before its process is; answers that come late; and    *)
(* the reset credit a confirmed click spends.                              *)
(*                                                                         *)
(* Time is in ticks of ExitGrace; a timer goes off at or after its time.   *)
(***************************************************************************)
EXTENDS Integers, FiniteSets

CONSTANTS
    Calls,           \* the calls of runProcess that may be going on at once
    ProcessTimeout,  \* SIGTERM after this long, SIGKILL one grace later
    RefreshDeadline, \* the end of the wait for the pipes, and the watchdog's
    MaxRefreshes,    \* bound on the refreshes started
    MaxRequests      \* bound on the reset credits asked for

ExitGrace == 1

ASSUME CallsAssumption == IsFiniteSet(Calls)
ASSUME ProcessTimeoutAssumption == ProcessTimeout \in Nat
ASSUME RefreshDeadlineAssumption ==
    RefreshDeadline \in Nat /\ RefreshDeadline >= ProcessTimeout + 2 * ExitGrace
ASSUME BoundsAssumption == MaxRefreshes \in Nat /\ MaxRequests \in Nat

VARIABLES
    isRefreshing,  \* of the view model
    generation,    \* of the view model: counts starts and ends
    watchdog,      \* on, for which refresh, and how long it has slept
    snapshot,      \* the refresh whose answer, usage or an error, is shown
    pending,       \* pendingResetCreditCard
    call,          \* the state of each call of runProcess
    requested,     \* reset credits asked for
    spent          \* reset credits spent at the provider

vmVars == << isRefreshing, generation, watchdog, snapshot >>
vars == << isRefreshing, generation, watchdog, snapshot, pending, call, requested, spent >>

-----------------------------------------------------------------------------
(* runProcess.                                                             *)

\* kind and gen: whom the answer is for; at: none, queued, eof (waiting for the
\* pipes), reap, kill (reaping on after a SIGKILL), answered; age: since the
\* launch; grace: since this round of reaping began; child: run, exit0 or
\* failed; held: a grandchild holds the pipes; closed: the pipes were seen closed;
\* timedOut: a work item has run; cut: the child was signalled while it ran;
\* landed: the credit is spent.
Idle == [kind |-> "usage", gen |-> 0, at |-> "none", age |-> 0, grace |-> 0,
         child |-> "run", held |-> FALSE, closed |-> FALSE, timedOut |-> FALSE,
         cut |-> FALSE, landed |-> FALSE, ok |-> FALSE]

Queued(kind, gen) == [Idle EXCEPT !.kind = kind, !.gen = gen, !.at = "queued"]

Only(c, f) == /\ call' = [call EXCEPT ![c] = f]
              /\ UNCHANGED << isRefreshing, generation, watchdog, snapshot, pending, requested, spent >>

Reaping(c) == call[c].at \in {"reap", "kill"}
Waiting(c) == call[c].at = "eof" \/ Reaping(c)
Alive(c)   == Waiting(c) /\ call[c].child = "run"

\* A call that throws answers no more than that.
Thrown(c) == [Queued(call[c].kind, call[c].gen) EXCEPT !.at = "answered"]

\* The executable is missing, or process.run() throws.
LaunchFails(c) ==
    /\ call[c].at = "queued"
    /\ Only(c, Thrown(c))

Launch(c, held) ==
    /\ call[c].at = "queued"
    /\ Only(c, [call[c] EXCEPT !.at = "eof", !.held = held])

\* oct ends, by itself or by a signal, which it may also trap to end well; a
\* reset credit is reported only when it was spent.
ChildExits(c, code) ==
    /\ Alive(c)
    /\ code = "exit0" /\ call[c].kind = "credit" => call[c].landed
    /\ Only(c, [call[c] EXCEPT !.child = code])

GrandchildEnds(c) ==
    /\ call[c].at = "eof" /\ call[c].held
    /\ Only(c, [call[c] EXCEPT !.held = FALSE])

\* The POST of the consume call arrives; a process sends one.
CreditLands(c) ==
    /\ Alive(c) /\ call[c].kind = "credit" /\ ~call[c].landed
    /\ call' = [call EXCEPT ![c].landed = TRUE]
    /\ spent' = spent + 1
    /\ UNCHANGED << isRefreshing, generation, watchdog, snapshot, pending, requested >>

\* The terminate and the kill work item. They signal a child that runs; when, how
\* and whether it then ends, trapping SIGTERM or stuck in the kernel, is its own
\* (ChildExits).
timeoutWorkItem(c) ==
    /\ Waiting(c) /\ call[c].age >= ProcessTimeout
    /\ Only(c, [call[c] EXCEPT !.timedOut = TRUE, !.cut = @ \/ call[c].child = "run"])

\* waitForPipesEOF: whichever of the two comes first.
PipesClose(c) ==
    /\ call[c].at = "eof" /\ call[c].child # "run" /\ ~call[c].held
    /\ Only(c, [call[c] EXCEPT !.at = "reap", !.closed = TRUE])

\* Mutant: the wait for the pipes has no deadline while they are held.
DeadlineOfFreed(c) ==
    /\ call[c].at = "eof" /\ call[c].age >= RefreshDeadline /\ ~call[c].held
    /\ Only(c, [call[c] EXCEPT !.at = "reap"])

\* Who holds them is then no longer asked.
PipesDeadline(c) ==
    /\ call[c].at = "eof" /\ call[c].age >= RefreshDeadline
    /\ Only(c, [call[c] EXCEPT !.at = "reap", !.held = FALSE])

\* Mutant: a child that caught SIGTERM and exited well is believed.
SuccessOfTimedOut(x) == x.closed /\ x.child = "exit0"

Success(x) == ~x.timedOut /\ x.closed /\ x.child = "exit0"

\* reapExitStatus: the status of a child that is gone, which may be missed for
\* ever when Foundation reaped the child.
Reaped(c) ==
    /\ Reaping(c) /\ call[c].child # "run"
    /\ Only(c, IF Success(call[c])
               THEN [call[c] EXCEPT !.at = "answered", !.ok = TRUE, !.age = 0, !.grace = 0]
               ELSE Thrown(c))

\* Between its two rounds the child is killed.
ReapKill(c) ==
    /\ call[c].at = "reap" /\ call[c].grace >= ExitGrace
    /\ Only(c, [call[c] EXCEPT !.at = "kill", !.grace = 0, !.cut = @ \/ call[c].child = "run"])

\* The child's fate is unknown.
ReapGivesUp(c) ==
    /\ call[c].at = "kill" /\ call[c].grace >= ExitGrace
    /\ Only(c, Thrown(c))

-----------------------------------------------------------------------------
(* The view model.                                                         *)

\* Mutant: the watchdog is given the number before the increment.
StartRefreshLate(c) ==
    /\ generation + 2 <= 2 * MaxRefreshes
    /\ isRefreshing' = TRUE
    /\ generation' = generation + 1
    /\ watchdog' = [on |-> TRUE, gen |-> generation, slept |-> 0]
    /\ call' = [call EXCEPT ![c] = Queued("usage", generation + 1)]

\* The body of refresh() past its guard, with c for the process of its task.
StartRefresh(c) ==
    /\ generation + 2 <= 2 * MaxRefreshes
    /\ isRefreshing' = TRUE
    /\ generation' = generation + 1
    /\ watchdog' = [on |-> TRUE, gen |-> generation + 1, slept |-> 0]
    /\ call' = [call EXCEPT ![c] = Queued("usage", generation + 1)]

\* The timer, the menu, the start of the app.
refresh(c) ==
    /\ ~isRefreshing /\ call[c].at = "none"
    /\ StartRefresh(c)
    /\ UNCHANGED << snapshot, pending, requested, spent >>

\* Mutant: any answer ends the refresh that is running.
finishAnyRefresh(gen) ==
    IF isRefreshing
    THEN /\ generation' = generation + 1
         /\ watchdog' = [watchdog EXCEPT !.on = FALSE]
         /\ isRefreshing' = FALSE
         /\ snapshot' = gen
    ELSE UNCHANGED vmVars

\* Only the newest generation may publish.
finishRefresh(gen) ==
    IF isRefreshing /\ gen = generation
    THEN /\ generation' = generation + 1
         /\ watchdog' = [watchdog EXCEPT !.on = FALSE]
         /\ isRefreshing' = FALSE
         /\ snapshot' = gen
    ELSE UNCHANGED vmVars

Answered(c) ==
    /\ call[c].at = "answered" /\ call[c].kind = "usage"
    /\ finishRefresh(call[c].gen)
    /\ call' = [call EXCEPT ![c] = Idle]
    /\ UNCHANGED << pending, requested, spent >>

WatchdogFires ==
    /\ watchdog.on /\ watchdog.slept >= RefreshDeadline
    /\ finishRefresh(watchdog.gen)
    /\ UNCHANGED << pending, call, requested, spent >>

\* The badge of a card is clicked.
requestResetCredit ==
    /\ requested < MaxRequests
    /\ ~pending
    /\ pending' = TRUE /\ requested' = requested + 1
    /\ UNCHANGED << isRefreshing, generation, watchdog, snapshot, call, spent >>

cancelResetCredit ==
    /\ pending
    /\ pending' = FALSE
    /\ UNCHANGED << isRefreshing, generation, watchdog, snapshot, call, requested, spent >>

\* Mutant: the card stays pending while its credit is being spent.
confirmAndKeep(c) ==
    /\ pending /\ call[c].at = "none"
    /\ call' = [call EXCEPT ![c] = Queued("credit", 0)]
    /\ UNCHANGED << isRefreshing, generation, watchdog, snapshot, pending, requested, spent >>

confirmResetCredit(c) ==
    /\ pending /\ call[c].at = "none"
    /\ pending' = FALSE
    /\ call' = [call EXCEPT ![c] = Queued("credit", 0)]
    /\ UNCHANGED << isRefreshing, generation, watchdog, snapshot, requested, spent >>

\* The spend, or its failure, is reported.
CreditAnswered(c) ==
    /\ call[c].at = "answered" /\ call[c].kind = "credit"
    /\ ~call[c].ok \/ isRefreshing
    /\ Only(c, Idle)

\* A reported spend is followed by a refresh when none is running.
RefreshAfterCredit(c) ==
    /\ call[c].at = "answered" /\ call[c].kind = "credit"
    /\ call[c].ok /\ ~isRefreshing
    /\ StartRefresh(c)
    /\ UNCHANGED << snapshot, pending, requested, spent >>

\* Time passes for every timer that is set, up to the last moment it is read.
Later(n, last) == IF n < last THEN n + 1 ELSE n

Tick ==
    /\ call' = [c \in Calls |->
            [call[c] EXCEPT !.age = IF Waiting(c) THEN Later(@, RefreshDeadline) ELSE @,
                            !.grace = IF Reaping(c) THEN Later(@, ExitGrace) ELSE @]]
    /\ watchdog' = [watchdog EXCEPT !.slept = IF watchdog.on THEN Later(@, RefreshDeadline) ELSE @]
    /\ UNCHANGED << isRefreshing, generation, snapshot, pending, requested, spent >>

-----------------------------------------------------------------------------
Init ==
    /\ isRefreshing = FALSE
    /\ generation = 0
    /\ watchdog = [on |-> FALSE, gen |-> 0, slept |-> 0]
    /\ snapshot = -1
    /\ pending = FALSE
    /\ call = [c \in Calls |-> Idle]
    /\ requested = 0
    /\ spent = 0

\* The process of a call: oct, the system and the work items of runProcess.
Child(c) ==
    \/ \E code \in {"exit0", "failed"} : ChildExits(c, code)
    \/ GrandchildEnds(c)
    \/ CreditLands(c)
    \/ timeoutWorkItem(c)

\* runProcess itself, once its child is launched.
Wait(c) ==
    \/ PipesClose(c)
    \/ PipesDeadline(c)
    \/ Reaped(c)
    \/ ReapKill(c)
    \/ ReapGivesUp(c)

Next ==
    \/ \E c \in Calls :
        \/ LaunchFails(c)
        \/ \E held \in BOOLEAN : Launch(c, held)
        \/ Child(c)
        \/ Wait(c)
        \/ refresh(c)
        \/ Answered(c)
        \/ confirmResetCredit(c)
        \/ CreditAnswered(c)
        \/ RefreshAfterCredit(c)
    \/ WatchdogFires
    \/ requestResetCredit
    \/ cancelResetCredit
    \/ Tick

\* Timers go off and the steps of runProcess are taken. Nothing is asked of the
\* child, of who holds its pipes, of a signal, or of the answer's way back.
Fairness ==
    /\ WF_vars(Tick)
    /\ WF_vars(WatchdogFires)
    /\ \A c \in Calls : WF_vars(Wait(c))

Spec == Init /\ [][Next]_vars /\ Fairness

-----------------------------------------------------------------------------
CallRecords ==
    [kind: {"usage", "credit"}, gen: Nat,
     at: {"none", "queued", "eof", "reap", "kill", "answered"},
     age: Nat, grace: Nat,
     child: {"run", "exit0", "failed"},
     held: BOOLEAN, closed: BOOLEAN, timedOut: BOOLEAN, cut: BOOLEAN,
     landed: BOOLEAN, ok: BOOLEAN]

\* The variables have their types, and the watchdog is set exactly while the
\* refresh it was set for is running (UsageViewModel.swift:44, 87).
TypeOK ==
    /\ isRefreshing \in BOOLEAN
    /\ generation \in Nat
    /\ watchdog \in [on: BOOLEAN, gen: Nat, slept: Nat]
    /\ snapshot \in Int
    /\ pending \in BOOLEAN
    /\ call \in [Calls -> CallRecords]
    /\ requested \in Nat
    /\ spent \in Nat
    /\ watchdog.on <=> isRefreshing
    /\ isRefreshing => watchdog.gen = generation

\* Output that is believed is whole: it is from a process that ended well by
\* itself, never signalled while it ran, and whose pipes were read to their end
\* (runProcess's ladder of guards, OctCLIService.swift:516-540). Violating it
\* takes a late exit, a trapped SIGTERM or a grandchild that holds the pipes.
OutputIsWhole ==
    \A c \in Calls : call[c].at = "answered" /\ call[c].ok =>
        call[c].child = "exit0" /\ call[c].closed /\ ~call[c].cut

\* Each click that is confirmed spends at most one credit, whatever fails
\* between the alert, the process and the provider (confirmResetCredit).
SpentOncePerRequest == spent <= requested

\* What is shown is the answer of the last refresh that ended: an answer that
\* comes after its watchdog changes nothing, not even during the next refresh
\* (the generation guard of finishRefresh).
Answers == INSTANCE UsageAnswers WITH
    busy  <- isRefreshing,
    asked <- IF isRefreshing THEN generation ELSE generation - 1,
    shown <- snapshot

RefreshesAreAnswered == Answers!Spec

\* No hang of a process leaves the popover refreshing for ever ("a stuck
\* refresh once left isRefreshing true forever", UsageViewModel.swift:53).
RefreshEnds == isRefreshing ~> ~isRefreshing

\* Every stall path fails the call instead of hanging: a child that no signal
\* ends, a grandchild that keeps the pipes, an exit nobody reports
\* (OctCLIService.swift:424-431).
CallsEnd == \A c \in Calls : Waiting(c) ~> ~Waiting(c)
=============================================================================
