-------------------------- MODULE UpdateRowsProofs --------------------------
(***************************************************************************)
(* Proofs about UpdateRows, for any providers, runs and bounds.  The       *)
(* inductive invariant ties the flags and chips of the store to the runs   *)
(* in flight, and what each `oct` process still has to do to the providers *)
(* its run was started for.                                                *)
(***************************************************************************)
EXTENDS UpdateRows, TLAPS

\* The flags say which runs are in flight.
FlagInv == isAgentUpdating <=> \E r \in Runs : flight[r].on /\ flight[r].all
RowInv == \A t \in Tools : t \in singleUpdates <=>
    \E r \in Runs : flight[r].on /\ ~flight[r].all /\ t \in flight[r].tools

\* Runs in flight share no provider, and a run of all of them is alone.
AloneInv == \A r, s \in Runs : flight[r].on /\ flight[r].all /\ flight[s].on => r = s
OwnerInv == \A r, s \in Runs : \A t \in Tools :
    /\ flight[r].on /\ t \in flight[r].tools
    /\ flight[s].on /\ t \in flight[s].tools
    => r = s

ChipInv == \A t \in Tools : toolUpdateStates[t] = "updating" =>
    \E r \in Runs : flight[r].on /\ t \in flight[r].tools

\* Every run was started for some provider.
ScopeInv == \A r \in Runs : flight[r].on => flight[r].tools # {}

\* A process works on the providers of its run only, and outside a flight
\* there is none.
WorkInv == \A r \in Runs :
    /\ ~flight[r].on => child[r].at = "off"
    /\ child[r].todo \subseteq flight[r].tools
    /\ child[r].at = "install" => child[r].cur \in flight[r].tools

OwnersInv == FlagInv /\ RowInv /\ AloneInv /\ OwnerInv /\ ChipInv /\ ScopeInv
IInv == TypeOK /\ OwnersInv /\ WorkInv

-----------------------------------------------------------------------------
(* Type correctness.                                                       *)

LEMMA ConstantTypes ==
    /\ 0 \in Versions /\ Latest \in Versions /\ Versions \subseteq Nat
    /\ Idle \in Children /\ NoFlight \in Flights
<1>1. 0 \in Versions /\ Latest \in Versions /\ Versions \subseteq Nat
  BY LatestAssumption DEF Versions
<1>2. [t \in Tools |-> 0] \in [Tools -> Versions]
  BY <1>1
<1>3. Idle \in Children
  BY <1>2 DEF Idle, Children
<1>4. NoFlight \in Flights
  BY DEF NoFlight, Flights
<1> QED BY <1>1, <1>3, <1>4

LEMMA TypeInit == Init => TypeOK
<1> SUFFICES ASSUME Init PROVE TypeOK
  OBVIOUS
<1>1. installed \in [Tools -> Versions]
  BY LatestAssumption DEF Init, ProcInit, Versions
<1>2. child \in [Runs -> Children] /\ flight \in [Runs -> Flights]
  BY ConstantTypes DEF Init, ProcInit
<1>3. pipe \in [Runs -> Seq(Events)]
  BY DEF Init, ProcInit
<1>4. probe \in [at : {"off", "reading", "writing"}, behind : SUBSET Tools,
                left : SUBSET Tools]
  BY DEF Init, ProcInit, NoProbe
<1>5. ProcTypeOK
  BY <1>1, <1>2, <1>3, <1>4 DEF Init, ProcInit, ProcTypeOK
<1>6. starts \in 0..MaxStarts /\ opens \in 0..MaxOpens
  BY BoundAssumption DEF Init
<1>7. toolUpdateStates \in [Tools -> Chips]
  BY DEF Init, Chips
<1> QED BY <1>2, <1>5, <1>6, <1>7 DEF Init, TypeOK

\* Writing an event keeps the pipes well-formed, and so does reading one.
LEMMA EmitType ==
    ASSUME pipe \in [Runs -> Seq(Events)], NEW r \in Runs, NEW e \in Events, Emit(r, e)
    PROVE  pipe' \in [Runs -> Seq(Events)]
BY DEF Emit

LEMMA ToolDoneType ==
    ASSUME NEW t \in Tools, NEW status \in Statuses
    PROVE  ToolDone(t, status) \in Events
BY DEF ToolDone, Events

LEMMA RunDoneType == RunDone \in Events
BY DEF Events

LEMMA EndedType ==
    ASSUME TypeOK, NEW r \in Runs
    PROVE  Ended(r) \in Children
BY ConstantTypes DEF TypeOK, ProcTypeOK, Ended, Children, Idle

LEMMA ProcessType ==
    ASSUME TypeOK, WorkInv, NEW r \in Runs, ProcNext(r)
    PROVE  ProcTypeOK'
<1> USE DEF TypeOK, ProcTypeOK
<1>0. /\ child[r] \in Children
      /\ child[r].at = "install" => child[r].cur \in Tools
  BY DEF WorkInv, Flights
<1>1. CASE ExplainPlans(r)
  <2>1. PICK unread \in SUBSET child[r].todo :
          child' = [child EXCEPT
            ![r].at = "confirm", ![r].missing = FALSE,
            ![r].declined = IF child[r].missing THEN {}
                            ELSE {t \in child[r].todo : ~IsInstalled(t)},
            ![r].before = [t \in Tools |-> IF t \in child[r].todo \ unread
                                          THEN installed[t] ELSE 0]]
    BY <1>1 DEF ExplainPlans
  <2> DEFINE plan == [t \in Tools |-> IF t \in child[r].todo \ unread
                                      THEN installed[t] ELSE 0]
             no == IF child[r].missing THEN {}
                   ELSE {t \in child[r].todo : ~IsInstalled(t)}
             new == [child[r] EXCEPT !.at = "confirm", !.missing = FALSE,
                                     !.declined = no, !.before = plan]
  <2>2. plan \in [Tools -> Versions]
    BY ConstantTypes
  <2>3. no \in SUBSET Tools
    BY <1>0 DEF Children
  <2>4. new \in Children
    <3> HIDE DEF plan, no
    <3> QED BY <1>0, <2>2, <2>3 DEF Children
  <2>5. child' = [child EXCEPT ![r] = new]
    BY <2>1
  <2> QED BY <1>1, <2>4, <2>5 DEF ExplainPlans
<1>2. CASE SkipMissing(r)
  <2>1. PICK t \in child[r].declined :
            /\ Emit(r, ToolDone(t, "skipped_not_installed"))
            /\ child' = [child EXCEPT ![r].todo = @ \ {t}, ![r].declined = @ \ {t}]
    BY <1>2 DEF SkipMissing
  <2>2. t \in Tools
    BY <1>0 DEF Children
  <2>3. pipe' \in [Runs -> Seq(Events)]
    BY <2>1, <2>2, EmitType, ToolDoneType DEF Statuses
  <2>4. [child[r] EXCEPT !.todo = @ \ {t}, !.declined = @ \ {t}] \in Children
    BY <1>0 DEF Children
  <2> QED BY <1>2, <2>1, <2>3, <2>4 DEF SkipMissing
<1>3. CASE StartLoop(r)
  <2>1. [child[r] EXCEPT !.at = "loop"] \in Children
    BY <1>0 DEF Children
  <2> QED BY <1>3, <2>1 DEF StartLoop
<1>4. CASE PassOver(r)
  <2>1. PICK t \in child[r].todo, late \in Late(r),
             status \in {"skipped", "npm_missing"} :
            /\ Emit(r, ToolDone(t, status))
            /\ child' = [child EXCEPT ![r].todo = @ \ {t}, ![r].before[t] = 0,
                                      ![r].late = late /\ child[r].todo # {t},
                                      ![r].failed = @ \union {t}]
    <3> HIDE DEF TypeOK, ProcTypeOK
    <3> QED BY <1>4, Zenon DEF PassOver
  <2> DEFINE still == late /\ child[r].todo # {t}
             new == [child[r] EXCEPT !.todo = @ \ {t}, !.before[t] = 0,
                                     !.late = still, !.failed = @ \union {t}]
  <2>2. t \in Tools
    BY <1>0 DEF Children
  <2>3. pipe' \in [Runs -> Seq(Events)]
    BY <2>1, <2>2, EmitType, ToolDoneType DEF Statuses
  <2>4. still \in BOOLEAN
    OBVIOUS
  <2>5. new \in Children
    <3> HIDE DEF still
    <3> QED BY <1>0, <2>2, <2>4, ConstantTypes DEF Children
  <2>6. child' = [child EXCEPT ![r] = new]
    <3> HIDE DEF TypeOK, ProcTypeOK
    <3> QED BY <2>1
  <2> QED BY <1>4, <2>3, <2>5, <2>6 DEF PassOver
<1>5. CASE StartInstall(r)
  <2>1. PICK t \in child[r].todo :
            child' = [child EXCEPT ![r].at = "install", ![r].cur = t,
                                   ![r].todo = @ \ {t}]
    BY <1>5 DEF StartInstall
  <2> DEFINE new == [child[r] EXCEPT !.at = "install", !.cur = t, !.todo = @ \ {t}]
  <2>2. new \in Children
    BY <1>0 DEF Children
  <2>3. child' = [child EXCEPT ![r] = new]
    <3> HIDE DEF TypeOK, ProcTypeOK
    <3> QED BY <2>1
  <2> HIDE DEF new
  <2> QED BY <1>5, <2>2, <2>3 DEF StartInstall
<1>6. CASE EndInstall(r)
  <2>1. PICK v \in {installed[child[r].cur], Latest}, late \in Late(r),
             err \in BOOLEAN, noChange \in BOOLEAN :
                InstallReports(r, v, late, err, noChange)
    BY <1>6 DEF EndInstall
  <2> DEFINE t == child[r].cur
             status == StatusOf(err, noChange, child[r].before[t],
                                IF late THEN 0 ELSE v)
             still == late /\ child[r].todo # {}
             new == [child[r] EXCEPT
                        !.at = "loop", !.cur = NoTool, !.before[t] = 0, !.late = still,
                        !.failed = IF status = "failed" THEN @ \union {t} ELSE @]
  <2>2. t \in Tools
    BY <1>0, <1>6 DEF EndInstall
  <2>3. status \in Statuses
    BY DEF StatusOf, Statuses
  <2>4. still \in BOOLEAN
    OBVIOUS
  <2>5. child' = [child EXCEPT ![r] = new]
    <3> HIDE DEF TypeOK, ProcTypeOK
    <3> QED BY <2>1, ZenonT(30) DEF InstallReports
  <2>6. pipe' \in [Runs -> Seq(Events)]
    <3>1. Emit(r, ToolDone(t, status))
      BY <2>1 DEF InstallReports
    <3> HIDE DEF t, status
    <3> QED BY <2>2, <2>3, <3>1, EmitType, ToolDoneType
  <2>7. installed' \in [Tools -> Versions]
    BY <2>1, <2>2, ConstantTypes DEF InstallReports
  <2>8. new \in Children
    <3> HIDE DEF still, status, t
    <3> QED BY <1>0, <2>2, <2>4, ConstantTypes DEF Children
  <2> QED BY <1>6, <2>5, <2>6, <2>7, <2>8 DEF EndInstall
<1>7. CASE FinishRun(r)
  BY <1>7, EmitType, RunDoneType, EndedType DEF FinishRun
<1>8. CASE Die(r)
  BY <1>0, <1>8, EndedType DEF Die, Kill
<1> QED BY <1>1, <1>2, <1>3, <1>4, <1>5, <1>6, <1>7, <1>8 DEF ProcNext

\* What the store's own steps do to the flight of one run.
LEMMA SpawnType ==
    ASSUME TypeOK, NEW r \in Runs, NEW ts \in SUBSET Tools, NEW m \in BOOLEAN,
           NEW all \in BOOLEAN, TakeOff(r, all, ts), Spawn(r, ts, m)
    PROVE  /\ child' \in [Runs -> Children] /\ flight' \in [Runs -> Flights]
           /\ starts' \in 0..MaxStarts
<1>1. [Idle EXCEPT !.at = "detect", !.todo = ts, !.missing = m] \in Children
  BY ConstantTypes DEF Children
<1>2. [NoFlight EXCEPT !.on = TRUE, !.all = all, !.tools = ts, !.watched = TRUE]
        \in Flights
  BY ConstantTypes DEF Flights
<1>3. starts' \in 0..MaxStarts
  BY BoundAssumption DEF TakeOff, TypeOK
<1> QED BY <1>1, <1>2, <1>3 DEF TakeOff, Spawn, TypeOK, ProcTypeOK

LEMMA ThrewType ==
    ASSUME TypeOK, NEW r \in Runs
    PROVE  [flight EXCEPT ![r].threw = TRUE] \in [Runs -> Flights]
<1>1. [flight[r] EXCEPT !.threw = TRUE] \in Flights
  BY DEF TypeOK, Flights
<1> QED BY <1>1 DEF TypeOK

LEMMA EventTypes ==
    ASSUME NEW e \in Events
    PROVE  \/ e.event = "tool_done" /\ e.tool \in Tools /\ e.status \in Statuses
           \/ e.event = "run_done"
BY DEF Events, RunDone

LEMMA TakeEventType ==
    ASSUME TypeOK, NEW r \in Runs, TakeEvent(r)
    PROVE  TypeOK'
<1> DEFINE e == Head(pipe[r])
<1>1. e \in Events /\ Tail(pipe[r]) \in Seq(Events)
  BY DEF TakeEvent, TypeOK, ProcTypeOK
<1>2. pipe' \in [Runs -> Seq(Events)]
  BY <1>1 DEF TakeEvent, TypeOK, ProcTypeOK
<1>3. /\ toolUpdateStates' \in [Tools -> Chips] /\ outdated' \in SUBSET Tools
      /\ flight' \in [Runs -> Flights]
  <2> HIDE DEF e
  <2>1. CASE e.event = "tool_done" /\ ApplyToolDone(r, e.tool, e.status)
    <3>1. e.tool \in Tools /\ e.status \in Statuses
      BY <1>1, <2>1, EventTypes
    <3>2. Chip(e.status) \in Chips
      BY DEF Chip, Chips
    <3>3. [flight[r] EXCEPT !.failures =
                IF Chip(e.status) = "failed" THEN @ \union {e.tool} ELSE @] \in Flights
      BY <3>1 DEF TypeOK, Flights
    <3> QED BY <2>1, <3>1, <3>2, <3>3 DEF ApplyToolDone, TypeOK
  <2>2. CASE /\ flight' = [flight EXCEPT ![r].sawRunDone = TRUE]
             /\ UNCHANGED << toolUpdateStates, outdated >>
    <3>1. [flight[r] EXCEPT !.sawRunDone = TRUE] \in Flights
      BY DEF TypeOK, Flights
    <3> QED BY <2>2, <3>1 DEF TypeOK
  <2> QED BY <2>1, <2>2 DEF TakeEvent, ApplyEvent, e
<1> QED BY <1>2, <1>3 DEF TakeEvent, TypeOK, ProcTypeOK

LEMMA LandType ==
    ASSUME TypeOK, NEW r \in Runs, Land(r), failureReport' \in SUBSET Tools
    PROVE  TypeOK'
<1>1. child' \in [Runs -> Children] /\ flight' \in [Runs -> Flights]
  BY ConstantTypes DEF Land, TypeOK, ProcTypeOK
<1>2. toolUpdateStates' \in [Tools -> Chips]
  BY DEF Land, ResetChips, TypeOK, Chips
<1>3. singleUpdates' \in SUBSET Tools /\ isAgentUpdating' \in BOOLEAN
  BY DEF Land, EndRunFlight, TypeOK
<1> QED BY <1>1, <1>2, <1>3 DEF Land, TypeOK, ProcTypeOK

LEMMA TypeStep == TypeOK /\ WorkInv /\ [Next]_vars => TypeOK'
<1> SUFFICES ASSUME TypeOK, WorkInv, [Next]_vars PROVE TypeOK'
  OBVIOUS
<1>1. CASE Process /\ UNCHANGED uiVars
  <2>1. ASSUME NEW r \in Runs, ProcNext(r) PROVE ProcTypeOK'
    BY <2>1, ProcessType
  <2>2. ASSUME StrayEnds PROVE ProcTypeOK'
    BY <2>2, ConstantTypes DEF StrayEnds, TypeOK, ProcTypeOK
  <2>3. ASSUME CollectLatestVersions PROVE ProcTypeOK'
    BY <2>3 DEF CollectLatestVersions, TypeOK, ProcTypeOK
  <2> QED BY <1>1, <2>1, <2>2, <2>3 DEF Process, uiVars, TypeOK
<1>2. ASSUME NEW r \in Runs, NEW ts \in (SUBSET Tools) \ {{}}, NEW m \in BOOLEAN,
             RunAll(r, ts, m)
      PROVE  TypeOK'
  <2>1. toolUpdateStates' \in [Tools -> Chips]
    BY <1>2 DEF RunAll, Chips
  <2>2. /\ child' \in [Runs -> Children] /\ flight' \in [Runs -> Flights]
        /\ starts' \in 0..MaxStarts
    BY <1>2, SpawnType DEF RunAll
  <2> QED BY <1>2, <2>1, <2>2 DEF RunAll, TypeOK, ProcTypeOK
<1>3. ASSUME NEW r \in Runs, NEW t \in Tools, RunRow(r, t) PROVE TypeOK'
  <2>1. toolUpdateStates' \in [Tools -> Chips]
    BY <1>3 DEF RunRow, TypeOK, Chips
  <2>2. /\ child' \in [Runs -> Children] /\ flight' \in [Runs -> Flights]
        /\ starts' \in 0..MaxStarts
    BY <1>3, SpawnType DEF RunRow
  <2> QED BY <1>3, <2>1, <2>2 DEF RunRow, TypeOK, ProcTypeOK
<1>4. ASSUME NEW r \in Runs, LaunchFails(r) PROVE TypeOK'
  <2>1. child' \in [Runs -> Children]
    BY <1>4, EndedType DEF LaunchFails, TypeOK, ProcTypeOK
  <2>2. flight' \in [Runs -> Flights]
    BY <1>4, ThrewType DEF LaunchFails
  <2> QED BY <1>4, <2>1, <2>2 DEF LaunchFails, TypeOK, ProcTypeOK
<1>5. ASSUME NEW r \in Runs, Watchdog(r) PROVE TypeOK'
  <2>1. child' \in [Runs -> Children]
    BY <1>5, EndedType DEF Watchdog, Kill, TypeOK, ProcTypeOK
  <2>2. strays' \in SUBSET Tools
    <3>1. child[r].at = "install" => child[r].cur \in Tools
      BY DEF WorkInv, TypeOK, Flights
    <3> QED BY <1>5, <3>1 DEF Watchdog, Kill, TypeOK, ProcTypeOK
  <2>3. flight' \in [Runs -> Flights]
    BY <1>5, ThrewType DEF Watchdog
  <2> QED BY <1>5, <2>1, <2>2, <2>3 DEF Watchdog, TypeOK, ProcTypeOK
<1>6. ASSUME NEW r \in Runs, TakeEvent(r) PROVE TypeOK'
  BY <1>6, TakeEventType
<1>7. ASSUME NEW r \in Runs, FinalizeAgentUpdate(r) PROVE TypeOK'
  <2>1. failureReport' \in SUBSET Tools
    BY <1>7 DEF FinalizeAgentUpdate, TypeOK, Flights
  <2> QED BY <1>7, <2>1, LandType DEF FinalizeAgentUpdate
<1>8. ASSUME NEW r \in Runs, RunThrew(r) PROVE TypeOK'
  <2>1. failureReport' \in SUBSET Tools
    BY <1>8 DEF RunThrew, TypeOK
  <2> QED BY <1>8, <2>1, LandType DEF RunThrew
<1>9. CASE OpenWindow
  <2>1. opens' \in 0..MaxOpens
    BY <1>9, BoundAssumption DEF OpenWindow, TypeOK
  <2> QED BY <1>9, <2>1 DEF OpenWindow, TypeOK, ProcTypeOK, procVars
<1>10. CASE CheckAgentVersions
  BY <1>10 DEF CheckAgentVersions, TypeOK, ProcTypeOK, NoProbe
<1>11. CASE TakeCheckEvent
  <2>1. PICK t \in probe.left :
          /\ outdated' = IF t \in probe.behind THEN outdated \union {t}
                                              ELSE outdated \ {t}
          /\ probe' = [probe EXCEPT !.left = @ \ {t}, !.behind = @ \ {t}]
    BY <1>11 DEF TakeCheckEvent
  <2>2. outdated' \in SUBSET Tools
    BY <2>1 DEF TypeOK, ProcTypeOK
  <2> QED BY <1>11, <2>1, <2>2 DEF TakeCheckEvent, TypeOK, ProcTypeOK
<1>12. CASE CloseWindow
  <2>1. flight' \in [Runs -> Flights]
    BY <1>12 DEF CloseWindow, TypeOK, Flights
  <2>2. toolUpdateStates' \in [Tools -> Chips]
    BY <1>12 DEF CloseWindow, Chips
  <2> QED BY <1>12, <2>1, <2>2 DEF CloseWindow, TypeOK, ProcTypeOK, procVars
<1>13. CASE DismissFailureReport
  BY <1>13 DEF DismissFailureReport, TypeOK, ProcTypeOK, procVars
<1>14. CASE EndCheck
  BY <1>14 DEF EndCheck, TypeOK, ProcTypeOK, NoProbe
<1>15. CASE UNCHANGED vars
  BY <1>15 DEF vars, procVars, uiVars, TypeOK, ProcTypeOK
<1> QED BY <1>1, <1>2, <1>3, <1>4, <1>5, <1>6, <1>7, <1>8, <1>9, <1>10, <1>11,
           <1>12, <1>13, <1>14, <1>15 DEF Next

-----------------------------------------------------------------------------
(* Who owns a row.                                                         *)

\* A step that starts and ends no run and makes no chip spin disturbs nothing.
SameFlights == \A r \in Runs :
    /\ flight'[r].on = flight[r].on
    /\ flight'[r].all = flight[r].all
    /\ flight'[r].tools = flight[r].tools
NoNewSpin == \A t \in Tools :
    toolUpdateStates'[t] = "updating" => toolUpdateStates[t] = "updating"

LEMMA SameOwners ==
    ASSUME OwnersInv, SameFlights, NoNewSpin,
           UNCHANGED << isAgentUpdating, singleUpdates >>
    PROVE  OwnersInv'
<1> USE DEF OwnersInv, SameFlights
<1>1. FlagInv'
  BY DEF FlagInv
<1>2. RowInv'
  BY DEF RowInv
<1>3. AloneInv' /\ OwnerInv'
  BY DEF AloneInv, OwnerInv
<1>4. ChipInv'
  BY DEF ChipInv, NoNewSpin
<1>5. ScopeInv'
  BY DEF ScopeInv
<1> QED BY <1>1, <1>2, <1>3, <1>4, <1>5

\* While no flag is up, nothing is in flight.
LEMMA NothingInFlight ==
    ASSUME TypeOK, OwnersInv, ~isAgentUpdating, singleUpdates = {}
    PROVE  \A r \in Runs : ~flight[r].on
<1> SUFFICES ASSUME NEW r \in Runs, flight[r].on PROVE FALSE
  OBVIOUS
<1>1. ~flight[r].all
  BY DEF OwnersInv, FlagInv
<1>2. PICK t \in flight[r].tools : TRUE
  BY DEF OwnersInv, ScopeInv
<1>3. t \in Tools
  BY DEF TypeOK, Flights
<1> QED BY <1>1, <1>2, <1>3 DEF OwnersInv, RowInv

LEMMA RunAllOwners ==
    ASSUME TypeOK, OwnersInv, NEW r \in Runs, NEW ts \in (SUBSET Tools) \ {{}},
           NEW m \in BOOLEAN, RunAll(r, ts, m)
    PROVE  OwnersInv'
<1>1. \A s \in Runs : ~flight[s].on
  BY NothingInFlight DEF RunAll
<1>2. /\ flight'[r].on /\ flight'[r].all /\ flight'[r].tools = ts
      /\ \A s \in Runs \ {r} : ~flight'[s].on
  BY <1>1 DEF RunAll, TakeOff, NoFlight, TypeOK
<1>3. isAgentUpdating' /\ singleUpdates' = {}
  BY DEF RunAll
<1>4. FlagInv' /\ ScopeInv'
  BY <1>2, <1>3 DEF FlagInv, ScopeInv
<1>5. RowInv'
  BY <1>2, <1>3 DEF RowInv
<1>6. AloneInv' /\ OwnerInv'
  BY <1>2 DEF AloneInv, OwnerInv
<1>7. ChipInv'
  BY <1>2 DEF ChipInv, RunAll
<1> QED BY <1>4, <1>5, <1>6, <1>7 DEF OwnersInv

LEMMA RunRowOwners ==
    ASSUME TypeOK, OwnersInv, NEW r \in Runs, NEW t \in Tools, RunRow(r, t)
    PROVE  OwnersInv'
<1>1. /\ flight'[r].on /\ ~flight'[r].all /\ flight'[r].tools = {t}
      /\ \A s \in Runs \ {r} : flight'[s] = flight[s]
  BY DEF RunRow, TakeOff, NoFlight, TypeOK
<1>2. ~flight[r].on /\ \A s \in Runs : flight[s].on => ~flight[s].all
  BY DEF RunRow, OwnersInv, FlagInv
<1>3. \A s \in Runs : flight[s].on => t \notin flight[s].tools
  BY <1>2 DEF RunRow, OwnersInv, RowInv
<1>4. FlagInv'
  BY <1>1, <1>2 DEF FlagInv, RunRow
<1>5. ScopeInv'
  BY <1>1 DEF OwnersInv, ScopeInv
<1>6. RowInv'
  <2> SUFFICES ASSUME NEW u \in Tools
               PROVE  u \in singleUpdates' <=> \E s \in Runs :
                        flight'[s].on /\ ~flight'[s].all /\ u \in flight'[s].tools
    BY DEF RowInv
  <2>1. CASE u = t
    BY <1>1, <2>1 DEF RunRow
  <2>2. CASE u # t
    BY <1>1, <1>2, <2>2 DEF RunRow, OwnersInv, RowInv
  <2> QED BY <2>1, <2>2
<1>7. AloneInv'
  BY <1>1, <1>2 DEF AloneInv
<1>8. OwnerInv'
  BY <1>1, <1>2, <1>3 DEF OwnersInv, OwnerInv
<1>9. ChipInv'
  <2> SUFFICES ASSUME NEW u \in Tools, toolUpdateStates'[u] = "updating"
               PROVE  \E s \in Runs : flight'[s].on /\ u \in flight'[s].tools
    BY DEF ChipInv
  <2>1. CASE u = t
    BY <1>1, <2>1
  <2>2. CASE u # t
    BY <1>1, <1>2, <2>2 DEF RunRow, TypeOK, OwnersInv, ChipInv
  <2> QED BY <2>1, <2>2
<1> QED BY <1>4, <1>5, <1>6, <1>7, <1>8, <1>9 DEF OwnersInv

LEMMA LandOwners ==
    ASSUME TypeOK, OwnersInv, NEW r \in Runs, Land(r)
    PROVE  OwnersInv'
<1>1. /\ ~flight'[r].on /\ \A s \in Runs \ {r} : flight'[s] = flight[s]
      /\ flight[r].on
  BY DEF Land, NoFlight, TypeOK
<1>2. FlagInv'
  <2>1. CASE flight[r].all
    BY <1>1, <2>1 DEF Land, EndRunFlight, OwnersInv, AloneInv, FlagInv
  <2>2. CASE ~flight[r].all
    BY <1>1, <2>2 DEF Land, EndRunFlight, OwnersInv, FlagInv
  <2> QED BY <2>1, <2>2
<1>3. RowInv'
  <2> SUFFICES ASSUME NEW t \in Tools
               PROVE  t \in singleUpdates' <=> \E s \in Runs :
                        flight'[s].on /\ ~flight'[s].all /\ t \in flight'[s].tools
    BY DEF RowInv
  <2>1. CASE flight[r].all
    BY <1>1, <2>1 DEF Land, EndRunFlight, OwnersInv, RowInv
  <2>2. CASE ~flight[r].all /\ t \in flight[r].tools
    BY <1>1, <2>2 DEF Land, EndRunFlight, OwnersInv, OwnerInv
  <2>3. CASE ~flight[r].all /\ t \notin flight[r].tools
    BY <1>1, <2>3 DEF Land, EndRunFlight, OwnersInv, RowInv
  <2> QED BY <2>1, <2>2, <2>3
<1>4. AloneInv' /\ OwnerInv' /\ ScopeInv'
  BY <1>1 DEF OwnersInv, AloneInv, OwnerInv, ScopeInv
<1>5. ChipInv'
  BY <1>1 DEF Land, ResetChips, TypeOK, OwnersInv, ChipInv
<1> QED BY <1>2, <1>3, <1>4, <1>5 DEF OwnersInv

-----------------------------------------------------------------------------
(* What the processes still have to do.                                    *)

\* A process takes on nothing new, and works only where a run is in flight.
LEMMA ProcessWork ==
    ASSUME TypeOK, WorkInv, NEW r \in Runs, ProcNext(r), UNCHANGED flight
    PROVE  WorkInv'
<1> USE DEF TypeOK, ProcTypeOK
<1>1. SUFFICES /\ child[r].at # "off"
               /\ \A s \in Runs \ {r} : child'[s] = child[s]
               /\ child'[r].todo \subseteq child[r].todo
               /\ child'[r].at = "install" => child'[r].cur \in child[r].todo
  BY <1>1 DEF WorkInv
<1>2. CASE ExplainPlans(r)
  <2>1. PICK no, plan :
            child' = [child EXCEPT ![r].at = "confirm", ![r].missing = FALSE,
                                   ![r].declined = no, ![r].before = plan]
    BY <1>2 DEF ExplainPlans
  <2>2. child'[r].todo = child[r].todo /\ child'[r].at = "confirm"
    BY <2>1 DEF Children
  <2>3. \A s \in Runs \ {r} : child'[s] = child[s]
    BY <2>1
  <2> QED BY <1>2, <2>2, <2>3 DEF ExplainPlans
<1>3. CASE SkipMissing(r)
  BY <1>3 DEF SkipMissing
<1>4. CASE StartLoop(r)
  BY <1>4 DEF StartLoop
<1>5. CASE PassOver(r)
  <2>1. PICK t \in child[r].todo, late \in Late(r) :
            child' = [child EXCEPT ![r].todo = @ \ {t}, ![r].before[t] = 0,
                                   ![r].late = late /\ child[r].todo # {t},
                                   ![r].failed = @ \union {t}]
    <3> HIDE DEF TypeOK, ProcTypeOK
    <3> QED BY <1>5, Zenon DEF PassOver
  <2>2. child'[r].todo = child[r].todo \ {t} /\ child'[r].at = child[r].at
    <3> DEFINE new == [child[r] EXCEPT
                 !.todo = @ \ {t}, !.before[t] = 0,
                 !.late = late /\ child[r].todo # {t}, !.failed = @ \union {t}]
    <3>1. child' = [child EXCEPT ![r] = new]
      <4> HIDE DEF TypeOK, ProcTypeOK
      <4> QED BY <2>1
    <3>2. new.todo = child[r].todo \ {t} /\ new.at = child[r].at
      BY DEF Children
    <3> QED BY <3>1, <3>2
  <2>3. \A s \in Runs \ {r} : child'[s] = child[s]
    BY <2>1
  <2> QED BY <1>5, <2>2, <2>3 DEF PassOver
<1>6. CASE StartInstall(r)
  BY <1>6 DEF StartInstall
<1>7. CASE EndInstall(r)
  <2>1. PICK v, late, err, noChange : InstallReports(r, v, late, err, noChange)
    BY <1>7 DEF EndInstall
  <2>2. child'[r].todo = child[r].todo /\ child'[r].at = "loop"
    <3> DEFINE t == child[r].cur
               status == StatusOf(err, noChange, child[r].before[t],
                                  IF late THEN 0 ELSE v)
               on == late /\ child[r].todo # {}
               bad == IF status = "failed" THEN child[r].failed \union {t}
                                           ELSE child[r].failed
               new == [child[r] EXCEPT
                 !.at = "loop", !.cur = NoTool, !.before[t] = 0,
                 !.late = on, !.failed = bad]
    <3>1. child' = [child EXCEPT
                      ![r].at = "loop", ![r].cur = NoTool, ![r].before[t] = 0,
                      ![r].late = on, ![r].failed = bad]
      BY <2>1, Zenon DEF InstallReports
    <3> HIDE DEF t, status, on, bad
    <3>2. child' = [child EXCEPT ![r] = new]
      <4> HIDE DEF TypeOK, ProcTypeOK
      <4> QED BY <3>1
    <3>3. new.todo = child[r].todo /\ new.at = "loop"
      BY DEF Children
    <3> QED BY <3>2, <3>3
  <2>3. \A s \in Runs \ {r} : child'[s] = child[s]
    BY <2>1 DEF InstallReports
  <2> QED BY <1>7, <2>2, <2>3 DEF EndInstall
<1>8. CASE FinishRun(r)
  BY <1>8 DEF FinishRun, Ended, Idle
<1>9. CASE Die(r)
  BY <1>9 DEF Die, Running, Kill, Ended, Idle
<1> QED BY <1>2, <1>3, <1>4, <1>5, <1>6, <1>7, <1>8, <1>9 DEF ProcNext

\* A new process starts with the providers of its run.
LEMMA SpawnWork ==
    ASSUME TypeOK, WorkInv, NEW r \in Runs, NEW ts \in SUBSET Tools,
           NEW m \in BOOLEAN, NEW all \in BOOLEAN, TakeOff(r, all, ts), Spawn(r, ts, m)
    PROVE  WorkInv'
<1>1. /\ flight'[r].on /\ flight'[r].tools = ts
      /\ child'[r].at = "detect" /\ child'[r].todo = ts
  BY DEF TakeOff, Spawn, Idle, NoFlight, TypeOK, ProcTypeOK
<1>2. \A s \in Runs \ {r} : flight'[s] = flight[s] /\ child'[s] = child[s]
  BY DEF TakeOff, Spawn, TypeOK, ProcTypeOK
<1> QED BY <1>1, <1>2 DEF WorkInv

\* A process that is killed or never started leaves nothing to do.
LEMMA EndedWork ==
    ASSUME TypeOK, WorkInv, NEW r \in Runs, flight[r].on, SameFlights,
           child' = [child EXCEPT ![r] = Ended(r)] \/ UNCHANGED child
    PROVE  WorkInv'
<1>1. \/ child'[r].at = "gone" /\ child'[r].todo = {}
      \/ child'[r] = child[r]
  <2>1. Ended(r).at = "gone" /\ Ended(r).todo = {}
    BY DEF Ended, Idle
  <2>2. child'[r] = Ended(r) \/ child'[r] = child[r]
    BY DEF TypeOK, ProcTypeOK
  <2> QED BY <2>1, <2>2
<1>2. \A s \in Runs \ {r} : child'[s] = child[s]
  BY DEF TypeOK, ProcTypeOK
<1> QED BY <1>1, <1>2 DEF WorkInv, SameFlights

LEMMA LandWork ==
    ASSUME TypeOK, WorkInv, NEW r \in Runs, Land(r)
    PROVE  WorkInv'
<1>1. child'[r].at = "off" /\ child'[r].todo = {}
  BY DEF Land, Idle, TypeOK, ProcTypeOK
<1>2. \A s \in Runs \ {r} : flight'[s] = flight[s] /\ child'[s] = child[s]
  BY DEF Land, TypeOK, ProcTypeOK
<1> QED BY <1>1, <1>2 DEF WorkInv

\* Each step keeps the owners and the work.
LEMMA OwnersStep ==
    IInv /\ [Next]_vars => OwnersInv' /\ WorkInv'
<1> SUFFICES ASSUME IInv, [Next]_vars PROVE OwnersInv' /\ WorkInv'
  OBVIOUS
<1> USE DEF IInv
<1>0. ASSUME UNCHANGED flight PROVE SameFlights
  BY <1>0 DEF SameFlights
<1>1. ASSUME UNCHANGED << flight, child >> PROVE WorkInv'
  BY <1>1 DEF WorkInv
<1>2. ASSUME UNCHANGED toolUpdateStates PROVE NoNewSpin
  BY <1>2 DEF NoNewSpin
<1>3. CASE Process /\ UNCHANGED uiVars
  <2>1. OwnersInv'
    BY <1>0, <1>2, <1>3, SameOwners DEF uiVars
  <2>2. ASSUME NEW r \in Runs, ProcNext(r) PROVE WorkInv'
    BY <1>3, <2>2, ProcessWork DEF uiVars
  <2>3. ASSUME StrayEnds PROVE WorkInv'
    BY <1>1, <1>3, <2>3 DEF StrayEnds, uiVars
  <2>4. ASSUME CollectLatestVersions PROVE WorkInv'
    BY <1>1, <1>3, <2>4 DEF CollectLatestVersions, uiVars
  <2> QED BY <1>3, <2>1, <2>2, <2>3, <2>4 DEF Process
<1>4. ASSUME NEW r \in Runs, NEW ts \in (SUBSET Tools) \ {{}}, NEW m \in BOOLEAN,
             RunAll(r, ts, m)
      PROVE  OwnersInv' /\ WorkInv'
  <2>1. WorkInv'
    BY <1>4, SpawnWork DEF RunAll
  <2> QED BY <1>4, <2>1, RunAllOwners
<1>5. ASSUME NEW r \in Runs, NEW t \in Tools, RunRow(r, t)
      PROVE  OwnersInv' /\ WorkInv'
  <2>1. WorkInv'
    BY <1>5, SpawnWork DEF RunRow
  <2> QED BY <1>5, <2>1, RunRowOwners
<1>6. ASSUME NEW r \in Runs, LaunchFails(r) \/ Watchdog(r)
      PROVE  OwnersInv' /\ WorkInv'
  <2>1. /\ SameFlights /\ flight[r].on
        /\ UNCHANGED << toolUpdateStates, isAgentUpdating, singleUpdates >>
    <3>1. flight' = [flight EXCEPT ![r].threw = TRUE] /\ flight[r].on
      BY <1>6 DEF LaunchFails, Watchdog
    <3>2. SameFlights
      BY <3>1 DEF SameFlights, TypeOK, Flights
    <3> QED BY <1>6, <3>1, <3>2 DEF LaunchFails, Watchdog
  <2>2. child' = [child EXCEPT ![r] = Ended(r)] \/ UNCHANGED child
    BY <1>6 DEF LaunchFails, Watchdog, Kill
  <2> QED BY <1>2, <2>1, <2>2, SameOwners, EndedWork
<1>7. ASSUME NEW r \in Runs, TakeEvent(r) PROVE OwnersInv' /\ WorkInv'
  <2> DEFINE e == Head(pipe[r])
  <2>1. SameFlights
    <3>1. \/ UNCHANGED flight
          \/ \E set : flight' = [flight EXCEPT ![r].failures = set]
          \/ flight' = [flight EXCEPT ![r].sawRunDone = TRUE]
      BY <1>7 DEF TakeEvent, ApplyEvent, ApplyToolDone
    <3> QED BY <3>1 DEF SameFlights, TypeOK, Flights
  <2>2. NoNewSpin
    BY <1>7 DEF TakeEvent, ApplyEvent, ApplyToolDone, Chip, NoNewSpin, TypeOK
  <2>3. flight[r].on /\ UNCHANGED << child, isAgentUpdating, singleUpdates >>
    BY <1>7 DEF TakeEvent
  <2> QED BY <2>1, <2>2, <2>3, SameOwners, EndedWork
<1>8. ASSUME NEW r \in Runs, Land(r) PROVE OwnersInv' /\ WorkInv'
  BY <1>8, LandOwners, LandWork
<1>9. CASE \/ OpenWindow \/ CheckAgentVersions \/ TakeCheckEvent \/ EndCheck
            \/ DismissFailureReport
  <2>1. UNCHANGED << flight, child, toolUpdateStates, isAgentUpdating, singleUpdates >>
    BY <1>9 DEF OpenWindow, CheckAgentVersions, TakeCheckEvent, EndCheck,
                DismissFailureReport, procVars
  <2> QED BY <1>0, <1>1, <1>2, <2>1, SameOwners
<1>10. CASE CloseWindow
  <2>1. /\ SameFlights /\ NoNewSpin
        /\ UNCHANGED << child, isAgentUpdating, singleUpdates >>
    BY <1>10 DEF CloseWindow, SameFlights, NoNewSpin, TypeOK, Flights, procVars
  <2>2. WorkInv'
    BY <2>1 DEF WorkInv, SameFlights
  <2> QED BY <2>1, <2>2, SameOwners
<1>11. CASE UNCHANGED vars
  BY <1>0, <1>1, <1>2, <1>11, SameOwners DEF vars, procVars, uiVars
<1> QED BY <1>3, <1>4, <1>5, <1>6, <1>7, <1>8, <1>9, <1>10, <1>11
        DEF Next, FinalizeAgentUpdate, RunThrew

-----------------------------------------------------------------------------
(* The theorems.                                                           *)

LEMMA InvInit == Init => IInv
<1> SUFFICES ASSUME Init PROVE IInv
  OBVIOUS
<1>1. \A r \in Runs : ~flight[r].on /\ child[r].at = "off" /\ child[r].todo = {}
  BY DEF Init, ProcInit, NoFlight, Idle
<1>2. OwnersInv
  BY <1>1 DEF Init, OwnersInv, FlagInv, RowInv, AloneInv, OwnerInv, ChipInv, ScopeInv
<1>3. WorkInv
  BY <1>1 DEF WorkInv
<1> QED BY <1>2, <1>3, TypeInit DEF IInv

\* The invariant that carries every result of this module.
THEOREM Inductive == Spec => []IInv
<1>1. IInv /\ [Next]_vars => IInv'
  BY TypeStep, OwnersStep DEF IInv
<1> QED BY <1>1, InvInit, PTL DEF Spec

\* Type correctness of the store, its windows, its runs and their processes.
THEOREM TypeCorrect == Spec => []TypeOK
<1>1. IInv => TypeOK
  BY DEF IInv
<1> QED BY <1>1, Inductive, PTL

\* Nothing holds a row but a run in flight that owns it, for any number of
\* providers, parallel runs, windows and lost or late events.
THEOREM RowsAreOwned == Spec => []HeldRowsAreOwned
<1>1. IInv => HeldRowsAreOwned
  BY DEF IInv, OwnersInv, FlagInv, RowInv, ChipInv, HeldRowsAreOwned, Held, Owned
<1> QED BY <1>1, Inductive, PTL

-----------------------------------------------------------------------------
(* The store implements the slots.                                         *)

Holders == [t \in Tools |-> {r \in Runs : flight[r].on /\ t \in flight[r].tools}]
Sweeping == {r \in Runs : flight[r].on /\ flight[r].all}

LEMMA SlotsInit == Init => Slots!Init
<1> SUFFICES ASSUME Init PROVE Slots!Init
  OBVIOUS
<1>1. \A r \in Runs : ~flight[r].on
  BY DEF Init, NoFlight
<1>2. installed \in [Tools -> Nat]
  BY TypeInit, ConstantTypes DEF TypeOK, ProcTypeOK
<1> QED BY <1>1, <1>2 DEF Init, ProcInit, Slots!Init

\* A step that starts and ends no run leaves every slot with its holder.
LEMMA SameHolders ==
    ASSUME SameFlights PROVE UNCHANGED << Holders, Sweeping >>
BY DEF SameFlights, Holders, Sweeping

LEMMA InstallStep ==
    ASSUME IInv, NEW r \in Runs, EndInstall(r), IInv', SameFlights
    PROVE  Slots!Install(child[r].cur) /\ child[r].cur \in Tools
<1> DEFINE t == child[r].cur
<1>1. /\ flight[r].on /\ t \in flight[r].tools /\ t \in Tools
  BY DEF EndInstall, IInv, WorkInv, TypeOK, Flights
<1>2. Holders[t] # {}
  BY <1>1 DEF Holders
<1>3. PICK v, late, err, noChange : InstallReports(r, v, late, err, noChange)
  BY DEF EndInstall
<1>4. installed' = [installed EXCEPT ![t] = v]
  BY <1>3 DEF InstallReports
<1>5. installed' \in [Tools -> Nat] /\ \A u \in Tools \ {t} : installed'[u] = installed[u]
  BY <1>4, ConstantTypes DEF IInv, TypeOK, ProcTypeOK
<1>6. UNCHANGED << strays, Holders, Sweeping >>
  BY SameHolders DEF EndInstall
<1> QED BY <1>1, <1>2, <1>5, <1>6 DEF Slots!Install, Holders, Sweeping

LEMMA KillStep ==
    ASSUME IInv, NEW r \in Runs, Running(r), Kill(r), UNCHANGED installed, SameFlights
    PROVE  [Slots!Next]_Slots!vars
<1> DEFINE t == child[r].cur
<1>1. UNCHANGED << Holders, Sweeping >>
  BY SameHolders
<1>2. CASE child[r].at = "install"
  <2>1. flight[r].on /\ t \in flight[r].tools /\ t \in Tools
    BY <1>2 DEF IInv, WorkInv, TypeOK, Flights
  <2>2. Holders[t] # {}
    BY <2>1 DEF Holders
  <2>3. Slots!Stray(t)
    BY <1>1, <1>2, <2>2 DEF Kill, Slots!Stray, Holders, Sweeping
  <2> QED BY <2>1, <2>3 DEF Slots!Next
<1>3. CASE child[r].at # "install"
  BY <1>1, <1>3 DEF Kill, Slots!vars, Holders, Sweeping
<1> QED BY <1>2, <1>3

LEMMA StrayStep ==
    ASSUME IInv, IInv', StrayEnds, SameFlights
    PROVE  Slots!Next
<1>1. PICK t \in strays, changed \in BOOLEAN :
        /\ strays' = strays \ {t}
        /\ installed' = IF changed THEN [installed EXCEPT ![t] = Latest] ELSE installed
  BY DEF StrayEnds
<1>2. t \in Tools
  BY DEF IInv, TypeOK, ProcTypeOK
<1>3. installed' \in [Tools -> Nat] /\ \A u \in Tools \ {t} : installed'[u] = installed[u]
  BY <1>1, ConstantTypes DEF IInv, TypeOK, ProcTypeOK
<1>4. UNCHANGED << Holders, Sweeping >>
  BY SameHolders
<1>5. Slots!Install(t)
  BY <1>1, <1>3, <1>4 DEF Slots!Install, Holders, Sweeping
<1> QED BY <1>2, <1>5 DEF Slots!Next

LEMMA ClaimAllStep ==
    ASSUME IInv, NEW r \in Runs, NEW ts \in (SUBSET Tools) \ {{}}, NEW m \in BOOLEAN,
           RunAll(r, ts, m)
    PROVE  Slots!Next
<1>1. \A s \in Runs : ~flight[s].on
  BY NothingInFlight DEF RunAll, IInv
<1>2. /\ flight'[r].on /\ flight'[r].all /\ flight'[r].tools = ts
      /\ \A s \in Runs \ {r} : ~flight'[s].on
  BY <1>1 DEF RunAll, TakeOff, NoFlight, IInv, TypeOK
<1>3. Sweeping = {} /\ \A t \in Tools : Holders[t] = {}
  BY <1>1 DEF Sweeping, Holders
<1>4. Sweeping' = {r} /\ Holders' = [t \in Tools |-> IF t \in ts THEN {r} ELSE {}]
  BY <1>2 DEF Sweeping, Holders
<1>5. Slots!ClaimAll(r, ts)
  BY <1>3, <1>4 DEF RunAll, Slots!ClaimAll, Sweeping, Holders
<1> QED BY <1>5 DEF Slots!Next

LEMMA ClaimRowStep ==
    ASSUME IInv, NEW r \in Runs, NEW t \in Tools, RunRow(r, t)
    PROVE  Slots!Next
<1>1. /\ flight'[r].on /\ ~flight'[r].all /\ flight'[r].tools = {t}
      /\ \A s \in Runs \ {r} : flight'[s] = flight[s]
  BY DEF RunRow, TakeOff, NoFlight, IInv, TypeOK
<1>2. ~flight[r].on /\ \A s \in Runs : flight[s].on => ~flight[s].all
  BY DEF RunRow, IInv, OwnersInv, FlagInv
<1>3. \A s \in Runs : flight[s].on => t \notin flight[s].tools
  BY <1>2 DEF RunRow, IInv, OwnersInv, RowInv
<1>4. Sweeping = {} /\ Sweeping' = {}
  BY <1>1, <1>2 DEF Sweeping
<1>5. Holders[t] = {} /\ Holders' = [Holders EXCEPT ![t] = {r}]
  <2>1. Holders[t] = {}
    BY <1>3 DEF Holders
  <2>2. Holders'[t] = {r}
    BY <1>1, <1>3 DEF Holders
  <2>3. \A u \in Tools \ {t} : Holders'[u] = Holders[u]
    BY <1>1, <1>2 DEF Holders
  <2> QED BY <2>1, <2>2, <2>3 DEF Holders
<1>6. Slots!ClaimRow(r, t)
  BY <1>4, <1>5 DEF RunRow, Slots!ClaimRow, Sweeping, Holders
<1> QED BY <1>6 DEF Slots!Next

LEMMA ReleaseStep ==
    ASSUME IInv, NEW r \in Runs, Land(r)
    PROVE  Slots!Next
<1>1. ~flight'[r].on /\ \A s \in Runs \ {r} : flight'[s] = flight[s]
  BY DEF Land, NoFlight, IInv, TypeOK
<1>2. Sweeping' = Sweeping \ {r}
  BY <1>1 DEF Sweeping
<1>3. Holders' = [t \in Tools |-> Holders[t] \ {r}]
  BY <1>1 DEF Holders
<1>4. Slots!Release(r)
  BY <1>2, <1>3 DEF Land, Slots!Release, Sweeping, Holders
<1> QED BY <1>4 DEF Slots!Next

\* A step that leaves the flights, the versions and the strays alone stutters.
LEMMA SlotsStutter ==
    ASSUME SameFlights, UNCHANGED << installed, strays >>
    PROVE  UNCHANGED Slots!vars
BY SameHolders DEF Slots!vars, Holders, Sweeping

LEMMA SlotsStep == IInv /\ IInv' /\ [Next]_vars => [Slots!Next]_Slots!vars
<1> SUFFICES ASSUME IInv, IInv', [Next]_vars PROVE [Slots!Next]_Slots!vars
  OBVIOUS
<1>0. ASSUME UNCHANGED flight PROVE SameFlights
  BY <1>0 DEF SameFlights
<1>1. CASE Process /\ UNCHANGED uiVars
  <2>0. SameFlights
    BY <1>0, <1>1 DEF uiVars
  <2>1. ASSUME NEW r \in Runs, ProcNext(r) PROVE [Slots!Next]_Slots!vars
    <3>1. CASE EndInstall(r)
      BY <2>0, <3>1, InstallStep DEF Slots!Next
    <3>2. CASE Die(r)
      BY <2>0, <3>2, KillStep DEF Die
    <3>3. CASE UNCHANGED << installed, strays >>
      BY <2>0, <3>3, SlotsStutter
    <3> QED BY <2>1, <3>1, <3>2, <3>3
            DEF ProcNext, ExplainPlans, SkipMissing, StartLoop, PassOver,
                StartInstall, FinishRun
  <2>2. CASE StrayEnds
    BY <2>0, <2>2, StrayStep
  <2>3. CASE CollectLatestVersions
    BY <2>0, <2>3, SlotsStutter DEF CollectLatestVersions
  <2> QED BY <1>1, <2>1, <2>2, <2>3 DEF Process
<1>2. ASSUME NEW r \in Runs, NEW ts \in (SUBSET Tools) \ {{}}, NEW m \in BOOLEAN,
             RunAll(r, ts, m)
      PROVE  Slots!Next
  BY <1>2, ClaimAllStep
<1>3. ASSUME NEW r \in Runs, NEW t \in Tools, RunRow(r, t) PROVE Slots!Next
  BY <1>3, ClaimRowStep
<1>4. ASSUME NEW r \in Runs, LaunchFails(r) \/ Watchdog(r)
      PROVE  [Slots!Next]_Slots!vars
  <2>1. flight' = [flight EXCEPT ![r].threw = TRUE]
    BY <1>4 DEF LaunchFails, Watchdog
  <2>2. SameFlights
    BY <2>1 DEF SameFlights, IInv, TypeOK, Flights
  <2>3. CASE Running(r) /\ Watchdog(r)
    BY <2>2, <2>3, KillStep DEF Watchdog
  <2>4. CASE LaunchFails(r) \/ ~Running(r)
    BY <1>4, <2>2, <2>4, SlotsStutter DEF LaunchFails, Watchdog
  <2> QED BY <1>4, <2>3, <2>4
<1>5. ASSUME NEW r \in Runs, TakeEvent(r) PROVE UNCHANGED Slots!vars
  <2>1. \/ UNCHANGED flight
        \/ \E set : flight' = [flight EXCEPT ![r].failures = set]
        \/ flight' = [flight EXCEPT ![r].sawRunDone = TRUE]
    BY <1>5 DEF TakeEvent, ApplyEvent, ApplyToolDone
  <2>2. SameFlights
    BY <2>1 DEF SameFlights, IInv, TypeOK, Flights
  <2> QED BY <1>5, <2>2, SlotsStutter DEF TakeEvent
<1>6. ASSUME NEW r \in Runs, Land(r) PROVE Slots!Next
  BY <1>6, ReleaseStep
<1>7. CASE \/ OpenWindow \/ CheckAgentVersions \/ TakeCheckEvent \/ EndCheck
            \/ DismissFailureReport
  <2>1. UNCHANGED << flight, installed, strays >>
    BY <1>7 DEF OpenWindow, CheckAgentVersions, TakeCheckEvent, EndCheck,
                DismissFailureReport, procVars
  <2> QED BY <1>0, <2>1, SlotsStutter
<1>8. CASE CloseWindow
  <2>1. SameFlights
    BY <1>8 DEF CloseWindow, SameFlights, IInv, TypeOK, Flights
  <2> QED BY <1>8, <2>1, SlotsStutter DEF CloseWindow, procVars
<1>9. CASE UNCHANGED vars
  BY <1>0, <1>9, SlotsStutter DEF vars, procVars, uiVars
<1> QED BY <1>1, <1>2, <1>3, <1>4, <1>5, <1>6, <1>7, <1>8, <1>9
        DEF Next, FinalizeAgentUpdate, RunThrew

\* Runs of the settings window exclude each other per provider, a run of all
\* providers excludes every other, and a provider is changed only within its
\* slot or by a stray installer: the store refines UpdateSlots.
THEOREM StoreKeepsSlots == Spec => SlotsAreKept
<1>1. IInv /\ IInv' /\ [Next]_vars => [Slots!Next]_Slots!vars
  BY SlotsStep
<1> QED BY <1>1, SlotsInit, Inductive, PTL DEF Spec, SlotsAreKept, Slots!Spec

-----------------------------------------------------------------------------
(* What a run tells its store.                                             *)

Tells(q, t) == \E i \in DOMAIN q : q[i].event = "tool_done" /\ q[i].tool = t

\* The failures the store hears of, and a missing npm.
Bad == {"failed", "skipped", "npm_missing"}
TellsBad(q, t) == \E i \in DOMAIN q :
    q[i].event = "tool_done" /\ q[i].tool = t /\ q[i].status \in Bad

\* No provider is reported on twice.
Once(q) == \A i, j \in DOMAIN q :
    /\ q[i].event = "tool_done" /\ q[j].event = "tool_done"
    /\ q[i].tool = q[j].tool
    => i = j

\* What a process has still to report on.
Ahead(c, t) == t \in c.todo \/ (c.at = "install" /\ t = c.cur)

\* A provider's event is on its way only when its process is through with it.
PipeInv == \A r \in Runs :
    /\ ~flight[r].on => pipe[r] = << >>
    /\ Once(pipe[r])
    /\ \A t \in Tools : Tells(pipe[r], t) => t \in flight[r].tools /\ ~Ahead(child[r], t)
    /\ child[r].at = "install" => child[r].cur \notin child[r].todo
    /\ child[r].at = "confirm" => child[r].declined \subseteq child[r].todo
    /\ child[r].failed \subseteq flight[r].tools

\* While its window stays open, the chip of a provider spins until its event is
\* read, and a failure is in the store or on its way.
WatchInv == \A r \in Runs : flight[r].on /\ flight[r].watched =>
    /\ \A t \in Tools : Tells(pipe[r], t) \/ Ahead(child[r], t) =>
          toolUpdateStates[t] = "updating"
    /\ \A t \in child[r].failed :
          \/ t \in flight[r].failures
          \/ toolUpdateStates[t] = "npmMissing"
          \/ TellsBad(pipe[r], t)

LEMMA ToolEvents ==
    ASSUME NEW q \in Seq(Events), NEW t
    PROVE  /\ Tells(q, t) => t \in Tools
           /\ TellsBad(q, t) => Tells(q, t)
<1>1. ASSUME Tells(q, t) PROVE t \in Tools
  <2>1. PICK i \in DOMAIN q : q[i].event = "tool_done" /\ q[i].tool = t
    BY <1>1 DEF Tells
  <2>2. q[i] \in Events
    OBVIOUS
  <2> QED BY <2>1, <2>2 DEF Events, RunDone
<1> QED BY <1>1 DEF Tells, TellsBad

\* Writing an event.
LEMMA AppendTells ==
    ASSUME NEW q \in Seq(Events), NEW e \in Events, NEW t
    PROVE  /\ Tells(Append(q, e), t) <=>
                Tells(q, t) \/ (e.event = "tool_done" /\ e.tool = t)
           /\ TellsBad(q, t) => TellsBad(Append(q, e), t)
           /\ e.event = "tool_done" /\ e.tool = t /\ e.status \in Bad =>
                TellsBad(Append(q, e), t)
<1> DEFINE n == Len(q)
           l == Append(q, e)
<1>1. /\ n \in Nat /\ DOMAIN q = 1..n /\ DOMAIN l = 1..(n + 1)
      /\ l[n + 1] = e /\ \A i \in 1..n : l[i] = q[i]
  OBVIOUS
<1> HIDE DEF n, l
<1>2. \A i \in DOMAIN l : i = n + 1 \/ i \in DOMAIN q
  BY <1>1
<1>3. n + 1 \in DOMAIN l /\ \A i \in DOMAIN q : i \in DOMAIN l
  BY <1>1
<1>4. Tells(l, t) <=> Tells(q, t) \/ (e.event = "tool_done" /\ e.tool = t)
  BY <1>1, <1>2, <1>3 DEF Tells
<1>5. TellsBad(q, t) => TellsBad(l, t)
  BY <1>1, <1>3 DEF TellsBad
<1>6. e.event = "tool_done" /\ e.tool = t /\ e.status \in Bad => TellsBad(l, t)
  BY <1>1, <1>3 DEF TellsBad
<1> QED BY <1>4, <1>5, <1>6 DEF l

LEMMA AppendOnce ==
    ASSUME NEW q \in Seq(Events), NEW e \in Events, Once(q),
           e.event = "tool_done" => ~Tells(q, e.tool)
    PROVE  Once(Append(q, e))
<1> DEFINE n == Len(q)
           l == Append(q, e)
<1>1. /\ n \in Nat /\ DOMAIN q = 1..n /\ DOMAIN l = 1..(n + 1)
      /\ l[n + 1] = e /\ \A i \in 1..n : l[i] = q[i]
  OBVIOUS
<1> HIDE DEF n, l
<1>2. ASSUME NEW i \in DOMAIN l, NEW j \in DOMAIN l,
             l[i].event = "tool_done", l[j].event = "tool_done", l[i].tool = l[j].tool
      PROVE  i = j
  <2>1. CASE i \in DOMAIN q /\ j \in DOMAIN q
    BY <1>1, <1>2, <2>1 DEF Once
  <2>2. CASE i = n + 1 /\ j \in DOMAIN q
    BY <1>1, <1>2, <2>2 DEF Tells
  <2>3. CASE i \in DOMAIN q /\ j = n + 1
    BY <1>1, <1>2, <2>3 DEF Tells
  <2> QED BY <1>1, <2>1, <2>2, <2>3
<1> QED BY <1>2 DEF Once, l

\* Reading one.
LEMMA TailTells ==
    ASSUME NEW q \in Seq(Events), q # << >>, NEW t
    PROVE  /\ Tells(Tail(q), t) => Tells(q, t)
           /\ TellsBad(q, t) =>
                \/ TellsBad(Tail(q), t)
                \/ /\ Head(q).event = "tool_done" /\ Head(q).tool = t
                   /\ Head(q).status \in Bad
           /\ Once(q) => Once(Tail(q))
           /\ Once(q) /\ Head(q).event = "tool_done" => ~Tells(Tail(q), Head(q).tool)
           /\ Head(q).event = "tool_done" => Tells(q, Head(q).tool)
<1> DEFINE n == Len(q)
           l == Tail(q)
<1>1. /\ n \in Nat /\ n >= 1 /\ DOMAIN q = 1..n /\ DOMAIN l = 1..(n - 1)
      /\ Head(q) = q[1] /\ \A i \in 1..(n - 1) : l[i] = q[i + 1]
  OBVIOUS
<1> HIDE DEF n, l
<1>2. 1 \in DOMAIN q /\ \A i \in DOMAIN l : i + 1 \in DOMAIN q /\ i + 1 # 1
  BY <1>1
<1>3. \A i \in DOMAIN q : i = 1 \/ (i - 1 \in DOMAIN l /\ l[i - 1] = q[i])
  BY <1>1
<1>4. Tells(l, t) => Tells(q, t)
  BY <1>1, <1>2 DEF Tells
<1>5. TellsBad(q, t) =>
        \/ TellsBad(l, t)
        \/ Head(q).event = "tool_done" /\ Head(q).tool = t /\ Head(q).status \in Bad
  BY <1>1, <1>3 DEF TellsBad
<1>6. ASSUME Once(q) PROVE Once(l)
  <2>1. ASSUME NEW i \in DOMAIN l, NEW j \in DOMAIN l,
               l[i].event = "tool_done", l[j].event = "tool_done", l[i].tool = l[j].tool
        PROVE  i = j
    <3>1. i + 1 = j + 1
      BY <1>1, <1>2, <1>6, <2>1 DEF Once
    <3> QED BY <1>1, <3>1
  <2> QED BY <2>1 DEF Once
<1>7. Once(q) /\ Head(q).event = "tool_done" => ~Tells(l, Head(q).tool)
  BY <1>1, <1>2 DEF Once, Tells
<1>8. Head(q).event = "tool_done" => Tells(q, Head(q).tool)
  BY <1>1, <1>2 DEF Tells
<1> QED BY <1>4, <1>5, <1>6, <1>7, <1>8 DEF l

\* What a step of a process writes, and what it has left to report on.
Reports(r) ==
    /\ \A s \in Runs \ {r} : child'[s] = child[s] /\ pipe'[s] = pipe[s]
    /\ \A t \in Tools : Ahead(child'[r], t) => Ahead(child[r], t)
    /\ child'[r].at = "install" => child'[r].cur \notin child'[r].todo
    /\ child'[r].at = "confirm" => child'[r].declined \subseteq child'[r].todo
    /\ \/ pipe'[r] = pipe[r] /\ child'[r].failed = child[r].failed
       \/ pipe'[r] = Append(pipe[r], RunDone) /\ child'[r].failed = child[r].failed
       \/ \E t \in Tools, status \in Statuses :
            /\ pipe'[r] = Append(pipe[r], ToolDone(t, status))
            /\ Ahead(child[r], t) /\ ~Ahead(child'[r], t)
            /\ child'[r].failed = IF status \in Bad THEN child[r].failed \union {t}
                                                    ELSE child[r].failed

LEMMA EmitPipe ==
    ASSUME TypeOK, NEW r \in Runs, NEW e, Emit(r, e)
    PROVE  /\ pipe'[r] = Append(pipe[r], e)
           /\ \A s \in Runs \ {r} : pipe'[s] = pipe[s]
BY DEF Emit, TypeOK, ProcTypeOK

LEMMA ProcessReports ==
    ASSUME IInv, PipeInv, NEW r \in Runs, ProcNext(r)
    PROVE  Reports(r)
<1> USE DEF IInv, TypeOK, ProcTypeOK
<1>0. /\ child[r] \in Children /\ child[r].todo \subseteq Tools
      /\ child[r].at = "install" => child[r].cur \in Tools /\ child[r].cur \notin child[r].todo
      /\ child[r].at = "confirm" => child[r].declined \subseteq child[r].todo
  BY DEF WorkInv, Flights, PipeInv, Children
<1>1. CASE ExplainPlans(r)
  <2>1. PICK unread \in SUBSET child[r].todo :
          child' = [child EXCEPT
            ![r].at = "confirm", ![r].missing = FALSE,
            ![r].declined = IF child[r].missing THEN {}
                            ELSE {t \in child[r].todo : ~IsInstalled(t)},
            ![r].before = [t \in Tools |-> IF t \in child[r].todo \ unread
                                          THEN installed[t] ELSE 0]]
    BY <1>1 DEF ExplainPlans
  <2> DEFINE plan == [t \in Tools |-> IF t \in child[r].todo \ unread
                                      THEN installed[t] ELSE 0]
             no == IF child[r].missing THEN {}
                   ELSE {t \in child[r].todo : ~IsInstalled(t)}
             new == [child[r] EXCEPT !.at = "confirm", !.missing = FALSE,
                                     !.declined = no, !.before = plan]
  <2>2. child' = [child EXCEPT ![r] = new]
    BY <2>1
  <2>3. no \subseteq child[r].todo
    OBVIOUS
  <2>4. /\ new.at = "confirm" /\ new.todo = child[r].todo /\ new.declined = no
        /\ new.failed = child[r].failed
    <3> HIDE DEF no, plan
    <3> QED BY <1>0 DEF Children
  <2> HIDE DEF new, no
  <2>5. child'[r] = new /\ \A s \in Runs \ {r} : child'[s] = child[s]
    BY <2>2
  <2>6. UNCHANGED pipe
    BY <1>1 DEF ExplainPlans
  <2> QED BY <2>3, <2>4, <2>5, <2>6 DEF Reports, Ahead
<1>2. CASE SkipMissing(r)
  <2>1. PICK t \in child[r].declined :
            /\ Emit(r, ToolDone(t, "skipped_not_installed"))
            /\ child' = [child EXCEPT ![r].todo = @ \ {t}, ![r].declined = @ \ {t}]
    BY <1>2 DEF SkipMissing
  <2> DEFINE new == [child[r] EXCEPT !.todo = @ \ {t}, !.declined = @ \ {t}]
  <2>2. /\ new.at = "confirm" /\ new.todo = child[r].todo \ {t}
        /\ new.declined = child[r].declined \ {t} /\ new.failed = child[r].failed
    BY <1>0, <1>2 DEF Children, SkipMissing
  <2>3. child' = [child EXCEPT ![r] = new]
    BY <2>1
  <2> HIDE DEF new
  <2>4. child'[r] = new /\ \A s \in Runs \ {r} : child'[s] = child[s]
    BY <2>3
  <2>5. child[r].at = "confirm" /\ t \in child[r].todo /\ t \in Tools
    BY <1>0, <1>2, <2>1 DEF SkipMissing
  <2>6. Ahead(child[r], t) /\ ~Ahead(child'[r], t)
    BY <2>2, <2>4, <2>5 DEF Ahead
  <2>7. /\ pipe'[r] = Append(pipe[r], ToolDone(t, "skipped_not_installed"))
        /\ \A s \in Runs \ {r} : pipe'[s] = pipe[s]
    BY <2>1, EmitPipe
  <2>8. "skipped_not_installed" \in Statuses /\ "skipped_not_installed" \notin Bad
    BY DEF Statuses, Bad
  <2>9. \A u \in Tools : Ahead(child'[r], u) => Ahead(child[r], u)
    BY <2>2, <2>4 DEF Ahead
  <2>10. child'[r].declined \subseteq child'[r].todo
    BY <1>0, <2>2, <2>4, <2>5
  <2> QED BY <2>2, <2>4, <2>5, <2>6, <2>7, <2>8, <2>9, <2>10 DEF Reports
<1>3. CASE StartLoop(r)
  <2> DEFINE new == [child[r] EXCEPT !.at = "loop"]
  <2>1. new.at = "loop" /\ new.todo = child[r].todo /\ new.failed = child[r].failed
    BY <1>0 DEF Children
  <2>2. child' = [child EXCEPT ![r] = new] /\ UNCHANGED pipe
    BY <1>3 DEF StartLoop
  <2> HIDE DEF new
  <2>3. child'[r] = new /\ \A s \in Runs \ {r} : child'[s] = child[s]
    BY <2>2
  <2> QED BY <2>1, <2>2, <2>3 DEF Reports, Ahead
<1>4. CASE PassOver(r)
  <2>1. PICK t \in child[r].todo, late \in Late(r),
             status \in {"skipped", "npm_missing"} :
            /\ Emit(r, ToolDone(t, status))
            /\ child' = [child EXCEPT ![r].todo = @ \ {t}, ![r].before[t] = 0,
                                      ![r].late = late /\ child[r].todo # {t},
                                      ![r].failed = @ \union {t}]
    <3> HIDE DEF TypeOK, ProcTypeOK
    <3> QED BY <1>4, Zenon DEF PassOver
  <2> DEFINE still == late /\ child[r].todo # {t}
             new == [child[r] EXCEPT !.todo = @ \ {t}, !.before[t] = 0,
                                     !.late = still, !.failed = @ \union {t}]
  <2>2. /\ new.at = "loop" /\ new.todo = child[r].todo \ {t}
        /\ new.failed = child[r].failed \union {t}
    <3> HIDE DEF still
    <3> QED BY <1>0, <1>4 DEF Children, PassOver
  <2>3. child' = [child EXCEPT ![r] = new]
    <3> HIDE DEF TypeOK, ProcTypeOK
    <3> QED BY <2>1
  <2> HIDE DEF new
  <2>4. child'[r] = new /\ \A s \in Runs \ {r} : child'[s] = child[s]
    BY <2>3
  <2>5. t \in Tools /\ Ahead(child[r], t) /\ ~Ahead(child'[r], t)
    BY <1>0, <2>2, <2>4 DEF Ahead
  <2>6. /\ pipe'[r] = Append(pipe[r], ToolDone(t, status))
        /\ \A s \in Runs \ {r} : pipe'[s] = pipe[s]
    BY <2>1, EmitPipe
  <2>7. status \in Statuses /\ status \in Bad
    BY DEF Statuses, Bad
  <2>8. \A u \in Tools : Ahead(child'[r], u) => Ahead(child[r], u)
    BY <2>2, <2>4 DEF Ahead
  <2> QED BY <2>2, <2>4, <2>5, <2>6, <2>7, <2>8 DEF Reports
<1>5. CASE StartInstall(r)
  <2>1. PICK t \in child[r].todo :
            child' = [child EXCEPT ![r].at = "install", ![r].cur = t,
                                   ![r].todo = @ \ {t}]
    BY <1>5 DEF StartInstall
  <2> DEFINE new == [child[r] EXCEPT !.at = "install", !.cur = t, !.todo = @ \ {t}]
  <2>2. /\ new.at = "install" /\ new.cur = t /\ new.todo = child[r].todo \ {t}
        /\ new.failed = child[r].failed
    BY <1>0 DEF Children
  <2>3. child' = [child EXCEPT ![r] = new]
    <3> HIDE DEF TypeOK, ProcTypeOK
    <3> QED BY <2>1
  <2> HIDE DEF new
  <2>4. child'[r] = new /\ (\A s \in Runs \ {r} : child'[s] = child[s]) /\ UNCHANGED pipe
    BY <1>5, <2>3 DEF StartInstall
  <2> QED BY <2>2, <2>4 DEF Reports, Ahead
<1>6. CASE EndInstall(r)
  <2>1. PICK v, late, err, noChange : InstallReports(r, v, late, err, noChange)
    BY <1>6 DEF EndInstall
  <2> DEFINE t == child[r].cur
             status == StatusOf(err, noChange, child[r].before[t],
                                IF late THEN 0 ELSE v)
             on == late /\ child[r].todo # {}
             bad == IF status = "failed" THEN child[r].failed \union {t}
                                         ELSE child[r].failed
             new == [child[r] EXCEPT
               !.at = "loop", !.cur = NoTool, !.before[t] = 0,
               !.late = on, !.failed = bad]
  <2>2. child' = [child EXCEPT ![r].at = "loop", ![r].cur = NoTool, ![r].before[t] = 0,
                               ![r].late = on, ![r].failed = bad]
    BY <2>1, Zenon DEF InstallReports
  <2>3. Emit(r, ToolDone(t, status))
    BY <2>1 DEF InstallReports
  <2>4. status \in {"up_to_date", "failed", "updated"}
    BY DEF StatusOf
  <2>5. t \in Tools /\ t \notin child[r].todo /\ child[r].at = "install"
    BY <1>0, <1>6 DEF EndInstall
  <2>6. bad = IF status \in Bad THEN child[r].failed \union {t} ELSE child[r].failed
    BY <2>4 DEF Bad
  <2> HIDE DEF status, on, bad, t
  <2>7. child' = [child EXCEPT ![r] = new]
    <3> HIDE DEF TypeOK, ProcTypeOK
    <3> QED BY <2>2
  <2>8. new.at = "loop" /\ new.todo = child[r].todo /\ new.failed = bad
    BY <1>0 DEF Children
  <2> HIDE DEF new
  <2>9. child'[r] = new /\ \A s \in Runs \ {r} : child'[s] = child[s]
    BY <2>7
  <2>10. Ahead(child[r], t) /\ ~Ahead(child'[r], t)
    BY <2>5, <2>8, <2>9 DEF Ahead, t
  <2>11. /\ pipe'[r] = Append(pipe[r], ToolDone(t, status))
         /\ \A s \in Runs \ {r} : pipe'[s] = pipe[s]
    BY <2>3, EmitPipe
  <2>12. status \in Statuses
    BY <2>4 DEF Statuses
  <2>13. \A u \in Tools : Ahead(child'[r], u) => Ahead(child[r], u)
    BY <2>8, <2>9 DEF Ahead
  <2> QED BY <2>5, <2>6, <2>8, <2>9, <2>10, <2>11, <2>12, <2>13 DEF Reports
<1>7. CASE FinishRun(r)
  <2>1. child'[r] = Ended(r) /\ \A s \in Runs \ {r} : child'[s] = child[s]
    BY <1>7 DEF FinishRun
  <2>2. Ended(r).at = "gone" /\ Ended(r).todo = {} /\ Ended(r).failed = child[r].failed
    BY DEF Ended, Idle
  <2>3. pipe'[r] = Append(pipe[r], RunDone) /\ \A s \in Runs \ {r} : pipe'[s] = pipe[s]
    BY <1>7, EmitPipe DEF FinishRun
  <2> QED BY <2>1, <2>2, <2>3 DEF Reports, Ahead
<1>8. CASE Die(r)
  <2>1. /\ child'[r] = Ended(r) /\ \A s \in Runs \ {r} : child'[s] = child[s]
        /\ UNCHANGED pipe
    BY <1>8 DEF Die, Kill
  <2>2. Ended(r).at = "gone" /\ Ended(r).todo = {} /\ Ended(r).failed = child[r].failed
    BY DEF Ended, Idle
  <2> QED BY <2>1, <2>2 DEF Reports, Ahead
<1> QED BY <1>1, <1>2, <1>3, <1>4, <1>5, <1>6, <1>7, <1>8 DEF ProcNext

\* Only the process of a run in flight writes to its pipe.
LEMMA RunIsOn ==
    ASSUME IInv, NEW r \in Runs, ProcNext(r)
    PROVE  flight[r].on
BY DEF ProcNext, ExplainPlans, SkipMissing, StartLoop, PassOver, StartInstall, EndInstall,
       FinishRun, Die, Running, IInv, WorkInv

LEMMA ProcessTelling ==
    ASSUME IInv, PipeInv, WatchInv, NEW r \in Runs, Reports(r), flight[r].on,
           UNCHANGED uiVars
    PROVE  PipeInv' /\ WatchInv'
<1>0. /\ flight' = flight /\ toolUpdateStates' = toolUpdateStates
      /\ pipe[r] \in Seq(Events)
  BY DEF uiVars, IInv, TypeOK, ProcTypeOK
<1>1. \A s \in Runs \ {r} : child'[s] = child[s] /\ pipe'[s] = pipe[s]
  BY DEF Reports
<1>2. /\ \A t \in Tools : Ahead(child'[r], t) => Ahead(child[r], t)
      /\ child'[r].at = "install" => child'[r].cur \notin child'[r].todo
      /\ child'[r].at = "confirm" => child'[r].declined \subseteq child'[r].todo
  BY DEF Reports
<1>3. \A t \in Tools : Ahead(child[r], t) => t \in flight[r].tools /\ flight[r].on
  BY DEF Ahead, IInv, WorkInv, TypeOK, Flights
<1> DEFINE Kept == /\ ~flight[r].on => pipe'[r] = << >>
                   /\ Once(pipe'[r])
                   /\ \A t \in Tools : Tells(pipe'[r], t) =>
                         t \in flight[r].tools /\ ~Ahead(child'[r], t)
                   /\ child'[r].failed \subseteq flight[r].tools
           Seen == flight[r].on /\ flight[r].watched =>
                   /\ \A t \in Tools : Tells(pipe'[r], t) =>
                         toolUpdateStates[t] = "updating"
                   /\ \A t \in child'[r].failed :
                         \/ t \in flight[r].failures
                         \/ toolUpdateStates[t] = "npmMissing"
                         \/ TellsBad(pipe'[r], t)
<1>4. CASE pipe'[r] = pipe[r] /\ child'[r].failed = child[r].failed
  <2>1. Kept
    BY <1>2, <1>4 DEF PipeInv
  <2>2. Seen
    BY <1>4 DEF WatchInv
  <2> QED BY <1>0, <1>1, <1>2, <2>1, <2>2 DEF PipeInv, WatchInv
<1>5. CASE pipe'[r] = Append(pipe[r], RunDone) /\ child'[r].failed = child[r].failed
  <2>1. RunDone.event # "tool_done"
    BY DEF RunDone
  <2>2. /\ Once(pipe'[r])
        /\ \A t \in Tools : Tells(pipe'[r], t) => Tells(pipe[r], t)
        /\ \A t : TellsBad(pipe[r], t) => TellsBad(pipe'[r], t)
    BY <1>0, <1>5, <2>1, RunDoneType, AppendOnce, AppendTells DEF PipeInv
  <2>4. Kept
    BY <1>2, <1>5, <2>2 DEF PipeInv
  <2>5. Seen
    BY <1>5, <2>2 DEF WatchInv
  <2> QED BY <1>0, <1>1, <1>2, <2>4, <2>5 DEF PipeInv, WatchInv
<1>6. ASSUME NEW t \in Tools, NEW status \in Statuses,
             pipe'[r] = Append(pipe[r], ToolDone(t, status)),
             Ahead(child[r], t), ~Ahead(child'[r], t),
             child'[r].failed = IF status \in Bad THEN child[r].failed \union {t}
                                                  ELSE child[r].failed
      PROVE  PipeInv' /\ WatchInv'
  <2> DEFINE e == ToolDone(t, status)
  <2>1. e \in Events /\ e.event = "tool_done" /\ e.tool = t /\ e.status = status
    BY ToolDoneType DEF ToolDone
  <2> HIDE DEF e
  <2>2. pipe'[r] = Append(pipe[r], e)
    BY <1>6 DEF e
  <2>3. ~Tells(pipe[r], t) /\ t \in flight[r].tools /\ flight[r].on
    BY <1>3, <1>6 DEF PipeInv
  <2>4. /\ Once(pipe'[r])
        /\ \A u \in Tools : Tells(pipe'[r], u) <=> Tells(pipe[r], u) \/ u = t
        /\ \A u : TellsBad(pipe[r], u) => TellsBad(pipe'[r], u)
        /\ status \in Bad => TellsBad(pipe'[r], t)
    BY <1>0, <2>1, <2>2, <2>3, AppendOnce, AppendTells DEF PipeInv
  <2>5. Kept
    BY <1>2, <1>6, <2>3, <2>4 DEF PipeInv
  <2>6. Seen
    BY <1>6, <2>4 DEF WatchInv
  <2> QED BY <1>0, <1>1, <1>2, <2>5, <2>6 DEF PipeInv, WatchInv
<1> QED BY <1>4, <1>5, <1>6 DEF Reports

\* A run that starts finds its pipe empty, and its rows owned by no other.
LEMMA StartTelling ==
    ASSUME IInv, PipeInv, WatchInv, NEW r \in Runs, NEW all \in BOOLEAN,
           NEW ts \in SUBSET Tools, NEW m \in BOOLEAN,
           ~flight[r].on, TakeOff(r, all, ts), Spawn(r, ts, m), UNCHANGED pipe,
           \A t \in ts : toolUpdateStates'[t] = "updating",
           \A s \in Runs : flight[s].on =>
              \A t \in flight[s].tools : toolUpdateStates'[t] = toolUpdateStates[t]
    PROVE  PipeInv' /\ WatchInv'
<1>1. /\ flight'[r].on /\ flight'[r].tools = ts
      /\ child'[r].at = "detect" /\ child'[r].todo = ts /\ child'[r].failed = {}
  BY DEF TakeOff, Spawn, Idle, NoFlight, IInv, TypeOK, ProcTypeOK
<1>2. \A s \in Runs \ {r} : flight'[s] = flight[s] /\ child'[s] = child[s]
  BY DEF TakeOff, Spawn, IInv, TypeOK, ProcTypeOK
<1>3. pipe[r] = << >> /\ \A t : ~Tells(pipe[r], t)
  BY DEF PipeInv, Tells
<1>4. \A s \in Runs, t \in Tools :
        Ahead(child[s], t) \/ Tells(pipe[s], t) \/ t \in child[s].failed =>
            t \in flight[s].tools
  BY DEF Ahead, PipeInv, IInv, WorkInv
<1>5. PipeInv'
  BY <1>1, <1>2, <1>3 DEF PipeInv, Ahead
<1>6. \A s \in Runs : child[s].failed \subseteq Tools
  BY DEF IInv, TypeOK, ProcTypeOK, Children
<1>7. WatchInv'
  <2> SUFFICES ASSUME NEW s \in Runs, flight'[s].on, flight'[s].watched
               PROVE  /\ \A t \in Tools : Tells(pipe'[s], t) \/ Ahead(child'[s], t) =>
                            toolUpdateStates'[t] = "updating"
                      /\ \A t \in child'[s].failed :
                            \/ t \in flight'[s].failures
                            \/ toolUpdateStates'[t] = "npmMissing"
                            \/ TellsBad(pipe'[s], t)
    BY DEF WatchInv
  <2>1. CASE s = r
    BY <1>1, <1>3, <2>1 DEF Ahead
  <2>2. CASE s # r
    BY <1>2, <1>4, <1>6, <2>2 DEF WatchInv
  <2> QED BY <2>1, <2>2
<1> QED BY <1>5, <1>7

\* A process that is killed or never started tells nothing more.
LEMMA EndedTelling ==
    ASSUME IInv, PipeInv, WatchInv, NEW r \in Runs,
           child' = [child EXCEPT ![r] = Ended(r)] \/ UNCHANGED child,
           flight' = [flight EXCEPT ![r].threw = TRUE],
           UNCHANGED << pipe, toolUpdateStates >>
    PROVE  PipeInv' /\ WatchInv'
<1>1. /\ SameFlights
      /\ \A s \in Runs : flight'[s].watched = flight[s].watched
                         /\ flight'[s].failures = flight[s].failures
  BY DEF SameFlights, IInv, TypeOK, Flights
<1>2. \/ child'[r].at = "gone" /\ child'[r].todo = {} /\ child'[r].failed = child[r].failed
      \/ child'[r] = child[r]
  <2>1. Ended(r).at = "gone" /\ Ended(r).todo = {} /\ Ended(r).failed = child[r].failed
    BY DEF Ended, Idle
  <2>2. child'[r] = Ended(r) \/ child'[r] = child[r]
    BY DEF IInv, TypeOK, ProcTypeOK
  <2> QED BY <2>1, <2>2
<1>3. \A s \in Runs \ {r} : child'[s] = child[s]
  BY DEF IInv, TypeOK, ProcTypeOK
<1>4. PipeInv'
  BY <1>1, <1>2, <1>3 DEF PipeInv, Ahead, SameFlights
<1>5. WatchInv'
  BY <1>1, <1>2, <1>3 DEF WatchInv, Ahead, SameFlights
<1> QED BY <1>4, <1>5

LEMMA LandTelling ==
    ASSUME IInv, PipeInv, WatchInv, NEW r \in Runs, Land(r)
    PROVE  PipeInv' /\ WatchInv'
<1>1. /\ ~flight'[r].on /\ pipe'[r] = << >> /\ child'[r].at = "off"
      /\ child'[r].todo = {} /\ child'[r].failed = {}
  BY DEF Land, Idle, NoFlight, IInv, TypeOK, ProcTypeOK
<1>2. \A s \in Runs \ {r} : flight'[s] = flight[s] /\ child'[s] = child[s]
  BY DEF Land, IInv, TypeOK, ProcTypeOK
<1>3. pipe' = pipe /\ flight[r].on
  BY DEF Land
<1>4. \A s \in Runs \ {r} : flight[s].on =>
        \A t \in flight[s].tools : t \in Tools => toolUpdateStates'[t] = toolUpdateStates[t]
  BY <1>3 DEF Land, ResetChips, IInv, TypeOK, OwnersInv, OwnerInv
<1>5. \A s \in Runs, t \in Tools :
        Ahead(child[s], t) \/ Tells(pipe[s], t) \/ t \in child[s].failed =>
            t \in flight[s].tools
  BY DEF Ahead, PipeInv, IInv, WorkInv
<1>6. \A s \in Runs : child[s].failed \subseteq Tools
  BY DEF IInv, TypeOK, ProcTypeOK, Children
<1>7. PipeInv'
  BY <1>1, <1>2, <1>3 DEF PipeInv, Tells, Ahead, Once
<1>8. WatchInv'
  BY <1>1, <1>2, <1>3, <1>4, <1>5, <1>6 DEF WatchInv
<1> QED BY <1>7, <1>8

LEMMA TakeEventTelling ==
    ASSUME IInv, PipeInv, WatchInv, NEW r \in Runs, TakeEvent(r)
    PROVE  PipeInv' /\ WatchInv'
<1> DEFINE q == pipe[r]
           e == Head(q)
           t == e.tool
<1>0. /\ q \in Seq(Events) /\ q # << >> /\ flight[r].on /\ child' = child
      /\ pipe'[r] = Tail(q) /\ \A s \in Runs \ {r} : pipe'[s] = pipe[s]
      /\ e \in Events
  BY DEF TakeEvent, IInv, TypeOK, ProcTypeOK
<1>1. /\ \A u : Tells(Tail(q), u) => Tells(q, u)
      /\ \A u : TellsBad(q, u) => TellsBad(Tail(q), u)
                   \/ (e.event = "tool_done" /\ t = u /\ e.status \in Bad)
      /\ Once(Tail(q))
      /\ e.event = "tool_done" => ~Tells(Tail(q), t) /\ Tells(q, t)
  BY <1>0, TailTells DEF PipeInv
<1>2. /\ SameFlights
      /\ \A s \in Runs : flight'[s].watched = flight[s].watched
      /\ \A s \in Runs \ {r} : flight'[s] = flight[s]
  <2>1. \/ UNCHANGED flight
        \/ \E set : flight' = [flight EXCEPT ![r].failures = set]
        \/ flight' = [flight EXCEPT ![r].sawRunDone = TRUE]
    BY DEF TakeEvent, ApplyEvent, ApplyToolDone
  <2> QED BY <2>1 DEF SameFlights, IInv, TypeOK, Flights
<1>3. PipeInv'
  BY <1>0, <1>1, <1>2 DEF PipeInv, SameFlights
<1>4. \A s \in Runs, u \in Tools :
        Ahead(child[s], u) \/ Tells(pipe[s], u) \/ u \in child[s].failed =>
            u \in flight[s].tools
  BY DEF Ahead, PipeInv, IInv, WorkInv
<1>5. \A s \in Runs : child[s].failed \subseteq Tools
  BY DEF IInv, TypeOK, ProcTypeOK, Children
<1>6. CASE e.event = "run_done"
  <2>1. e.event # "tool_done"
    BY <1>6
  <2> HIDE DEF e
  <2>2. flight' = [flight EXCEPT ![r].sawRunDone = TRUE] /\ UNCHANGED toolUpdateStates
    BY <2>1 DEF TakeEvent, ApplyEvent, e
  <2>3. flight'[r].failures = flight[r].failures
    BY <2>2 DEF IInv, TypeOK, Flights
  <2>4. WatchInv'
    BY <1>0, <1>1, <1>2, <2>1, <2>2, <2>3 DEF WatchInv, SameFlights
  <2> QED BY <1>3, <2>4
<1>7. CASE e.event = "tool_done"
  <2>1. t \in Tools /\ Tells(q, t) /\ t \in flight[r].tools /\ ~Ahead(child[r], t)
        /\ ~Tells(Tail(q), t)
    BY <1>0, <1>1, <1>7, EventTypes DEF PipeInv
  <2>2. ApplyToolDone(r, t, e.status)
    BY <1>7 DEF TakeEvent, ApplyEvent
  <2> HIDE DEF e, t
  <2>3. \A u \in Tools \ {t} : toolUpdateStates'[u] = toolUpdateStates[u]
    BY <2>2 DEF ApplyToolDone, IInv, TypeOK
  <2>4. ASSUME NEW s \in Runs, flight'[s].on, flight'[s].watched
        PROVE  /\ \A u \in Tools : Tells(pipe'[s], u) \/ Ahead(child'[s], u) =>
                     toolUpdateStates'[u] = "updating"
               /\ \A u \in child'[s].failed :
                     \/ u \in flight'[s].failures
                     \/ toolUpdateStates'[u] = "npmMissing"
                     \/ TellsBad(pipe'[s], u)
    <3>1. flight[s].on /\ flight[s].watched
      BY <1>2, <2>4 DEF SameFlights
    <3>2. CASE s # r
      <4>1. t \notin flight[s].tools
        BY <1>0, <2>1, <3>1, <3>2 DEF IInv, OwnersInv, OwnerInv
      <4> QED BY <1>0, <1>2, <1>4, <1>5, <2>3, <3>1, <3>2, <4>1 DEF WatchInv
    <3>3. CASE s = r
      <4>1. toolUpdateStates[t] = "updating"
        BY <2>1, <3>1, <3>3 DEF WatchInv
      <4>2. /\ toolUpdateStates'[t] = Chip(e.status)
            /\ flight'[r].failures = IF Chip(e.status) = "failed"
                                     THEN flight[r].failures \union {t} ELSE flight[r].failures
        BY <2>1, <2>2, <4>1 DEF ApplyToolDone, IInv, TypeOK, Flights
      <4>3. \A u \in Tools : Tells(Tail(q), u) \/ Ahead(child[r], u) =>
               toolUpdateStates'[u] = "updating"
        BY <1>1, <2>1, <2>3, <3>1, <3>3 DEF WatchInv
      <4>4. e.status \in Bad => Chip(e.status) \in {"failed", "npmMissing"}
        BY DEF Bad, Chip
      <4>5. ASSUME NEW u \in child[r].failed
            PROVE  \/ u \in flight'[r].failures
                   \/ toolUpdateStates'[u] = "npmMissing"
                   \/ TellsBad(Tail(q), u)
        <5>1. \/ u \in flight[r].failures
              \/ toolUpdateStates[u] = "npmMissing"
              \/ TellsBad(q, u)
          BY <3>1, <3>3, <4>5 DEF WatchInv
        <5>2. CASE u = t
          BY <1>1, <4>1, <4>2, <4>4, <5>1, <5>2
        <5>3. CASE u # t
          BY <1>1, <1>5, <2>3, <4>2, <5>1, <5>3
        <5> QED BY <5>2, <5>3
      <4> QED BY <1>0, <3>3, <4>3, <4>5
    <3> QED BY <3>2, <3>3
  <2> QED BY <1>3, <2>4 DEF WatchInv
<1> QED BY <1>0, <1>6, <1>7, EventTypes

LEMMA TellingStep == IInv /\ PipeInv /\ WatchInv /\ [Next]_vars => PipeInv' /\ WatchInv'
<1> SUFFICES ASSUME IInv, PipeInv, WatchInv, [Next]_vars PROVE PipeInv' /\ WatchInv'
  OBVIOUS
<1>0. ASSUME UNCHANGED << child, pipe, flight, toolUpdateStates >>
      PROVE  PipeInv' /\ WatchInv'
  BY <1>0 DEF PipeInv, WatchInv
<1>1. CASE Process /\ UNCHANGED uiVars
  <2>1. ASSUME NEW r \in Runs, ProcNext(r) PROVE PipeInv' /\ WatchInv'
    BY <1>1, <2>1, RunIsOn, ProcessReports, ProcessTelling
  <2>2. CASE StrayEnds \/ CollectLatestVersions
    BY <1>0, <1>1, <2>2 DEF StrayEnds, CollectLatestVersions, uiVars
  <2> QED BY <1>1, <2>1, <2>2 DEF Process
<1>2. ASSUME NEW r \in Runs, NEW ts \in (SUBSET Tools) \ {{}}, NEW m \in BOOLEAN,
             RunAll(r, ts, m)
      PROVE  PipeInv' /\ WatchInv'
  <2>1. \A s \in Runs : ~flight[s].on
    BY <1>2, NothingInFlight DEF RunAll, IInv
  <2>2. \A t \in ts : toolUpdateStates'[t] = "updating"
    BY <1>2 DEF RunAll
  <2> QED BY <1>2, <2>1, <2>2, StartTelling DEF RunAll
<1>3. ASSUME NEW r \in Runs, NEW t \in Tools, RunRow(r, t) PROVE PipeInv' /\ WatchInv'
  <2>1. \A s \in Runs : flight[s].on => t \notin flight[s].tools
    BY <1>3 DEF RunRow, IInv, OwnersInv, FlagInv, RowInv
  <2>2. /\ toolUpdateStates'[t] = "updating"
        /\ \A s \in Runs : flight[s].on =>
              \A u \in flight[s].tools : toolUpdateStates'[u] = toolUpdateStates[u]
    BY <1>3, <2>1 DEF RunRow, IInv, TypeOK, Flights
  <2>3. /\ ~flight[r].on /\ TakeOff(r, FALSE, {t}) /\ Spawn(r, {t}, FALSE)
        /\ UNCHANGED pipe
    BY <1>3 DEF RunRow
  <2>4. {t} \in SUBSET Tools /\ \A u \in {t} : toolUpdateStates'[u] = "updating"
    BY <2>2
  <2> QED BY <2>2, <2>3, <2>4, StartTelling
<1>4. ASSUME NEW r \in Runs, LaunchFails(r) \/ Watchdog(r) PROVE PipeInv' /\ WatchInv'
  BY <1>4, EndedTelling DEF LaunchFails, Watchdog, Kill
<1>5. ASSUME NEW r \in Runs, TakeEvent(r) PROVE PipeInv' /\ WatchInv'
  BY <1>5, TakeEventTelling
<1>6. ASSUME NEW r \in Runs, Land(r) PROVE PipeInv' /\ WatchInv'
  BY <1>6, LandTelling
<1>7. CASE \/ OpenWindow \/ CheckAgentVersions \/ TakeCheckEvent \/ EndCheck
            \/ DismissFailureReport
  BY <1>0, <1>7 DEF OpenWindow, CheckAgentVersions, TakeCheckEvent, EndCheck,
                    DismissFailureReport, procVars
<1>8. CASE CloseWindow
  <2>1. /\ SameFlights /\ UNCHANGED << child, pipe >>
        /\ \A r \in Runs : ~flight'[r].watched
    BY <1>8 DEF CloseWindow, SameFlights, IInv, TypeOK, Flights, procVars
  <2>2. PipeInv'
    BY <2>1 DEF PipeInv, SameFlights
  <2> QED BY <2>1, <2>2 DEF WatchInv
<1>9. CASE UNCHANGED vars
  BY <1>0, <1>9 DEF vars, procVars, uiVars
<1> QED BY <1>1, <1>2, <1>3, <1>4, <1>5, <1>6, <1>7, <1>8, <1>9
        DEF Next, FinalizeAgentUpdate, RunThrew

LEMMA Telling == Spec => [](PipeInv /\ WatchInv)
<1>1. Init => PipeInv /\ WatchInv
  BY DEF Init, ProcInit, NoFlight, Idle, PipeInv, WatchInv, Once, Tells
<1>2. IInv /\ PipeInv /\ WatchInv /\ [Next]_vars => PipeInv' /\ WatchInv'
  BY TellingStep
<1> QED BY <1>1, <1>2, Inductive, PTL DEF Spec

\* Whatever other runs and checks did meanwhile, a run that reported its end to
\* a window open all along has every provider its process counted as failed in
\* the alert, or in a row that names the missing npm (applyToolDone and
\* finalizeAgentUpdate of ConfigurationStore.swift against update.go).
THEOREM FailuresReported == Spec => FailuresAreReported
<1>1. ASSUME IInv, PipeInv, WatchInv, NEW r \in Runs,
             FinalizeAgentUpdate(r), flight[r].watched, flight[r].sawRunDone,
             NEW t \in child[r].failed
      PROVE  t \in failureReport' \/ toolUpdateStates'[t] = "npmMissing"
  <2>1. t \in Tools
    BY <1>1 DEF IInv, TypeOK, ProcTypeOK, Children
  <2>2. ~TellsBad(pipe[r], t) /\ flight[r].on
    BY <1>1 DEF FinalizeAgentUpdate, Land, TellsBad
  <2>3. CASE t \in flight[r].failures
    BY <1>1, <2>3 DEF FinalizeAgentUpdate
  <2>4. CASE toolUpdateStates[t] = "npmMissing"
    BY <1>1, <2>1, <2>4 DEF FinalizeAgentUpdate, Land, ResetChips
  <2> QED BY <1>1, <2>2, <2>3, <2>4 DEF WatchInv
<1>2. IInv /\ PipeInv /\ WatchInv =>
        [\A r \in Runs :
            FinalizeAgentUpdate(r) /\ flight[r].watched /\ flight[r].sawRunDone =>
                \A t \in child[r].failed :
                    t \in failureReport' \/ toolUpdateStates'[t] = "npmMissing"]_vars
  BY <1>1
<1> QED BY <1>2, Inductive, Telling, PTL DEF FailuresAreReported
=============================================================================
