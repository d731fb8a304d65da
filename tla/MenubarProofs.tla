---------------------------- MODULE MenubarProofs ----------------------------
(***************************************************************************)
(* Proofs about the menubar: first its release updates (ReleaseUpdates),   *)
(* for any number of updates, releases and requests, then its processes    *)
(* (MenubarInstances), for any number of processes, commands and logins.   *)
(*                                                                         *)
(* The inductive invariant of the updates says what the record of one      *)
(* tells about its archive and its temp file, that an update which still   *)
(* counts as alone is the only one running, and that the requests marked   *)
(* late are of an older generation.  That of the processes says where a    *)
(* process of each kind may be, and that a command which met no other one  *)
(* has only menubars beside it, all of them among those it waits for.      *)
(***************************************************************************)
EXTENDS ReleaseUpdates, MenubarInstances, TLAPS

-----------------------------------------------------------------------------
(* What the updates keep.                                                  *)

Installing == {"create", "copy", "rename", "helper"}

\* What a record tells, t being its temp file.
Telling(r, t) ==
    /\ r.at = "verify" /\ r.archive.verified => r.archive = Whole(r.release)
    /\ r.at \in Installing => r.archive = Whole(r.release)
    /\ r.at = "rename" => t = r.archive
    /\ r.file = "helper" => r.at \in Installing \union {"ended"}
    /\ r.file = "oct" => r.at # "helper"

TellingInv == \A u \in Updaters : Telling(run[u], temp[u])
AloneInv   == \A u, v \in Updaters : u # v /\ run[u].alone /\ Running(u) => ~Running(v)
OctInv     == \A u \in Updaters :
    run[u].alone /\ Running(u) /\ run[u].file = "helper" =>
        installed["oct"] = Whole(run[u].release)

UpdateInv == UpdateTypeOK /\ TellingInv /\ AloneInv /\ OctInv /\ InstalledIsWhole

-----------------------------------------------------------------------------
(* The updates.                                                            *)

LEMMA ContentTypes ==
    /\ Missing \in Content
    /\ \A r \in 0..MaxRelease : Whole(r) \in Content
    /\ \A c \in Content, b \in BOOLEAN :
         /\ [c EXCEPT !.whole = b] \in Content
         /\ [c EXCEPT !.verified = b] \in Content
         /\ [c EXCEPT !.verified = b].verified = b
         /\ b /\ c.verified => [c EXCEPT !.verified = b] = c
<1>1. Missing \in Content
  BY UpdateBoundsAssumption DEF Missing, Content
<1>2. \A r \in 0..MaxRelease : Whole(r) \in Content
  BY DEF Whole, Content
<1>3. \A c \in Content, b \in BOOLEAN :
         /\ [c EXCEPT !.whole = b] \in Content
         /\ [c EXCEPT !.verified = b] \in Content
         /\ [c EXCEPT !.verified = b].verified = b
         /\ b /\ c.verified => [c EXCEPT !.verified = b] = c
  BY DEF Content
<1> QED BY <1>1, <1>2, <1>3

LEMMA OffType ==
    /\ Off \in UpdateRecords /\ Off.at = "off" /\ Off.file = "oct" /\ ~Off.alone
    /\ \A t : Telling(Off, t)
<1>1. /\ Off.at = "off" /\ Off.file = "oct" /\ ~Off.alone /\ Off.archive = Missing
      /\ Off \in UpdateRecords
  BY ContentTypes, UpdateBoundsAssumption DEF Off, UpdateRecords, Files
<1> QED BY <1>1 DEF Telling, Installing

\* A step of u that installs nothing: u's record becomes r, its temp file t.
Becomes(u, r, t) ==
    /\ r \in UpdateRecords /\ t \in Content /\ Telling(r, t)
    /\ Running(u)
    /\ r.alone => run[u].alone
    /\ r.at \notin {"off", "ended"} /\ r.file = "helper" =>
         run[u].file = "helper" /\ r.release = run[u].release
    /\ run' = [run EXCEPT ![u] = r]
    /\ temp' = [temp EXCEPT ![u] = t]
    /\ UNCHANGED << released, installed, updates >>

LEMMA BecomesKeeps ==
    ASSUME UpdateInv, NEW u \in Updaters, NEW r, NEW t, Becomes(u, r, t)
    PROVE  UpdateInv'
<1> USE DEF UpdateInv, Becomes
<1>1. UpdateTypeOK'
  BY DEF UpdateTypeOK, TempNames
<1>2. /\ run'[u] = r /\ temp'[u] = t
      /\ \A v \in Updaters \ {u} : run'[v] = run[v] /\ temp'[v] = temp[v]
  BY DEF UpdateTypeOK, TempNames
<1>3. TellingInv'
  BY <1>2 DEF TellingInv
<1>4. AloneInv'
  BY <1>2 DEF AloneInv, Running
<1>5. OctInv'
  BY <1>2 DEF OctInv, Running
<1>6. InstalledIsWhole'
  BY DEF InstalledIsWhole
<1> QED BY <1>1, <1>3, <1>4, <1>5, <1>6

LEMMA EndedType ==
    ASSUME UpdateInv, NEW u \in Updaters, Running(u), NEW ok \in BOOLEAN,
           run' = [run EXCEPT ![u] = Ended(u, ok)],
           NEW t \in Content, temp' = [temp EXCEPT ![u] = t],
           UNCHANGED << released, installed, updates >>
    PROVE  Becomes(u, Ended(u, ok), t)
<1> DEFINE e == [run[u] EXCEPT !.at = "ended", !.ok = ok]
<1>1. run[u] \in UpdateRecords
  BY DEF UpdateInv, UpdateTypeOK
<1>2. CASE run[u].by = "app"
  <2>1. e \in UpdateRecords /\ e.at = "ended" /\ e.alone = run[u].alone
    BY <1>1 DEF UpdateRecords
  <2>2. Telling(e, t)
    BY <2>1, <1>1 DEF Telling, Installing, UpdateRecords
  <2>3. Ended(u, ok) = e
    BY <1>2 DEF Ended
  <2> HIDE DEF e
  <2> QED BY <2>1, <2>2, <2>3 DEF Becomes
<1>3. CASE run[u].by # "app"
  <2>1. Ended(u, ok) = Off
    BY <1>3 DEF Ended
  <2> QED BY <2>1, OffType DEF Becomes
<1> QED BY <1>2, <1>3

\* A step that leaves the temp files alone leaves u's as it is.
LEMMA SameTemp ==
    ASSUME UpdateInv, NEW u \in Updaters, UNCHANGED temp
    PROVE  temp[u] \in Content /\ temp' = [temp EXCEPT ![u] = temp[u]]
BY DEF UpdateInv, UpdateTypeOK, TempNames

LEMMA PrivateSteps ==
    ASSUME UpdateInv, NEW u \in Updaters,
           Lookup(u) \/ confirmSelfUpdate(u) \/ downloadReleaseFile(u) \/ Verify(u)
             \/ ExtractHelper(u)
    PROVE  \E r, t : Becomes(u, r, t)
<1>1. /\ run[u] \in UpdateRecords /\ Telling(run[u], temp[u])
      /\ released \in 0..MaxRelease
  BY DEF UpdateInv, UpdateTypeOK, TellingInv
<1>2. UNCHANGED temp /\ UNCHANGED << released, installed, updates >>
  BY DEF Lookup, confirmSelfUpdate, downloadReleaseFile, Verify, ExtractHelper, Step, Goes
<1>3. temp[u] \in Content /\ temp' = [temp EXCEPT ![u] = temp[u]]
  BY <1>2, SameTemp
<1>4. Running(u)
  BY DEF Lookup, confirmSelfUpdate, downloadReleaseFile, Verify, ExtractHelper, Running
<1>5. ASSUME NEW ok \in BOOLEAN, Step(u, Ended(u, ok))
      PROVE  \E r, t : Becomes(u, r, t)
  BY <1>3, <1>4, <1>5, EndedType DEF Step
<1>6. ASSUME NEW r, Step(u, r), r \in UpdateRecords, Telling(r, temp[u]),
             r.alone = run[u].alone, r.file = run[u].file,
             r.file = "helper" => r.release = run[u].release
      PROVE  \E s, t : Becomes(u, s, t)
  BY <1>3, <1>4, <1>6 DEF Step, Becomes
<1>7. CASE Lookup(u)
  <2>1. run[u].at = "lookup" /\ run[u].file = "oct"
    BY <1>1, <1>7 DEF Lookup, Telling, Installing, UpdateRecords, Files
  <2>2. ASSUME NEW at \in {"download", "confirm"},
               Step(u, [run[u] EXCEPT !.release = released, !.at = at])
        PROVE  \E r, t : Becomes(u, r, t)
    <3> DEFINE r == [run[u] EXCEPT !.release = released, !.at = at]
    <3>1. r \in UpdateRecords /\ r.at = at /\ r.alone = run[u].alone /\ r.file = "oct"
      BY <1>1, <2>1 DEF UpdateRecords
    <3>2. Telling(r, temp[u])
      BY <3>1 DEF Telling, Installing
    <3> HIDE DEF r
    <3> QED BY <3>1, <3>2, <2>1, <2>2, <1>6 DEF r
  <2> QED BY <1>5, <1>7, <2>2 DEF Lookup
<1>8. CASE confirmSelfUpdate(u)
  <2> DEFINE r == [run[u] EXCEPT !.at = "download"]
  <2>1. run[u].at = "confirm" /\ run[u].file = "oct"
    BY <1>1, <1>8 DEF confirmSelfUpdate, Telling, Installing, UpdateRecords, Files
  <2>2. r \in UpdateRecords /\ r.at = "download" /\ r.alone = run[u].alone /\ r.file = "oct"
    BY <1>1, <2>1 DEF UpdateRecords
  <2>3. Telling(r, temp[u])
    BY <2>2 DEF Telling, Installing
  <2> HIDE DEF r
  <2>4. CASE Step(u, r)
    BY <2>1, <2>2, <2>3, <2>4, <1>6
  <2> QED BY <1>5, <1>8, <2>4 DEF confirmSelfUpdate, Goes, r
<1>9. CASE downloadReleaseFile(u)
  <2>1. run[u].at = "download" /\ run[u].file = "oct"
    BY <1>1, <1>9 DEF downloadReleaseFile, Telling, Installing, UpdateRecords, Files
  <2>2. ASSUME NEW same \in BOOLEAN,
               Step(u, [run[u] EXCEPT !.at = "verify",
                          !.archive = [Whole(run[u].release) EXCEPT !.verified = same]])
        PROVE  \E r, t : Becomes(u, r, t)
    <3> DEFINE w == Whole(run[u].release)
               a == [w EXCEPT !.verified = same]
               r == [run[u] EXCEPT !.at = "verify", !.archive = a]
    <3>1. w \in Content /\ w.verified
      BY <1>1, ContentTypes DEF UpdateRecords, Whole
    <3> HIDE DEF w
    <3>2. a \in Content /\ (a.verified => a = w)
      BY <3>1, ContentTypes
    <3> HIDE DEF a
    <3>3. /\ r \in UpdateRecords /\ r.at = "verify" /\ r.alone = run[u].alone
          /\ r.file = "oct" /\ r.archive = a /\ r.release = run[u].release
      BY <1>1, <2>1, <3>2 DEF UpdateRecords
    <3> HIDE DEF r
    <3>4. Telling(r, temp[u])
      BY <3>2, <3>3 DEF Telling, Installing, w
    <3> QED BY <3>3, <3>4, <2>1, <2>2, <1>6 DEF r, a, w
  <2> QED BY <1>5, <1>9, <2>2 DEF downloadReleaseFile
<1>10. CASE Verify(u)
  <2> DEFINE r == [run[u] EXCEPT !.at = "create"]
  <2>1. run[u].at = "verify" /\ run[u].file = "oct"
    BY <1>1, <1>10 DEF Verify, Telling, Installing, UpdateRecords, Files
  <2>2. /\ r \in UpdateRecords /\ r.at = "create" /\ r.alone = run[u].alone
        /\ r.file = "oct" /\ r.archive = run[u].archive /\ r.release = run[u].release
    BY <1>1, <2>1 DEF UpdateRecords
  <2> HIDE DEF r
  <2>3. CASE run[u].archive.verified /\ Step(u, r)
    <3>1. Telling(r, temp[u])
      BY <1>1, <2>1, <2>2, <2>3 DEF Telling, Installing
    <3> QED BY <2>1, <2>2, <2>3, <3>1, <1>6
  <2> QED BY <1>5, <1>10, <2>3 DEF Verify, Goes, r
<1>11. CASE ExtractHelper(u)
  <2> DEFINE r == [run[u] EXCEPT !.at = "create"]
  <2>1. run[u].at = "helper"
    BY <1>11 DEF ExtractHelper
  <2>2. /\ r \in UpdateRecords /\ r.at = "create" /\ r.alone = run[u].alone
        /\ r.file = run[u].file /\ r.archive = run[u].archive /\ r.release = run[u].release
    BY <1>1, <2>1 DEF UpdateRecords
  <2>3. Telling(r, temp[u])
    BY <1>1, <2>1, <2>2 DEF Telling, Installing
  <2> HIDE DEF r
  <2>4. CASE Step(u, r)
    BY <2>2, <2>3, <2>4, <1>6
  <2> QED BY <1>5, <1>11, <2>4 DEF ExtractHelper, Goes, r
<1> QED BY <1>7, <1>8, <1>9, <1>10, <1>11

LEMMA WritingSteps ==
    ASSUME UpdateInv, NEW u \in Updaters,
           CreateTemp(u) \/ CopyAndSync(u) \/ InstallFails(u) \/ Killed(u)
    PROVE  \E r, t : Becomes(u, r, t)
<1>1. /\ run[u] \in UpdateRecords /\ Telling(run[u], temp[u])
      /\ run[u].archive \in Content /\ Missing \in Content
  BY ContentTypes DEF UpdateInv, UpdateTypeOK, TellingInv, UpdateRecords
<1>2. Running(u) /\ UNCHANGED << released, installed, updates >>
  BY DEF CreateTemp, CopyAndSync, InstallFails, Killed, Writing, Running, Step, Goes
<1>3. ASSUME NEW at \in {"copy", "rename"}, run[u].at \in {"create", "copy"},
             NEW t \in Content, at = "rename" => t = run[u].archive,
             temp' = [temp EXCEPT ![u] = t], Goes(u, at)
      PROVE  Becomes(u, [run[u] EXCEPT !.at = at], t)
  <2> DEFINE r == [run[u] EXCEPT !.at = at]
  <2>1. /\ r \in UpdateRecords /\ r.at = at /\ r.alone = run[u].alone
        /\ r.file = run[u].file /\ r.archive = run[u].archive /\ r.release = run[u].release
    BY <1>1 DEF UpdateRecords
  <2>2. Telling(r, t)
    BY <1>1, <1>3, <2>1 DEF Telling, Installing
  <2>3. run' = [run EXCEPT ![u] = r]
    BY <1>3 DEF Goes, Step
  <2> HIDE DEF r
  <2> QED BY <1>2, <1>3, <2>1, <2>2, <2>3 DEF Becomes, r
<1>4. CASE CreateTemp(u)
  <2> DEFINE t == [run[u].archive EXCEPT !.whole = FALSE]
  <2>1. t \in Content
    BY <1>1, ContentTypes
  <2> HIDE DEF t
  <2> QED BY <1>3, <1>4, <2>1 DEF CreateTemp, TempFile, t
<1>5. CASE CopyAndSync(u)
  BY <1>1, <1>3, <1>5 DEF CopyAndSync, TempFile
<1>6. CASE InstallFails(u)
  <2> DEFINE ok == run[u].file = "helper"
  <2>1. ok \in BOOLEAN
    OBVIOUS
  <2> HIDE DEF ok
  <2> QED BY <1>1, <1>2, <1>6, <2>1, EndedType DEF InstallFails, TempFile, Step, ok
<1>7. CASE Killed(u)
  BY <1>1, <1>2, <1>7, EndedType DEF Killed, TempFile, Step
<1> QED BY <1>4, <1>5, <1>6, <1>7

\* What a rename leaves: the file is what the temp file held, whole and
\* verified, and nothing else of the update but its stage has changed.
LEMMA RenameInstalls ==
    ASSUME UpdateInv, NEW u \in Updaters, Rename(u)
    PROVE  /\ installed' = [installed EXCEPT ![run[u].file] = Whole(run[u].release)]
           /\ run[u].file \in Files /\ run[u].release \in 0..MaxRelease
           /\ Running(u)
BY DEF UpdateInv, UpdateTypeOK, TellingInv, Telling, Installing, UpdateRecords, Rename,
       TempFile, Running

LEMMA RenameKeeps ==
    ASSUME UpdateInv, NEW u \in Updaters, Rename(u)
    PROVE  UpdateInv'
<1> DEFINE h == [run[u] EXCEPT !.at = "helper", !.file = "helper"]
           e == [run[u] EXCEPT !.at = "ended", !.ok = TRUE]
           r == AfterRename(u)
<1>1. /\ installed' = [installed EXCEPT ![run[u].file] = Whole(run[u].release)]
      /\ run[u].file \in Files /\ run[u].release \in 0..MaxRelease /\ Running(u)
  BY RenameInstalls
<1>2. /\ run[u] \in UpdateRecords /\ run[u].archive = Whole(run[u].release)
      /\ run[u].at = "rename"
  BY DEF UpdateInv, UpdateTypeOK, TellingInv, Telling, Installing, Rename
<1>3. ASSUME run[u].file = "oct"
      PROVE  /\ r \in UpdateRecords /\ Telling(r, Missing) /\ r.at = "helper"
             /\ r.alone = run[u].alone /\ r.release = run[u].release
  <2>1. r = h
    BY <1>3 DEF AfterRename
  <2>2. /\ h \in UpdateRecords /\ h.at = "helper" /\ h.file = "helper"
        /\ h.alone = run[u].alone /\ h.release = run[u].release
        /\ h.archive = Whole(run[u].release)
    BY <1>2 DEF UpdateRecords, Files
  <2> HIDE DEF h, r
  <2>3. Telling(r, Missing)
    BY <2>1, <2>2 DEF Telling, Installing
  <2> QED BY <2>1, <2>2, <2>3
<1>4. ASSUME run[u].file = "helper"
      PROVE  r \in UpdateRecords /\ Telling(r, Missing) /\ r.at \in {"ended", "off"}
  <2>1. r = Off \/ r = e
    BY <1>4 DEF AfterRename, Ended
  <2>2. e \in UpdateRecords /\ e.at = "ended"
    BY <1>2 DEF UpdateRecords
  <2> HIDE DEF e, r
  <2>3. Telling(e, Missing)
    BY <2>2 DEF Telling, Installing, UpdateRecords, Files
  <2> QED BY <2>1, <2>2, <2>3, OffType
<1> HIDE DEF h, e, r
<1>5. /\ r \in UpdateRecords /\ Telling(r, Missing)
      /\ r.at \in {"helper", "ended", "off"}
      /\ r.at = "helper" => /\ run[u].file = "oct" /\ r.alone = run[u].alone
                            /\ r.release = run[u].release
  BY <1>1, <1>3, <1>4 DEF Files
<1>6. /\ run' = [run EXCEPT ![u] = r] /\ temp' = [temp EXCEPT ![u] = Missing]
      /\ UNCHANGED << released, updates >>
  BY DEF Rename, TempFile, r
<1>7. UpdateTypeOK'
  <2>1. Whole(run[u].release) \in Content /\ Missing \in Content
    BY <1>1, ContentTypes
  <2> QED BY <1>1, <1>5, <1>6, <2>1 DEF UpdateInv, UpdateTypeOK, TempNames
<1>8. /\ run'[u] = r /\ temp'[u] = Missing
      /\ \A v \in Updaters \ {u} : run'[v] = run[v] /\ temp'[v] = temp[v]
  BY <1>6 DEF UpdateInv, UpdateTypeOK, TempNames
<1>9. TellingInv'
  BY <1>5, <1>8 DEF UpdateInv, TellingInv
<1>10. AloneInv'
  BY <1>1, <1>5, <1>8 DEF UpdateInv, AloneInv, Running
<1>11. OctInv'
  <2>1. ASSUME NEW v \in Updaters, run'[v].alone, Running(v)', run'[v].file = "helper"
        PROVE  installed'["oct"] = Whole(run'[v].release)
    <3>1. CASE v = u
      BY <1>1, <1>5, <1>8, <2>1, <3>1 DEF Running, UpdateInv, UpdateTypeOK, Files
    <3>2. CASE v # u
      BY <1>1, <1>8, <2>1, <3>2 DEF Running, UpdateInv, AloneInv
    <3> QED BY <3>1, <3>2
  <2> QED BY <2>1 DEF OctInv
<1>12. InstalledIsWhole'
  BY <1>1 DEF UpdateInv, UpdateTypeOK, InstalledIsWhole, Whole
<1> QED BY <1>7, <1>9, <1>10, <1>11, <1>12 DEF UpdateInv

\* An update begins: the others are alone no more.
LEMMA StartKeeps ==
    ASSUME UpdateInv, NEW u \in Updaters, NEW by \in {"shell", "app"}, Start(u, by),
           UNCHANGED << released, installed, temp >>
    PROVE  UpdateInv'
<1> DEFINE others == {v \in Updaters \ {u} : Running(v)}
           lone == others = {}
           r == [Off EXCEPT !.at = "lookup", !.by = by,
                            !.release = installed["oct"].release, !.alone = lone]
           g(v) == [run[v] EXCEPT !.alone = FALSE]
<1>1. /\ run[u] \in UpdateRecords /\ \A v \in Updaters : run[v] \in UpdateRecords
      /\ installed["oct"].release \in 0..MaxRelease
  BY DEF UpdateInv, UpdateTypeOK, Files, Content
<1>2. lone \in BOOLEAN
  OBVIOUS
<1>3. /\ run' = [v \in Updaters |-> IF v = u THEN r ELSE g(v)]
      /\ updates < MaxUpdates /\ updates' = updates + 1
  BY DEF Start
<1> HIDE DEF lone
<1>4. /\ r \in UpdateRecords /\ r.at = "lookup" /\ r.file = "oct" /\ (r.alone <=> lone)
  BY <1>1, <1>2, OffType DEF UpdateRecords
<1>5. Telling(r, temp[u])
  BY <1>4 DEF Telling, Installing
<1>6. ASSUME NEW v \in Updaters
      PROVE  /\ g(v) \in UpdateRecords /\ g(v).at = run[v].at /\ ~g(v).alone
             /\ g(v).file = run[v].file /\ g(v).archive = run[v].archive
             /\ g(v).release = run[v].release
  BY <1>1 DEF UpdateRecords
<1> HIDE DEF r, g
<1>7. UpdateTypeOK'
  BY <1>3, <1>4, <1>6, UpdateBoundsAssumption DEF UpdateInv, UpdateTypeOK
<1>8. TellingInv'
  <2>1. ASSUME NEW v \in Updaters PROVE Telling(run'[v], temp[v])
    <3>1. CASE v = u
      BY <1>3, <1>5, <3>1
    <3>2. CASE v # u
      BY <1>3, <1>6, <3>2 DEF UpdateInv, TellingInv, Telling
    <3> QED BY <3>1, <3>2
  <2> QED BY <2>1 DEF TellingInv
<1>9. AloneInv'
  <2>1. ASSUME NEW v \in Updaters, NEW w \in Updaters, v # w, run'[v].alone, Running(v)'
        PROVE  ~Running(w)'
    <3>1. v = u /\ lone
      BY <1>3, <1>4, <1>6, <2>1
    <3> QED BY <1>3, <1>6, <2>1, <3>1 DEF Running, lone
  <2> QED BY <2>1 DEF AloneInv
<1>10. OctInv'
  BY <1>3, <1>4, <1>6 DEF OctInv
<1>11. InstalledIsWhole'
  BY DEF UpdateInv, InstalledIsWhole
<1> QED BY <1>7, <1>8, <1>9, <1>10, <1>11 DEF UpdateInv

\* The app has heard of an update that ended.
LEMMA AnsweredKeeps ==
    ASSUME UpdateInv, NEW u \in Updaters, run' = [run EXCEPT ![u] = Off],
           UNCHANGED << released, installed, temp, updates >>
    PROVE  UpdateInv'
<1>1. /\ run'[u] = Off /\ \A v \in Updaters \ {u} : run'[v] = run[v]
  BY DEF UpdateInv, UpdateTypeOK
<1>2. UpdateTypeOK'
  BY OffType DEF UpdateInv, UpdateTypeOK
<1>3. TellingInv' /\ AloneInv' /\ OctInv'
  BY <1>1, OffType DEF UpdateInv, TellingInv, AloneInv, OctInv, Running
<1>4. InstalledIsWhole'
  BY DEF UpdateInv, InstalledIsWhole
<1> QED BY <1>2, <1>3, <1>4 DEF UpdateInv

LEMMA UnchangedKeeps ==
    ASSUME UpdateInv, UNCHANGED << installed, temp, run, updates >>,
           released' \in 1..MaxRelease
    PROVE  UpdateInv'
BY DEF UpdateInv, UpdateTypeOK, TellingInv, AloneInv, OctInv, InstalledIsWhole, Running

LEMMA UpdateStepKeeps ==
    ASSUME UpdateInv, NEW u \in Updaters, UpdateStep(u)
    PROVE  UpdateInv'
BY PrivateSteps, WritingSteps, BecomesKeeps, RenameKeeps, StartKeeps
   DEF UpdateStep, StartFromShell

-----------------------------------------------------------------------------
(* The app.                                                                *)

CheckRecords == [generation : Nat, tag : 0..MaxRelease, late : BOOLEAN]

LateInv ==
    /\ generation \in Nat
    /\ check \in [Checks -> CheckRecords]
    /\ \A c \in Checks : /\ check[c].generation <= generation
                         /\ check[c].late => check[c].generation < generation

IInv == UpdateInv /\ LateInv

LEMMA LaunchKeeps ==
    ASSUME UpdateInv, NEW u \in Updaters, LaunchUpdate(u),
           UNCHANGED << released, installed, temp >>
    PROVE  UpdateInv'
BY StartKeeps DEF LaunchUpdate

LEMMA AutoInstallKeeps ==
    ASSUME UpdateInv, NEW tag, maybeAutoInstall(tag),
           UNCHANGED << released, installed, temp >>
    PROVE  UpdateInv'
<1>1. ASSUME UNCHANGED << run, updates >> PROVE UpdateInv'
  BY <1>1, UnchangedKeeps DEF UpdateInv, UpdateTypeOK
<1>2. UNCHANGED << run, updates >> \/ \E u \in Updaters : LaunchUpdate(u)
  BY DEF maybeAutoInstall
<1> QED BY <1>1, <1>2, LaunchKeeps

LEMMA InitUpdate == Init => UpdateInv
<1> SUFFICES ASSUME Init PROVE UpdateInv
  OBVIOUS
<1> USE DEF Init, UpdateInit
<1>1. 1 \in 0..MaxRelease /\ 1 \in 1..MaxRelease /\ 0 \in 0..MaxUpdates
  BY UpdateBoundsAssumption
<1>2. /\ Whole(1) \in Content /\ Missing \in Content
      /\ Whole(1).whole /\ Whole(1).verified
  BY <1>1, ContentTypes DEF Whole
<1>3. UpdateTypeOK
  BY <1>1, <1>2, OffType DEF UpdateTypeOK
<1>4. TellingInv /\ AloneInv /\ OctInv
  BY OffType DEF TellingInv, AloneInv, OctInv, Running
<1>5. InstalledIsWhole
  BY <1>2 DEF InstalledIsWhole
<1> QED BY <1>3, <1>4, <1>5 DEF UpdateInv

LEMMA NextUpdate ==
    ASSUME IInv, [Next]_vars
    PROVE  UpdateInv'
<1> USE DEF IInv
<1>1. ASSUME UNCHANGED << installed, temp, run, updates >>, released' \in 1..MaxRelease
      PROVE  UpdateInv'
  BY <1>1, UnchangedKeeps
<1>2. released \in 1..MaxRelease
  BY DEF UpdateInv, UpdateTypeOK
<1>3. CASE Publish /\ UNCHANGED << monitorVars, isUpdating, asking >>
  BY <1>1, <1>2, <1>3, UpdateBoundsAssumption DEF Publish
<1>4. CASE RequestUpdate
  BY <1>1, <1>2, <1>4 DEF RequestUpdate, updateVars
<1>5. CASE setAutomaticallyChecksForUpdates
  BY <1>1, <1>2, <1>5 DEF setAutomaticallyChecksForUpdates, updateVars
<1>6. CASE setAutomaticallyInstallUpdates
  BY <1>6, AutoInstallKeeps DEF setAutomaticallyInstallUpdates
<1>7. ASSUME NEW u \in Updaters, Process(u)
      PROVE  UpdateInv'
  BY <1>7, UpdateStepKeeps DEF Process
<1>8. ASSUME NEW u \in Updaters, AnswerAlert(u)
      PROVE  UpdateInv'
  BY <1>1, <1>2, <1>8, LaunchKeeps DEF AnswerAlert
<1>9. ASSUME NEW u \in Updaters, UpdateAnswered(u)
      PROVE  UpdateInv'
  BY <1>9, AnsweredKeeps DEF UpdateAnswered
<1>10. ASSUME NEW c \in Checks, CheckNow(c) \/ CheckFails(c)
       PROVE  UpdateInv'
  BY <1>1, <1>2, <1>10 DEF CheckNow, CheckFails, updateVars
<1>11. ASSUME NEW c \in Checks, CheckAnswered(c)
       PROVE  UpdateInv'
  BY <1>1, <1>2, <1>11, AutoInstallKeeps DEF CheckAnswered
<1>12. CASE UNCHANGED vars
  BY <1>1, <1>2, <1>12 DEF vars
<1> QED BY <1>3, <1>4, <1>5, <1>6, <1>7, <1>8, <1>9, <1>10, <1>11, <1>12 DEF Next

LEMMA NoCheckType == NoCheck \in CheckRecords /\ NoCheck.generation = 0 /\ ~NoCheck.late
BY UpdateBoundsAssumption DEF NoCheck, CheckRecords

LEMMA InitLate == Init => LateInv
BY NoCheckType DEF Init, LateInv

LEMMA NextLate ==
    ASSUME IInv, [Next]_vars
    PROVE  LateInv'
<1> USE DEF IInv
<1>1. ASSUME UNCHANGED << generation, check >> PROVE LateInv'
  BY <1>1 DEF LateInv
<1>2. ASSUME NEW c \in Checks, NEW r \in CheckRecords, r.generation <= generation,
             ~r.late, generation' = generation, check' = [check EXCEPT ![c] = r]
      PROVE  LateInv'
  BY <1>2 DEF LateInv
<1>3. CASE setAutomaticallyChecksForUpdates
  <2>1. CASE ~checksOn
    BY <1>1, <1>3, <2>1 DEF setAutomaticallyChecksForUpdates
  <2>2. CASE checksOn
    <3> DEFINE flying(c) == InFlight(c)
               g(c) == [check[c] EXCEPT !.late = flying(c)]
    <3>1. generation' = generation + 1 /\ check' = [c \in Checks |-> g(c)]
      BY <1>3, <2>2 DEF setAutomaticallyChecksForUpdates
    <3>2. \A c \in Checks : flying(c) \in BOOLEAN
      BY DEF InFlight
    <3> HIDE DEF flying
    <3>3. \A c \in Checks : g(c) \in CheckRecords /\ g(c).generation = check[c].generation
      BY <3>2 DEF LateInv, CheckRecords
    <3> HIDE DEF g
    <3>4. \A c \in Checks : check[c].generation \in Nat
      BY DEF LateInv, CheckRecords
    <3> QED BY <3>1, <3>3, <3>4 DEF LateInv
  <2> QED BY <2>1, <2>2
<1>4. ASSUME NEW c \in Checks, CheckNow(c)
      PROVE  LateInv'
  <2> DEFINE r == [NoCheck EXCEPT !.tag = released, !.generation = generation]
  <2>1. r \in CheckRecords /\ r.generation = generation /\ ~r.late
    <3>1. released \in 0..MaxRelease /\ generation \in Nat
      BY DEF LateInv, UpdateInv, UpdateTypeOK
    <3>2. r \in CheckRecords /\ r.generation = generation /\ r.late = NoCheck.late
      BY <3>1, NoCheckType DEF CheckRecords
    <3> HIDE DEF r
    <3> QED BY <3>2, NoCheckType
  <2>2. generation' = generation /\ check' = [check EXCEPT ![c] = r]
    BY <1>4 DEF CheckNow
  <2> HIDE DEF r
  <2> QED BY <1>2, <2>1, <2>2 DEF LateInv
<1>5. ASSUME NEW c \in Checks, CheckFails(c) \/ CheckAnswered(c)
      PROVE  LateInv'
  BY <1>2, <1>5, NoCheckType DEF CheckFails, CheckAnswered, LateInv
<1>6. CASE Publish /\ UNCHANGED << monitorVars, isUpdating, asking >>
  BY <1>1, <1>6 DEF monitorVars
<1>7. CASE RequestUpdate
  BY <1>1, <1>7 DEF RequestUpdate, monitorVars
<1>8. CASE setAutomaticallyInstallUpdates
  BY <1>1, <1>8 DEF setAutomaticallyInstallUpdates
<1>9. ASSUME NEW u \in Updaters, Process(u) \/ AnswerAlert(u) \/ UpdateAnswered(u)
      PROVE  LateInv'
  BY <1>1, <1>9 DEF Process, AnswerAlert, UpdateAnswered, monitorVars
<1>10. CASE UNCHANGED vars
  BY <1>1, <1>10 DEF vars, monitorVars
<1> QED BY <1>3, <1>4, <1>5, <1>6, <1>7, <1>8, <1>9, <1>10 DEF Next

LEMMA Invariance == Spec => []IInv
<1>1. Init => IInv
  BY InitUpdate, InitLate DEF IInv
<1>2. IInv /\ [Next]_vars => IInv'
  BY NextUpdate, NextLate DEF IInv
<1> QED BY <1>1, <1>2, PTL DEF Spec

-----------------------------------------------------------------------------
\* However updates overlap, fail and are killed, the installed oct and helper
\* are each all of one verified release (replaceExecutable, update.go 676).
THEOREM FilesAreWhole == Spec => []InstalledIsWhole
<1>1. IInv => InstalledIsWhole
  BY DEF IInv, UpdateInv
<1> QED BY <1>1, Invariance, PTL

\* An update nothing else overlapped, run to the end of its helper, leaves both
\* files at the release it announced (installReleaseAsset, update.go 372).
THEOREM LoneUpdatesInstall == Spec => LoneUpdateInstalls
<1> DEFINE Kept ==
      \A u \in Updaters :
          Rename(u) /\ run[u].file = "helper" /\ run[u].alone =>
              \A f \in Files : installed'[f] = Whole(run[u].release)
<1>1. IInv => Kept
  <2> SUFFICES ASSUME IInv, NEW u \in Updaters, Rename(u), run[u].file = "helper",
                      run[u].alone, NEW f \in Files
               PROVE  installed'[f] = Whole(run[u].release)
    OBVIOUS
  <2>1. /\ installed' = [installed EXCEPT !["helper"] = Whole(run[u].release)]
        /\ Running(u)
    BY RenameInstalls DEF IInv
  <2>2. installed["oct"] = Whole(run[u].release)
    BY <2>1 DEF IInv, UpdateInv, OctInv
  <2>3. installed \in [Files -> Content]
    BY DEF IInv, UpdateInv, UpdateTypeOK
  <2> QED BY <2>1, <2>2, <2>3 DEF Files
<1> QED BY <1>1, Invariance, PTL DEF LoneUpdateInstalls, Spec

\* An answer to a request sent before the checks were turned off shows and
\* starts nothing (ReleaseUpdateMonitor.checkNow).
THEOREM LateAnswersDropped == Spec => LateAnswersAreDropped
<1> DEFINE Dropped ==
      \A c \in Checks :
          CheckAnswered(c) /\ check[c].late => UNCHANGED << available, run >>
<1>1. IInv => Dropped
  <2> SUFFICES ASSUME IInv, NEW c \in Checks, CheckAnswered(c), check[c].late
               PROVE  UNCHANGED << available, run >>
    OBVIOUS
  <2>1. ~IsCurrent(c)
    BY DEF IInv, LateInv, CheckRecords, IsCurrent
  <2> QED BY <2>1 DEF CheckAnswered
<1> QED BY <1>1, Invariance, PTL DEF LateAnswersAreDropped, Spec

-----------------------------------------------------------------------------
(* The processes of the menubar.                                           *)

\* What the process table tells of each process.
KindOK(p) ==
    /\ proc[p].kind = "none" => proc[p].at = "none"
    /\ proc[p].kind \in {"helper", "legacy"} => proc[p].at = "up"
    /\ proc[p].at = "load" => proc[p].kind \in {"bare", "enable"}
    /\ proc[p].kind = "bare" => \/ proc[p].at \in {"look", "load"}
                                \/ proc[p].at = "launch" /\ ~helperInstalled
    /\ proc[p].child => proc[p].kind \in {"bare", "--legacy"}
    /\ p \notin proc[p].targets

\* A command at its start, or a systray child, that no menubar may be beside.
Clear(e) == \/ e.at = "load"
            \/ e.at = "launch" /\ e.kind # "bare"
            \/ e.child /\ e.kind = "--legacy"

\* A command that met no other one has only menubars beside it.  Before it
\* starts one it has waited for those it found, or found none.
AloneOK(p) == proc[p].alone =>
    /\ \A q \in Procs \ {p} : proc[q].kind \in {"none", "helper", "legacy"}
    /\ proc[p].at = "wait" => Menubars \subseteq proc[p].targets
    /\ Clear(proc[p]) => Menubars = {}

InstancesInv == MenubarTypeOK /\ \A p \in Procs : KindOK(p) /\ AloneOK(p)

LEMMA EntryTypes ==
    /\ Gone \in Entries /\ Owned \in Entries
    /\ Gone.kind = "none" /\ Gone.at = "none" /\ ~Gone.alone /\ ~Gone.child
    /\ Gone.targets = {}
    /\ Owned.kind = "helper" /\ Owned.at = "up" /\ ~Owned.alone /\ ~Owned.child
    /\ Owned.targets = {}
BY DEF Gone, Owned, Entries

\* A process that is not the one that acts goes on as it was, or is gone.
GoesOn(s, ps) ==
    IF s \in ps THEN proc'[s] = Gone
    ELSE /\ proc'[s].kind = proc[s].kind /\ proc'[s].at = proc[s].at
         /\ proc'[s].alone = proc[s].alone /\ proc'[s].child = proc[s].child
         /\ proc'[s].targets = proc[s].targets \ ps

LEMMA WithoutFacts ==
    ASSUME MenubarTypeOK, NEW ps \in SUBSET Procs
    PROVE  /\ Without(ps) \in [Procs -> Entries]
           /\ \A s \in ps : Without(ps)[s] = Gone
           /\ \A s \in Procs \ ps :
                /\ Without(ps)[s] = [proc[s] EXCEPT !.targets = @ \ ps]
                /\ Without(ps)[s].kind = proc[s].kind /\ Without(ps)[s].at = proc[s].at
                /\ Without(ps)[s].alone = proc[s].alone
                /\ Without(ps)[s].child = proc[s].child
                /\ Without(ps)[s].targets = proc[s].targets \ ps
<1>1. \A s \in Procs : [proc[s] EXCEPT !.targets = @ \ ps] \in Entries
  BY DEF MenubarTypeOK, Entries
<1>2. \A s \in ps : Without(ps)[s] = Gone
  BY DEF Without
<1>3. \A s \in Procs \ ps : Without(ps)[s] = [proc[s] EXCEPT !.targets = @ \ ps]
  BY DEF Without
<1>4. Without(ps) \in [Procs -> Entries]
  BY <1>1, EntryTypes DEF Without
<1>5. \A s \in Procs :
        /\ [proc[s] EXCEPT !.targets = @ \ ps].kind = proc[s].kind
        /\ [proc[s] EXCEPT !.targets = @ \ ps].at = proc[s].at
        /\ [proc[s] EXCEPT !.targets = @ \ ps].alone = proc[s].alone
        /\ [proc[s] EXCEPT !.targets = @ \ ps].child = proc[s].child
        /\ [proc[s] EXCEPT !.targets = @ \ ps].targets = proc[s].targets \ ps
  BY DEF MenubarTypeOK, Entries
<1> QED
  BY <1>2, <1>3, <1>4, <1>5

LEMMA WithoutRest ==
    ASSUME MenubarTypeOK, NEW ps \in SUBSET Procs, NEW s \in Procs, proc'[s] = Without(ps)[s]
    PROVE  GoesOn(s, ps)
<1>1. CASE s \in ps
  <2>1. proc'[s] = Gone
    BY <1>1, WithoutFacts
  <2> QED
    BY <1>1, <2>1 DEF GoesOn
<1>2. CASE s \notin ps
  <2> DEFINE e == Without(ps)[s]
  <2>1. /\ e.kind = proc[s].kind /\ e.at = proc[s].at /\ e.alone = proc[s].alone
        /\ e.child = proc[s].child /\ e.targets = proc[s].targets \ ps
    BY <1>2, WithoutFacts
  <2>2. proc'[s] = e
    OBVIOUS
  <2> HIDE DEF e
  <2> QED
    BY <1>2, <2>1, <2>2 DEF GoesOn
<1> QED
  BY <1>1, <1>2

\* A step of a command p which makes the processes of ps go, and starts those
\* of new, that were not there.
CommandActs(p, ps, new) ==
    /\ proc[p].kind \notin {"none", "helper", "legacy"}
    /\ proc' \in [Procs -> Entries] /\ helperInstalled' = helperInstalled
    /\ \A s \in Procs \ ({p} \union new) : GoesOn(s, ps)
    /\ \A s \in new : Free(s)

LEMMA CommandStep ==
    ASSUME InstancesInv, NEW p \in Procs, NEW ps \in SUBSET Procs, NEW new \in SUBSET Procs,
           CommandActs(p, ps, new), KindOK(p)', AloneOK(p)',
           \A s \in new : KindOK(s)' /\ AloneOK(s)'
    PROVE  \A s \in Procs : KindOK(s)' /\ AloneOK(s)'
<1> TAKE s \in Procs
<1>1. CASE s = p
  BY <1>1
<1>2. CASE s \in new \ {p}
  BY <1>2
<1>3. CASE s \notin {p} \union new
  <2>1. GoesOn(s, ps) /\ helperInstalled' = helperInstalled
    BY <1>3 DEF CommandActs
  <2>2. KindOK(s)'
    BY <2>1, EntryTypes DEF GoesOn, InstancesInv, KindOK
  <2>3. ~proc[s].alone
    BY <1>3 DEF CommandActs, InstancesInv, AloneOK
  <2>4. ~proc'[s].alone
    BY <2>1, <2>3, EntryTypes DEF GoesOn
  <2> QED
    BY <2>2, <2>4 DEF AloneOK
<1> QED
  BY <1>1, <1>2, <1>3

\* A command that ends, taking others along.
LEMMA EndStep ==
    ASSUME InstancesInv, NEW p \in Procs, NEW ps \in SUBSET Procs,
           proc[p].kind \notin {"none", "helper", "legacy"},
           helperInstalled' = helperInstalled,
           proc' = Without(ps \union {p}) \/ proc' = [Without(ps) EXCEPT ![p] = Gone]
    PROVE  /\ proc' \in [Procs -> Entries]
           /\ \A s \in Procs : KindOK(s)' /\ AloneOK(s)'
<1>0. MenubarTypeOK
  BY DEF InstancesInv
<1>1. PICK gone \in SUBSET Procs :
        /\ proc' \in [Procs -> Entries] /\ proc'[p] = Gone
        /\ \A s \in Procs \ {p} : GoesOn(s, gone)
  <2>1. CASE proc' = Without(ps \union {p})
    <3>1. ps \union {p} \in SUBSET Procs
      OBVIOUS
    <3>2. proc' \in [Procs -> Entries] /\ proc'[p] = Gone
      BY <1>0, <2>1, <3>1, WithoutFacts
    <3>3. \A s \in Procs \ {p} : GoesOn(s, ps \union {p})
      BY <1>0, <2>1, <3>1, WithoutRest
    <3> QED
      BY <3>1, <3>2, <3>3
  <2>2. CASE proc' = [Without(ps) EXCEPT ![p] = Gone]
    <3>2. proc' \in [Procs -> Entries] /\ proc'[p] = Gone
      BY <1>0, <2>2, WithoutFacts, EntryTypes
    <3>3. \A s \in Procs \ {p} : proc'[s] = Without(ps)[s]
      BY <1>0, <2>2, WithoutFacts
    <3>4. \A s \in Procs \ {p} : GoesOn(s, ps)
      BY <1>0, <3>3, WithoutRest
    <3> QED
      BY <3>2, <3>4
  <2> QED
    BY <2>1, <2>2
<1>2. KindOK(p)' /\ AloneOK(p)'
  BY <1>1, EntryTypes DEF KindOK, AloneOK
<1>3. CommandActs(p, gone, {})
  BY <1>1 DEF CommandActs
<1> QED
  BY <1>1, <1>2, <1>3, CommandStep

\* A command that goes on as e and leaves the others alone.
LEMMA OwnStep ==
    ASSUME InstancesInv, NEW p \in Procs, proc[p].kind \notin {"none", "helper", "legacy"},
           helperInstalled' = helperInstalled,
           NEW e \in Entries, proc' \in [Procs -> Entries], proc'[p] = e,
           \A s \in Procs \ {p} : GoesOn(s, {}),
           e.kind = "none" => e.at = "none",
           e.kind \in {"helper", "legacy"} => e.at = "up",
           e.at = "load" => e.kind \in {"bare", "enable"},
           e.kind = "bare" => \/ e.at \in {"look", "load"}
                              \/ e.at = "launch" /\ ~helperInstalled,
           e.child => e.kind \in {"bare", "--legacy"},
           p \notin e.targets,
           e.alone => /\ proc[p].alone /\ e.kind \notin {"helper", "legacy"}
                      /\ e.at = "wait" => Menubars \subseteq e.targets
                      /\ Clear(e) => Menubars = {}
    PROVE  \A s \in Procs : KindOK(s)' /\ AloneOK(s)'
<1>1. KindOK(p)'
  BY DEF KindOK
<1>2. \A s \in Procs \ {p} : proc'[s].kind = proc[s].kind
  BY DEF GoesOn
<1>3. ASSUME e.alone PROVE Menubars' = Menubars
  BY <1>2, <1>3 DEF Menubars
<1>4. AloneOK(p)'
  BY <1>2, <1>3 DEF AloneOK, InstancesInv
<1>5. CommandActs(p, {}, {})
  BY DEF CommandActs
<1> QED
  BY <1>1, <1>4, <1>5, CommandStep

LEMMA Untouched ==
    ASSUME NEW s, proc'[s] = proc[s]
    PROVE  GoesOn(s, {})
BY DEF GoesOn

LEMMA AtStep ==
    ASSUME InstancesInv, NEW p \in Procs, proc[p].kind \notin {"none", "helper", "legacy"},
           helperInstalled' = helperInstalled,
           NEW l \in {"look", "stop", "launch", "load"}, NEW alone \in BOOLEAN,
           proc' = [proc EXCEPT ![p] = [proc[p] EXCEPT !.at = l, !.alone = alone]],
           l = "load" => proc[p].kind \in {"bare", "enable"},
           proc[p].kind = "bare" => l = "load" \/ (l = "launch" /\ ~helperInstalled),
           alone => /\ proc[p].alone
                    /\ l = "load" \/ (l = "launch" /\ proc[p].kind # "bare") => Menubars = {}
    PROVE  /\ proc' \in [Procs -> Entries]
           /\ \A s \in Procs : KindOK(s)' /\ AloneOK(s)'
<1> DEFINE e == [proc[p] EXCEPT !.at = l, !.alone = alone]
<1>1. /\ e \in Entries /\ e.at = l /\ e.kind = proc[p].kind /\ e.child = proc[p].child
      /\ e.targets = proc[p].targets /\ e.alone = alone
  BY DEF InstancesInv, MenubarTypeOK, Entries
<1>2. proc' = [proc EXCEPT ![p] = e]
  OBVIOUS
<1> HIDE DEF e
<1>3. proc' \in [Procs -> Entries] /\ proc'[p] = e /\ \A s \in Procs \ {p} : proc'[s] = proc[s]
  BY <1>1, <1>2 DEF InstancesInv, MenubarTypeOK
<1>4. \A s \in Procs \ {p} : GoesOn(s, {})
  BY <1>3, Untouched
<1>5. proc[p].child => proc[p].kind \in {"bare", "--legacy"}
  BY DEF InstancesInv, KindOK
<1>6. p \notin proc[p].targets
  BY DEF InstancesInv, KindOK
<1>7. alone /\ Clear(e) => Menubars = {}
  BY <1>1 DEF Clear, InstancesInv, AloneOK
<1>8. l # "wait"
  OBVIOUS
<1> QED
  BY <1>1, <1>3, <1>4, <1>5, <1>6, <1>7, <1>8, OwnStep

LEMMA NoInstances ==
    ASSUME NEW p \in Procs, proc[p].kind \notin {"helper", "legacy"}
    PROVE  Menubars \subseteq Instances(p)
BY DEF Menubars, Instances

LEMMA LookStep ==
    ASSUME InstancesInv, NEW p \in Procs, Look(p) \/ LookBlind(p) \/ NoneRunning(p)
    PROVE  /\ proc' \in [Procs -> Entries]
           /\ \A s \in Procs : KindOK(s)' /\ AloneOK(s)'
<1> DEFINE GoesTo(l, alone) ==
             proc' = [proc EXCEPT ![p] = [proc[p] EXCEPT !.at = l, !.alone = alone]]
<1>0. proc[p] \in Entries /\ proc \in [Procs -> Entries]
  BY DEF InstancesInv, MenubarTypeOK
<1>1. proc[p].kind \in Kinds /\ helperInstalled' = helperInstalled
  BY DEF Look, LookBlind, NoneRunning, HasToLook, EnablesItem, Only, Kinds, Flags
<1>2. proc[p].kind \notin {"none", "helper", "legacy"} /\ proc[p].alone \in BOOLEAN
  BY <1>0, <1>1 DEF Kinds, Flags, Entries
<1>3. ASSUME NEW l \in {"stop", "launch", "load"}, proc' = At(p, l)
      PROVE  GoesTo(l, proc[p].alone)
  <2>1. [proc[p] EXCEPT !.at = l] = [proc[p] EXCEPT !.at = l, !.alone = proc[p].alone]
    BY <1>0 DEF Entries
  <2> QED BY <1>0, <1>3, <2>1 DEF At
<1>4. CASE proc[p].kind = "bare" /\ ~helperInstalled /\ proc' = At(p, "launch")
  BY <1>1, <1>2, <1>3, <1>4, AtStep
<1>5. CASE /\ proc[p].kind \in Flags /\ (proc[p].child \/ Instances(p) = {})
           /\ proc' = At(p, "launch")
  <2>1. proc[p].alone => Menubars = {}
    BY <1>2, <1>5, NoInstances DEF InstancesInv, KindOK, AloneOK, Clear, Flags
  <2>2. proc[p].kind # "bare"
    BY <1>5 DEF Flags
  <2> QED
    BY <1>1, <1>2, <1>3, <1>5, <2>1, <2>2, AtStep
<1>6. CASE HasToLook(p) /\ proc' = At(p, "stop")
  <2>1. proc[p].kind # "bare"
    BY <1>6 DEF HasToLook, Flags
  <2> QED
    BY <1>1, <1>2, <1>3, <1>6, <2>1, AtStep
<1>7. CASE HasToLook(p) /\ proc' = [proc EXCEPT ![p].at = "launch", ![p].alone = FALSE]
  <2>1. proc[p].kind # "bare"
    BY <1>7 DEF HasToLook, Flags
  <2>2. GoesTo("launch", FALSE)
    BY <1>0, <1>7
  <2> QED
    BY <1>1, <1>2, <2>1, <2>2, AtStep
<1>8. CASE EnablesItem(p) /\ proc' = [proc EXCEPT ![p].at = "load", ![p].alone = FALSE]
  <2>1. GoesTo("load", FALSE) /\ proc[p].kind \in {"bare", "enable"}
    BY <1>0, <1>8 DEF EnablesItem
  <2> QED
    BY <1>1, <1>2, <2>1, AtStep
<1>9. CASE EnablesItem(p) /\ Instances(p) = {} /\ proc' = At(p, "load")
  <2>1. Menubars = {}
    BY <1>2, <1>9, NoInstances
  <2> QED
    BY <1>1, <1>2, <1>3, <1>9, <2>1, AtStep DEF EnablesItem
<1> QED
  BY <1>4, <1>5, <1>6, <1>7, <1>8, <1>9 DEF Look, LookBlind, NoneRunning, Only

\* A command p that sends its SIGTERMs and goes on as e.
LEMMA TermStep ==
    ASSUME InstancesInv, NEW p \in Procs, proc[p].at = "stop",
           NEW targets \in SUBSET Instances(p), NEW e,
           proc' = [Termed(targets) EXCEPT ![p] = e], helperInstalled' = helperInstalled,
           \/ e = Gone
           \/ e = GoesOnStarting(p) /\ Restarting(p)
           \/ /\ e = [proc[p] EXCEPT !.at = "wait", !.targets = targets]
              /\ targets = Instances(p)
    PROVE  /\ proc' \in [Procs -> Entries]
           /\ \A s \in Procs : KindOK(s)' /\ AloneOK(s)'
<1>0. /\ proc[p] \in Entries /\ targets \in SUBSET Procs /\ p \notin targets
      /\ proc[p].kind \notin {"none", "helper", "legacy", "bare"}
  BY DEF InstancesInv, MenubarTypeOK, Instances, KindOK
<1>1. \A s \in Procs : Termed(targets)[s] \in Entries /\ proc[s] \in Entries
  BY DEF InstancesInv, MenubarTypeOK, Entries, Termed
<1>2. ASSUME NEW s \in Procs
      PROVE  /\ Termed(targets)[s].kind = proc[s].kind
             /\ Termed(targets)[s].at = proc[s].at
             /\ Termed(targets)[s].alone = proc[s].alone
             /\ Termed(targets)[s].child = proc[s].child
             /\ Termed(targets)[s].targets = proc[s].targets
  BY <1>1 DEF Entries, Termed
<1>3. Termed(targets) \in [Procs -> Entries]
  BY <1>1 DEF Termed
<1>4. ASSUME e \in Entries
      PROVE  /\ proc' \in [Procs -> Entries] /\ proc'[p] = e
             /\ \A s \in Procs \ {p} : GoesOn(s, {})
  <2>1. /\ proc' \in [Procs -> Entries] /\ proc'[p] = e
        /\ \A s \in Procs \ {p} : proc'[s] = Termed(targets)[s]
    BY <1>3, <1>4
  <2> QED BY <1>2, <2>1 DEF GoesOn
<1>5. proc[p].alone /\ proc[p].child /\ proc[p].kind = "--legacy" => Menubars = {}
  BY DEF InstancesInv, AloneOK, Clear
<1>6. CASE e = Gone
  <2>1. e \in Entries
    BY <1>6, EntryTypes
  <2> QED BY <1>0, <1>4, <1>6, <2>1, EntryTypes, OwnStep
<1>7. CASE e = GoesOnStarting(p) /\ Restarting(p)
  <2>1. /\ e \in Entries /\ e.kind = "--daemon" /\ e.at = "look" /\ e.child = proc[p].child
        /\ e.targets = proc[p].targets /\ e.alone = proc[p].alone
    BY <1>0, <1>7 DEF Entries, Kinds, Flags, GoesOnStarting
  <2>2. ~proc[p].child /\ p \notin proc[p].targets
    BY <1>7 DEF InstancesInv, KindOK, Restarting
  <2>3. ~Clear(e)
    BY <2>1, <2>2 DEF Clear
  <2> QED BY <1>0, <1>4, <2>1, <2>2, <2>3, OwnStep
<1>8. CASE e = [proc[p] EXCEPT !.at = "wait", !.targets = targets] /\ targets = Instances(p)
  <2>1. /\ e \in Entries /\ e.kind = proc[p].kind /\ e.at = "wait" /\ e.child = proc[p].child
        /\ e.targets = targets /\ e.alone = proc[p].alone
    BY <1>0, <1>8 DEF Entries
  <2>2. /\ proc[p].child => proc[p].kind \in {"bare", "--legacy"}
        /\ Menubars \subseteq targets
    BY <1>0, <1>8, NoInstances DEF InstancesInv, KindOK
  <2>3. e.alone /\ Clear(e) => Menubars = {}
    BY <1>5, <2>1 DEF Clear
  <2> QED BY <1>0, <1>4, <2>1, <2>2, <2>3, OwnStep
<1> QED BY <1>6, <1>7, <1>8

LEMMA StopStep ==
    ASSUME InstancesInv, NEW p \in Procs, Stop(p) \/ StopFails(p)
    PROVE  /\ proc' \in [Procs -> Entries]
           /\ \A s \in Procs : KindOK(s)' /\ AloneOK(s)'
<1>1. CASE Stop(p)
  <2> DEFINE e == CASE Restarting(p) -> GoesOnStarting(p)
                    [] ~proc[p].script /\ proc[p].kind = "stop" -> Gone
                    [] proc[p].kind # "stop" ->
                         [proc[p] EXCEPT !.at = "wait", !.targets = Instances(p)]
  <2>1. /\ proc[p].at = "stop" /\ helperInstalled' = helperInstalled
        /\ proc' = [Termed(Instances(p)) EXCEPT ![p] = e]
    BY <1>1 DEF Stop, Only
  <2>2. \/ e = Gone
        \/ e = GoesOnStarting(p) /\ Restarting(p)
        \/ e = [proc[p] EXCEPT !.at = "wait", !.targets = Instances(p)]
    <3>1. proc[p].script \in BOOLEAN
      BY DEF InstancesInv, MenubarTypeOK, Entries
    <3> QED BY <3>1 DEF Restarting
  <2> HIDE DEF e
  <2> QED BY <2>1, <2>2, TermStep
<1>2. CASE StopFails(p)
  <2>1. PICK signalled \in SUBSET Instances(p) :
          proc' = [Termed(signalled) EXCEPT ![p] =
                     IF Restarting(p) THEN GoesOnStarting(p) ELSE Gone]
    BY <1>2 DEF StopFails, Only
  <2>2. proc[p].at = "stop" /\ helperInstalled' = helperInstalled
    BY <1>2 DEF StopFails, Only
  <2>3. CASE Restarting(p)
    BY <2>1, <2>2, <2>3, TermStep
  <2>4. CASE ~Restarting(p)
    BY <2>1, <2>2, <2>4, TermStep
  <2> QED BY <2>3, <2>4
<1> QED BY <1>1, <1>2

LEMMA WaitStep ==
    ASSUME InstancesInv, NEW p \in Procs, WaitForExit(p)
    PROVE  /\ proc' \in [Procs -> Entries]
           /\ \A s \in Procs : KindOK(s)' /\ AloneOK(s)'
<1> DEFINE ps == proc[p].targets
           f == Without(ps)
           e == [f[p] EXCEPT !.at = "launch", !.targets = {}]
<1>1. /\ MenubarTypeOK /\ ps \in SUBSET Procs /\ p \notin ps
      /\ proc[p].at = "wait" /\ proc[p].kind \notin {"none", "helper", "legacy", "bare"}
      /\ proc[p].child => proc[p].kind \in {"bare", "--legacy"}
  BY DEF InstancesInv, MenubarTypeOK, Entries, KindOK, WaitForExit
<1>2. /\ f \in [Procs -> Entries] /\ f[p] \in Entries
      /\ f[p].kind = proc[p].kind /\ f[p].alone = proc[p].alone /\ f[p].child = proc[p].child
  BY <1>1, WithoutFacts
<1>3. proc' = [f EXCEPT ![p] = e] /\ helperInstalled' = helperInstalled
  BY DEF WaitForExit, Only
<1> HIDE DEF ps, f
<1>4. /\ e \in Entries /\ e.at = "launch" /\ e.targets = {} /\ e.kind = proc[p].kind
      /\ e.alone = proc[p].alone /\ e.child = proc[p].child
  BY <1>2 DEF Entries
<1> HIDE DEF e
<1>5. /\ proc' \in [Procs -> Entries] /\ proc'[p] = e
      /\ \A s \in Procs \ {p} : proc'[s] = f[s]
  BY <1>2, <1>3, <1>4
<1>6. \A s \in Procs \ {p} : GoesOn(s, ps)
  BY <1>1, <1>5, WithoutRest DEF f
<1>7. KindOK(p)'
  BY <1>1, <1>4, <1>5 DEF KindOK
<1>8. AloneOK(p)'
  <2> SUFFICES ASSUME proc[p].alone
               PROVE  /\ \A q \in Procs \ {p} : proc'[q].kind \in {"none", "helper", "legacy"}
                      /\ Menubars' = {}
    BY <1>4, <1>5 DEF AloneOK
  <2>1. /\ Menubars \subseteq ps
        /\ \A q \in Procs \ {p} : proc[q].kind \in {"none", "helper", "legacy"}
    BY <1>1 DEF InstancesInv, AloneOK, ps
  <2>2. \A q \in Procs \ {p} :
           /\ proc'[q].kind \in {"none", "helper", "legacy"}
           /\ proc'[q].kind \in {"helper", "legacy"} => q \notin ps /\ q \in Menubars
    BY <1>6, <2>1, EntryTypes DEF GoesOn, Menubars
  <2>3. Menubars' = {}
    BY <1>1, <1>4, <1>5, <2>1, <2>2 DEF Menubars
  <2> QED BY <2>2, <2>3
<1>9. CommandActs(p, ps, {})
  BY <1>1, <1>3, <1>5, <1>6 DEF CommandActs
<1> QED
  BY <1>1, <1>5, <1>7, <1>8, <1>9, CommandStep

\* A command p that starts q and goes on as r.
LEMMA SpawnStep ==
    ASSUME InstancesInv, NEW p \in Procs, NEW q \in Procs, NEW ps \in SUBSET Procs, Free(q),
           proc[p].kind \notin {"none", "helper", "legacy"},
           helperInstalled' = helperInstalled,
           NEW r \in Entries, NEW n \in Entries,
           \/ proc' = [proc EXCEPT ![p] = r, ![q] = n]
           \/ proc' = [Without(ps) EXCEPT ![p] = r, ![q] = n],
           n.targets = {},
           \/ n.kind = "helper" /\ n.at = "up" /\ ~n.child /\ ~n.alone
           \/ n.kind \in {"bare", "--legacy"} /\ n.at = "look" /\ r = Gone,
           n.alone => proc[p].alone /\ (n.kind = "--legacy" => Menubars = {}),
           \/ r = Gone
           \/ /\ r.kind = "--foreground" /\ r.at = "ready" /\ ~r.child
              /\ p \notin r.targets /\ n.kind = "helper"
              /\ r.alone => proc[p].alone
    PROVE  /\ proc' \in [Procs -> Entries]
           /\ \A s \in Procs : KindOK(s)' /\ AloneOK(s)'
<1>1. MenubarTypeOK /\ p # q
  BY DEF InstancesInv, Free
<1>2. PICK gone \in SUBSET Procs :
        /\ proc' \in [Procs -> Entries] /\ proc'[p] = r /\ proc'[q] = n
        /\ \A s \in Procs \ {p, q} : GoesOn(s, gone)
  <2>1. CASE proc' = [proc EXCEPT ![p] = r, ![q] = n]
    <3>1. /\ proc' \in [Procs -> Entries] /\ proc'[p] = r /\ proc'[q] = n
          /\ \A s \in Procs \ {p, q} : proc'[s] = proc[s]
      BY <1>1, <2>1 DEF MenubarTypeOK
    <3>2. \A s \in Procs \ {p, q} : GoesOn(s, {})
      BY <3>1, Untouched
    <3> QED BY <3>1, <3>2
  <2>2. CASE proc' = [Without(ps) EXCEPT ![p] = r, ![q] = n]
    <3>1. Without(ps) \in [Procs -> Entries]
      BY <1>1, WithoutFacts
    <3>2. /\ proc' \in [Procs -> Entries] /\ proc'[p] = r /\ proc'[q] = n
          /\ \A s \in Procs \ {p, q} : proc'[s] = Without(ps)[s]
      BY <1>1, <2>2, <3>1
    <3>3. \A s \in Procs \ {p, q} : GoesOn(s, ps)
      BY <1>1, <3>2, WithoutRest
    <3> QED BY <3>2, <3>3
  <2> QED BY <2>1, <2>2
<1>3. KindOK(p)' /\ KindOK(q)'
  BY <1>2, EntryTypes DEF KindOK
<1>4. ASSUME proc[p].alone
      PROVE  \A s \in Procs \ {p, q} : /\ proc'[s].kind \in {"none", "helper", "legacy"}
                                       /\ s \in Menubars' => s \in Menubars
  <2>1. \A s \in Procs \ {p} : proc[s].kind \in {"none", "helper", "legacy"}
    BY <1>4 DEF InstancesInv, AloneOK
  <2> QED BY <1>2, <2>1, EntryTypes DEF GoesOn, Menubars
<1>5. AloneOK(p)'
  <2> SUFFICES ASSUME r.alone
               PROVE  \A s \in Procs \ {p} : proc'[s].kind \in {"none", "helper", "legacy"}
    BY <1>2, EntryTypes DEF AloneOK, Clear
  <2> QED BY <1>2, <1>4, EntryTypes
<1>6. AloneOK(q)'
  <2> SUFFICES ASSUME n.alone
               PROVE  /\ \A s \in Procs \ {q} : proc'[s].kind \in {"none", "helper", "legacy"}
                      /\ Clear(n) => Menubars' = {}
    BY <1>2 DEF AloneOK
  <2>1. r = Gone /\ proc[p].alone
    OBVIOUS
  <2>2. \A s \in Procs \ {q} : proc'[s].kind \in {"none", "helper", "legacy"}
    BY <1>2, <1>4, <2>1, EntryTypes
  <2>3. ASSUME Clear(n) PROVE Menubars' = {}
    <3>1. n.kind = "--legacy" /\ Menubars = {}
      BY <2>3 DEF Clear
    <3> QED BY <1>2, <1>4, <2>1, <3>1, EntryTypes DEF Menubars
  <2> QED BY <2>2, <2>3
<1>7. CommandActs(p, gone, {q})
  BY <1>2 DEF CommandActs
<1> QED
  BY <1>2, <1>3, <1>5, <1>6, <1>7, CommandStep

LEMMA StartStep ==
    ASSUME InstancesInv, NEW p \in Procs, NEW q \in Procs, Starts(p, q)
    PROVE  /\ proc' \in [Procs -> Entries]
           /\ \A s \in Procs : KindOK(s)' /\ AloneOK(s)'
<1>1. proc[p] \in Entries /\ proc[p].at \in {"launch", "load"}
  BY DEF InstancesInv, MenubarTypeOK, Starts, LaunchDetached, LaunchHere, EnableLaunchItem
<1>2. proc[p].kind \notin {"none", "helper", "legacy"} /\ helperInstalled' = helperInstalled
  BY <1>1 DEF InstancesInv, KindOK, Starts, LaunchDetached, LaunchHere,
       EnableLaunchItem, Only
<1>3. ASSUME NEW r \in Entries, NEW kind \in {"helper", "bare", "--legacy"},
             NEW child \in BOOLEAN, child <=> kind # "helper", child => r = Gone,
             Free(q), proc' = Spawned(p, r, q, kind, child),
             kind = "--legacy" => (proc[p].alone => Menubars = {}),
             \/ r = Gone
             \/ /\ r.kind = "--foreground" /\ r.at = "ready" /\ ~r.child
                /\ p \notin r.targets /\ kind = "helper"
                /\ r.alone => proc[p].alone
      PROVE  /\ proc' \in [Procs -> Entries]
             /\ \A s \in Procs : KindOK(s)' /\ AloneOK(s)'
  <2> DEFINE alone == child /\ proc[p].alone
             n == [Gone EXCEPT !.kind = kind, !.child = child, !.alone = alone,
                               !.at = IF child THEN "look" ELSE "up"]
  <2>0. alone \in BOOLEAN
    OBVIOUS
  <2> HIDE DEF alone
  <2>1. /\ n \in Entries /\ n.kind = kind /\ n.child = child /\ n.targets = {}
        /\ n.alone = alone /\ n.at = (IF child THEN "look" ELSE "up")
    BY <2>0 DEF Gone, Entries, Kinds, Flags
  <2>2. proc' = [proc EXCEPT ![p] = r, ![q] = n]
    BY <1>3 DEF Spawned, alone
  <2> HIDE DEF n
  <2>3. {} \in SUBSET Procs
    OBVIOUS
  <2>4. \/ n.kind = "helper" /\ n.at = "up" /\ ~n.child /\ ~n.alone
        \/ n.kind \in {"bare", "--legacy"} /\ n.at = "look" /\ r = Gone
    BY <1>3, <2>1 DEF alone
  <2>5. \/ r = Gone
        \/ /\ r.kind = "--foreground" /\ r.at = "ready" /\ ~r.child
           /\ p \notin r.targets /\ n.kind = "helper"
           /\ r.alone => proc[p].alone
    BY <1>3, <2>1
  <2>6. /\ Free(q) /\ n.targets = {}
        /\ n.alone => proc[p].alone /\ (n.kind = "--legacy" => Menubars = {})
    BY <1>3, <2>1 DEF alone
  <2> QED
    BY <1>2, <2>1, <2>2, <2>3, <2>4, <2>5, <2>6, SpawnStep
<1>4. CASE LaunchDetached(p, q)
  <2>1. Free(q) /\ proc[p].at = "launch"
    BY <1>4 DEF LaunchDetached, Fresh
  <2>2. CASE proc' = Spawned(p, Gone, q, "helper", FALSE)
    BY <1>3, <2>1, <2>2, EntryTypes
  <2>3. CASE proc' = Spawned(p, Gone, q, "bare", TRUE)
    BY <1>3, <2>1, <2>3, EntryTypes
  <2>4. CASE proc[p].kind = "--daemon --legacy" /\ proc' = Spawned(p, Gone, q, "--legacy", TRUE)
    <3>1. proc[p].alone => Menubars = {}
      BY <2>1, <2>4 DEF InstancesInv, AloneOK, Clear
    <3> QED BY <1>3, <2>1, <2>4, <3>1, EntryTypes
  <2> QED BY <1>4, <2>2, <2>3, <2>4 DEF LaunchDetached, Only
<1>5. CASE LaunchHere(p, q)
  <2> DEFINE r == [proc[p] EXCEPT !.at = "ready", !.targets = {q}]
  <2>1. p # q /\ ~proc[p].child /\ proc[p].kind = "--foreground"
    BY <1>2, <1>5 DEF LaunchHere, Fresh, Free, InstancesInv, KindOK
  <2>2. /\ r \in Entries /\ r.kind = "--foreground" /\ r.at = "ready" /\ ~r.child
        /\ r.targets = {q} /\ r.alone = proc[p].alone
    BY <1>1, <2>1 DEF Entries
  <2>3. proc' = Spawned(p, r, q, "helper", FALSE) /\ Free(q)
    BY <1>5 DEF LaunchHere, Only, Fresh
  <2> HIDE DEF r
  <2> QED
    BY <1>3, <2>1, <2>2, <2>3
<1>6. CASE EnableLaunchItem(p, q)
  <2> DEFINE ps == {s \in Procs : proc[s].owned}
  <2>1. ps \in SUBSET Procs /\ Unloaded = Without(ps) /\ Free(q)
    BY <1>6 DEF Unloaded, EnableLaunchItem, Fresh
  <2>2. CASE proc' = [Unloaded EXCEPT ![p] = Gone, ![q] = Owned]
    BY <1>2, <2>1, <2>2, EntryTypes, SpawnStep
  <2>3. CASE proc' = [Unloaded EXCEPT ![p] = Gone]
    BY <1>2, <2>1, <2>3, EndStep
  <2> QED BY <1>6, <2>2, <2>3 DEF EnableLaunchItem
<1> QED BY <1>4, <1>5, <1>6 DEF Starts

LEMMA LegacyStep ==
    ASSUME InstancesInv, NEW p \in Procs, RunLegacy(p)
    PROVE  /\ proc' \in [Procs -> Entries]
           /\ \A s \in Procs : KindOK(s)' /\ AloneOK(s)'
<1> DEFINE e == [Gone EXCEPT !.kind = "legacy", !.at = "up"]
<1>1. /\ e \in Entries /\ e.kind = "legacy" /\ e.at = "up" /\ ~e.child /\ ~e.alone
      /\ e.targets = {}
  BY DEF Gone, Entries
<1>2. proc' = [proc EXCEPT ![p] = e] /\ helperInstalled' = helperInstalled
  BY DEF RunLegacy, Only
<1>3. proc[p].kind \notin {"none", "helper", "legacy"}
  BY DEF RunLegacy
<1> HIDE DEF e
<1>4. proc' \in [Procs -> Entries] /\ proc'[p] = e /\ \A s \in Procs \ {p} : proc'[s] = proc[s]
  BY <1>1, <1>2 DEF InstancesInv, MenubarTypeOK
<1>5. \A s \in Procs \ {p} : GoesOn(s, {})
  BY <1>4, Untouched
<1> QED
  BY <1>1, <1>2, <1>3, <1>4, <1>5, OwnStep

LEMMA EndingStep ==
    ASSUME InstancesInv, NEW p \in Procs,
           \/ Declined(p) \/ Ready(p) \/ LaunchFails(p) \/ InstallLaunchItem(p)
           \/ DisableLaunchItem(p) \/ Ends(p)
    PROVE  /\ proc' \in [Procs -> Entries]
           /\ \A s \in Procs : KindOK(s)' /\ AloneOK(s)'
<1> USE DEF Declined, Ready, LaunchFails, InstallLaunchItem,
            DisableLaunchItem, Ends, Only
<1>1. proc[p] \in Entries /\ proc[p].at \in {"look", "ready", "launch"}
  BY DEF InstancesInv, MenubarTypeOK, EnablesItem, HasToLook
<1>2. proc[p].kind \notin {"none", "helper", "legacy"} /\ helperInstalled' = helperInstalled
  BY <1>1 DEF InstancesInv, KindOK
<1>3. ASSUME NEW ps \in SUBSET Procs,
             proc' = Without(ps \union {p}) \/ proc' = [Without(ps) EXCEPT ![p] = Gone]
      PROVE  /\ proc' \in [Procs -> Entries]
             /\ \A s \in Procs : KindOK(s)' /\ AloneOK(s)'
  BY <1>2, <1>3, EndStep
<1>4. CASE proc' = End(p)
  <2>1. {} \in SUBSET Procs /\ {} \union {p} = {p}
    OBVIOUS
  <2> QED BY <1>3, <1>4, <2>1 DEF End
<1>5. CASE proc' = Without(proc[p].targets \union {p})
  <2>1. proc[p].targets \in SUBSET Procs
    BY <1>1 DEF Entries
  <2> QED BY <1>3, <1>5, <2>1
<1>6. CASE proc' = [Unloaded EXCEPT ![p] = Gone]
  <2>1. {s \in Procs : proc[s].owned} \in SUBSET Procs
    OBVIOUS
  <2> QED BY <1>3, <1>6, <2>1 DEF Unloaded
<1> QED BY <1>4, <1>5, <1>6

\* A menubar or a command comes to its end by itself.
LEMMA ExitStep ==
    ASSUME InstancesInv, NEW p \in Procs, Exit(p)
    PROVE  /\ proc' \in [Procs -> Entries]
           /\ \A s \in Procs : KindOK(s)' /\ AloneOK(s)'
<1>1. /\ MenubarTypeOK /\ {p} \in SUBSET Procs /\ proc' = Without({p})
      /\ helperInstalled' = helperInstalled
  BY DEF InstancesInv, Exit, Only, End
<1>2. proc' \in [Procs -> Entries] /\ proc'[p] = Gone
  BY <1>1, WithoutFacts
<1>3. \A s \in Procs : GoesOn(s, {p})
  BY <1>1, WithoutRest
<1>4. ASSUME NEW s \in Procs PROVE KindOK(s)'
  BY <1>1, <1>3, EntryTypes DEF GoesOn, InstancesInv, KindOK
<1>5. Menubars' \subseteq Menubars \ {p}
  BY <1>3, EntryTypes DEF Menubars, GoesOn
<1>6. ASSUME NEW s \in Procs PROVE AloneOK(s)'
  <2> SUFFICES ASSUME proc'[s].alone PROVE AloneOK(s)'
    BY DEF AloneOK
  <2>1. /\ s # p /\ proc[s].alone /\ proc'[s].at = proc[s].at /\ proc'[s].kind = proc[s].kind
        /\ proc'[s].targets = proc[s].targets \ {p}
    BY <1>3, EntryTypes DEF GoesOn
  <2>2. \A q \in Procs \ {s} : proc'[q].kind \in {"none", "helper", "legacy"}
    BY <1>3, <2>1, EntryTypes DEF GoesOn, InstancesInv, AloneOK
  <2>3. proc'[s].child = proc[s].child
    BY <1>3, <2>1 DEF GoesOn
  <2> QED
    BY <1>5, <2>1, <2>2, <2>3 DEF InstancesInv, AloneOK, Clear
<1> QED BY <1>2, <1>4, <1>6

LEMMA BeginStep ==
    ASSUME InstancesInv, NEW p \in Procs, Restart(p) \/ \E kind \in Kinds : Run(p, kind)
    PROVE  /\ proc' \in [Procs -> Entries]
           /\ \A s \in Procs : KindOK(s)' /\ AloneOK(s)'
<1>1. PICK r \in Entries :
        /\ Begin(p, r) /\ r.kind \in Kinds /\ r.at \in {"look", "stop"} /\ ~r.child
        /\ r.targets = {} /\ (r.kind = "bare" => r.at = "look")
  <2>1. ASSUME NEW kind \in Kinds, Run(p, kind)
        PROVE  \E r \in Entries :
                 /\ Begin(p, r) /\ r.kind \in Kinds /\ r.at \in {"look", "stop"} /\ ~r.child
                 /\ r.targets = {} /\ (r.kind = "bare" => r.at = "look")
    <3> DEFINE r == [Gone EXCEPT !.kind = kind,
                                   !.at = IF kind = "stop" THEN "stop" ELSE "look"]
    <3>1. /\ r \in Entries /\ r.kind = kind /\ ~r.child /\ r.targets = {}
          /\ r.at = (IF kind = "stop" THEN "stop" ELSE "look")
      BY DEF Gone, Entries
    <3>2. Begin(p, r)
      BY <2>1 DEF Run
    <3> HIDE DEF r
    <3> QED BY <3>1, <3>2
  <2>2. CASE Restart(p)
    <3> DEFINE r == [Gone EXCEPT !.kind = "stop", !.at = "stop", !.script = TRUE]
    <3>1. /\ r \in Entries /\ r.kind = "stop" /\ ~r.child /\ r.targets = {} /\ r.at = "stop"
      BY DEF Gone, Entries, Kinds
    <3>2. Begin(p, r)
      BY <2>2 DEF Restart
    <3> HIDE DEF r
    <3> QED BY <3>1, <3>2 DEF Kinds
  <2> QED BY <2>1, <2>2
<1> DEFINE others == \A s \in Procs \ {p} : Free(s) \/ s \in Menubars
           e == [r EXCEPT !.alone = others]
           f(s) == [proc[s] EXCEPT !.alone = FALSE]
<1>2. /\ proc' = [s \in Procs |-> IF s = p THEN e ELSE f(s)]
      /\ helperInstalled' = helperInstalled
  BY <1>1 DEF Begin
<1>3. /\ e \in Entries /\ e.kind = r.kind /\ e.at = r.at /\ e.child = r.child
      /\ e.targets = {} /\ (e.alone <=> others)
  BY <1>1 DEF Entries
<1>4. ASSUME NEW s \in Procs
      PROVE  /\ f(s) \in Entries /\ f(s).kind = proc[s].kind /\ f(s).at = proc[s].at
             /\ f(s).child = proc[s].child /\ f(s).targets = proc[s].targets /\ ~f(s).alone
  BY DEF InstancesInv, MenubarTypeOK, Entries
<1> HIDE DEF e, f, others
<1>5. /\ proc' \in [Procs -> Entries] /\ proc'[p] = e
      /\ \A s \in Procs \ {p} : proc'[s] = f(s)
  BY <1>2, <1>3, <1>4
<1>6. KindOK(p)'
  BY <1>1, <1>3, <1>5 DEF KindOK, Kinds, Flags
<1>7. AloneOK(p)'
  BY <1>1, <1>3, <1>4, <1>5 DEF AloneOK, Clear, others, Free, Menubars
<1>8. ASSUME NEW s \in Procs \ {p} PROVE KindOK(s)' /\ AloneOK(s)'
  BY <1>2, <1>4, <1>5 DEF KindOK, AloneOK, InstancesInv
<1> QED BY <1>5, <1>6, <1>7, <1>8

LEMMA LoginStep ==
    ASSUME InstancesInv, NEW p \in Procs, Login(p)
    PROVE  /\ proc' \in [Procs -> Entries]
           /\ \A s \in Procs : KindOK(s)' /\ AloneOK(s)'
<1>1. proc' = [s \in Procs |-> IF s = p /\ plist /\ helperInstalled THEN Owned ELSE Gone]
  BY DEF Login
<1>2. proc' \in [Procs -> Entries] /\ \A s \in Procs : proc'[s] \in {Owned, Gone}
  BY <1>1, EntryTypes
<1> QED BY <1>2, EntryTypes DEF KindOK, AloneOK

LEMMA OtherTypes ==
    ASSUME InstancesInv, MenubarNext
    PROVE  /\ helperInstalled' \in BOOLEAN /\ plist' \in BOOLEAN /\ loaded' \in BOOLEAN
           /\ restart' \in {"none", "going", "back", "disturbed"}
           /\ commands' \in 0..MaxCommands /\ logins' \in 0..MaxLogins
<1> USE BoundsAssumption DEF InstancesInv, MenubarTypeOK
<1>1. PICK p \in Procs :
        \/ Proceeds(p) \/ Declined(p) \/ Exit(p) \/ Restart(p) \/ Login(p)
        \/ \E kind \in Kinds : Run(p, kind)
  BY DEF MenubarNext
<1>2. CASE Restart(p) \/ \E kind \in Kinds : Run(p, kind)
  <2>1. \E r : Begin(p, r)
    BY <1>2 DEF Restart, Run
  <2>2. /\ commands < MaxCommands /\ commands' = commands + 1
        /\ UNCHANGED << helperInstalled, plist, loaded, logins >>
    BY <2>1 DEF Begin
  <2>3. restart' \in {"none", "going", "back", "disturbed"}
    BY <1>2 DEF Restart, Run, Disturbed
  <2>4. commands' \in 0..MaxCommands
    BY <2>2
  <2> QED BY <2>2, <2>3, <2>4
<1>3. CASE Login(p)
  BY <1>3 DEF Login, Disturbed
<1>4. CASE \E q \in Procs : Starts(p, q)
  BY <1>4 DEF Starts, LaunchDetached, LaunchHere, EnableLaunchItem, Only, Back
<1>5. CASE Declined(p) \/ Exit(p) \/ (Proceeds(p) /\ ~\E q \in Procs : Starts(p, q))
  BY <1>5 DEF Proceeds, Declined, Exit, Look, LookBlind, Stop, StopFails, WaitForExit,
       RunLegacy, Ready, LaunchFails,
       InstallLaunchItem, NoneRunning, DisableLaunchItem, Ends, Only, Disturbed
<1> QED BY <1>1, <1>2, <1>3, <1>4, <1>5

LEMMA InstancesInit ==
    ASSUME MenubarInit
    PROVE  InstancesInv
<1>1. MenubarTypeOK
  <2>1. proc \in [Procs -> Entries]
    BY EntryTypes DEF MenubarInit
  <2>2. commands \in 0..MaxCommands /\ logins \in 0..MaxLogins
    BY BoundsAssumption DEF MenubarInit
  <2> QED BY <2>1, <2>2 DEF MenubarInit, MenubarTypeOK
<1>2. \A p \in Procs : proc[p] = Gone
  BY DEF MenubarInit
<1> QED BY <1>1, <1>2, EntryTypes DEF InstancesInv, KindOK, AloneOK

LEMMA InstancesNext ==
    ASSUME InstancesInv, [MenubarNext]_menubarVars
    PROVE  InstancesInv'
<1>1. CASE UNCHANGED menubarVars
  BY <1>1 DEF menubarVars, InstancesInv, MenubarTypeOK, KindOK, AloneOK, Clear, Menubars
<1>2. CASE MenubarNext
  <2>1. /\ proc' \in [Procs -> Entries]
        /\ \A s \in Procs : KindOK(s)' /\ AloneOK(s)'
    <3>1. PICK p \in Procs :
            \/ Proceeds(p) \/ Declined(p) \/ Exit(p) \/ Restart(p) \/ Login(p)
            \/ \E kind \in Kinds : Run(p, kind)
      BY <1>2 DEF MenubarNext
    <3>2. CASE Look(p) \/ LookBlind(p) \/ NoneRunning(p)
      BY <3>2, LookStep
    <3>3. CASE Stop(p) \/ StopFails(p)
      BY <3>3, StopStep
    <3>4. CASE WaitForExit(p)
      BY <3>4, WaitStep
    <3>5. CASE RunLegacy(p)
      BY <3>5, LegacyStep
    <3>6. CASE \/ Declined(p) \/ Ready(p) \/ LaunchFails(p) \/ InstallLaunchItem(p)
               \/ DisableLaunchItem(p) \/ Ends(p)
      BY <3>6, EndingStep
    <3>7. CASE \E q \in Procs : Starts(p, q)
      BY <3>7, StartStep
    <3>8. CASE Exit(p)
      BY <3>8, ExitStep
    <3>9. CASE Restart(p) \/ \E kind \in Kinds : Run(p, kind)
      BY <3>9, BeginStep
    <3>10. CASE Login(p)
      BY <3>10, LoginStep
    <3> QED
      BY <3>1, <3>2, <3>3, <3>4, <3>5, <3>6, <3>7, <3>8, <3>9, <3>10 DEF Proceeds
  <2> QED BY <1>2, <2>1, OtherTypes DEF InstancesInv, MenubarTypeOK
<1> QED BY <1>1, <1>2

LEMMA InstancesInvariance == MenubarSpec => []InstancesInv
<1>1. MenubarInit => InstancesInv
  BY InstancesInit
<1>2. InstancesInv /\ [MenubarNext]_menubarVars => InstancesInv'
  BY InstancesNext
<1> QED BY <1>1, <1>2, PTL DEF MenubarSpec

LEMMA StartLeavesOne ==
    ASSUME InstancesInv, NEW p \in Procs, proc[p].alone,
           RunLegacy(p) \/ \E q \in Procs : Starts(p, q), ~(Menubars' \subseteq Menubars)
    PROVE  \E s \in Procs : Menubars' = {s}
<1>1. \A q \in Procs \ {p} : proc[q].kind \in {"none", "helper", "legacy"}
  BY DEF InstancesInv, AloneOK
<1>2. /\ proc[p] \in Entries /\ proc[p].at \in {"launch", "load"} /\ MenubarTypeOK
      /\ proc[p].kind \notin {"none", "helper", "legacy"}
  BY DEF InstancesInv, MenubarTypeOK, KindOK, RunLegacy, Starts, LaunchDetached,
         LaunchHere, EnableLaunchItem
<1>3. ASSUME RunLegacy(p) \/ helperInstalled
      PROVE  Menubars = {}
  BY <1>2, <1>3 DEF InstancesInv, AloneOK, Clear, KindOK, RunLegacy
<1>4. ASSUME NEW q \in Procs \ {p}, NEW r, NEW n,
             proc' = [proc EXCEPT ![p] = r, ![q] = n],
             r.kind \notin {"helper", "legacy"}
      PROVE  /\ Menubars' \subseteq Menubars \union {q}
             /\ n.kind \notin {"helper", "legacy"} => Menubars' \subseteq Menubars
  BY <1>2, <1>4 DEF Menubars, MenubarTypeOK
<1>5. ASSUME NEW q, Menubars = {}, Menubars' \subseteq Menubars \union {q}
      PROVE  \E s \in Procs : Menubars' = {s}
  <2>1. PICK s \in Menubars' : s \notin Menubars
    OBVIOUS
  <2>2. s \in Procs /\ Menubars' = {s}
    BY <1>5, <2>1 DEF Menubars
  <2> QED BY <2>2
<1>6. CASE RunLegacy(p)
  <2>1. proc' = [proc EXCEPT ![p] = [Gone EXCEPT !.kind = "legacy", !.at = "up"]]
    BY <1>6 DEF RunLegacy, Only
  <2>2. Menubars' \subseteq Menubars \union {p}
    BY <1>2, <2>1 DEF Menubars, MenubarTypeOK
  <2> QED BY <1>3, <1>5, <1>6, <2>2
<1>7. ASSUME NEW q \in Procs, LaunchDetached(p, q)
      PROVE  \E s \in Procs : Menubars' = {s}
  <2>1. q # p
    BY <1>2, <1>7 DEF LaunchDetached, Fresh, Free
  <2>2. ASSUME NEW kind \in {"bare", "--legacy"}, proc' = Spawned(p, Gone, q, kind, TRUE)
        PROVE  FALSE
    <3> DEFINE n == [Gone EXCEPT !.kind = kind, !.child = TRUE,
                                 !.alone = TRUE /\ proc[p].alone,
                                 !.at = IF TRUE THEN "look" ELSE "up"]
    <3>1. n.kind = kind
      BY DEF Gone
    <3>2. proc' = [proc EXCEPT ![p] = Gone, ![q] = n]
      BY <2>2 DEF Spawned
    <3> HIDE DEF n
    <3> QED BY <1>4, <2>1, <2>2, <3>1, <3>2, EntryTypes
  <2>3. CASE helperInstalled /\ proc' = Spawned(p, Gone, q, "helper", FALSE)
    <3> DEFINE n == [Gone EXCEPT !.kind = "helper", !.child = FALSE,
                                 !.alone = FALSE /\ proc[p].alone,
                                 !.at = IF FALSE THEN "look" ELSE "up"]
    <3>1. proc' = [proc EXCEPT ![p] = Gone, ![q] = n]
      BY <2>3 DEF Spawned
    <3> HIDE DEF n
    <3>2. Menubars' \subseteq Menubars \union {q}
      BY <1>4, <2>1, <3>1, EntryTypes
    <3> QED BY <1>3, <1>5, <2>3, <3>2
  <2> QED BY <1>7, <2>2, <2>3 DEF LaunchDetached, Only
<1>8. ASSUME NEW q \in Procs, LaunchHere(p, q)
      PROVE  \E s \in Procs : Menubars' = {s}
  <2> DEFINE r == [proc[p] EXCEPT !.at = "ready", !.targets = {q}]
             n == [Gone EXCEPT !.kind = "helper", !.child = FALSE,
                               !.alone = FALSE /\ proc[p].alone,
                               !.at = IF FALSE THEN "look" ELSE "up"]
  <2>1. proc' = [proc EXCEPT ![p] = r, ![q] = n] /\ helperInstalled /\ q # p
    BY <1>2, <1>8 DEF LaunchHere, Only, Spawned, Fresh, Free
  <2>2. r.kind \notin {"helper", "legacy"}
    BY <1>2 DEF Entries
  <2> HIDE DEF n, r
  <2>3. Menubars' \subseteq Menubars \union {q}
    BY <1>4, <2>1, <2>2
  <2> QED BY <1>3, <1>5, <2>1, <2>3
<1>9. ASSUME NEW q \in Procs, EnableLaunchItem(p, q)
      PROVE  \E s \in Procs : Menubars' = {s}
  <2> DEFINE ps == {s \in Procs : proc[s].owned}
  <2>1. /\ ps \in SUBSET Procs /\ Unloaded = Without(ps)
        /\ q # p /\ proc[p].at = "load"
    BY <1>2, <1>9 DEF Unloaded, EnableLaunchItem, Fresh, Free
  <2>2. Menubars = {}
    BY <2>1 DEF InstancesInv, AloneOK, Clear
  <2>3. \/ proc' = [Without(ps) EXCEPT ![p] = Gone, ![q] = Owned]
        \/ proc' = [Without(ps) EXCEPT ![p] = Gone]
    BY <1>9, <2>1 DEF EnableLaunchItem
  <2> HIDE DEF ps
  <2>4. Without(ps) \in [Procs -> Entries]
    BY <1>2, <2>1, WithoutFacts
  <2>5. \A s \in Procs : Without(ps)[s].kind \in {proc[s].kind, "none"}
    <3>1. \A s \in Procs : s \in ps \/ s \in Procs \ ps
      OBVIOUS
    <3> QED BY <1>2, <2>1, <3>1, WithoutFacts, EntryTypes
  <2>6. proc'[p] = Gone /\ \A s \in Procs \ {p, q} : proc'[s] = Without(ps)[s]
    BY <2>1, <2>3, <2>4
  <2>7. Menubars' \subseteq Menubars \union {q}
    BY <2>5, <2>6, EntryTypes DEF Menubars
  <2> QED BY <1>5, <2>2, <2>7
<1> QED BY <1>6, <1>7, <1>8, <1>9 DEF Starts

-----------------------------------------------------------------------------
\* Every entry of the process table is one of a helper, of a systray menubar, of
\* a command at one of its steps or of no process, and a command waits for
\* processes only (cmd/menubar.go).
THEOREM InstancesTyped == MenubarSpec => []MenubarTypeOK
<1>1. InstancesInv => MenubarTypeOK
  BY DEF InstancesInv
<1> QED BY <1>1, InstancesInvariance, PTL

\* A command that starts a menubar, met no other command on its way and could
\* read the process table leaves exactly one running, however long the ones
\* before it hang on after their SIGTERM (handleExistingMenubarInstance,
\* EnableLaunchItem).
THEOREM LoneStartsLeaveOne == MenubarSpec => LoneStartLeavesOne
<1> DEFINE Leaves ==
      \A p \in Procs :
          /\ proc[p].alone /\ (RunLegacy(p) \/ \E q \in Procs : Starts(p, q))
          /\ ~(Menubars' \subseteq Menubars)
          => \E q \in Procs : Menubars' = {q}
<1>1. InstancesInv => Leaves
  BY StartLeavesOne
<1>2. [][Leaves]_menubarVars <=> LoneStartLeavesOne
  BY DEF LoneStartLeavesOne
<1> HIDE DEF Leaves
<1>3. MenubarSpec => [][Leaves]_menubarVars
  BY <1>1, InstancesInvariance, PTL DEF MenubarSpec
<1> QED BY <1>2, <1>3
=============================================================================
