------------------------------ MODULE SelfUpdate ------------------------------
(***************************************************************************)
(* `oct update` (cmd/update.go): the processes that look up, download,     *)
(* verify and install a release, and the two files they replace, oct and   *)
(* the menubar helper beside it.  Any of them may be killed at any step;   *)
(* several may run at once, started by hand or by the menubar app.         *)
(*                                                                         *)
(* Releases are numbered in the order they come out; the beta track and    *)
(* Homebrew, which installs by itself, are left out.                       *)
(***************************************************************************)
EXTENDS Integers, FiniteSets

CONSTANTS
    Updaters,    \* the `oct update` processes that may run at once
    NoUpdater,
    MaxRelease,  \* bound on the releases that come out
    MaxUpdates   \* bound on the processes started

ASSUME UpdatersAssumption == IsFiniteSet(Updaters) /\ NoUpdater \notin Updaters
ASSUME UpdateBoundsAssumption == MaxRelease \in Nat \ {0} /\ MaxUpdates \in Nat

VARIABLES
    released,  \* the newest release published
    installed, \* what the two installed files hold
    temp,      \* the temp files of CreateTemp, by name
    run,       \* the state of each `oct update`
    updates    \* processes started

updateVars == << released, installed, temp, run, updates >>

Files   == {"oct", "helper"}
\* What a file holds: an archive's binary, all of it or its first part, from
\* an archive that was verified or not.
Content == [release : 0..MaxRelease, whole : BOOLEAN, verified : BOOLEAN]
Missing == [release |-> 0, whole |-> FALSE, verified |-> FALSE]
Whole(r) == [release |-> r, whole |-> TRUE, verified |-> TRUE]

\* by: who started it; release: its own, and from the lookup on the one to be
\* installed; archive: what was downloaded; file: which of the two it is
\* installing; alone: no other update has run since it began; ok: how it ended.
Off == [at |-> "off", by |-> "shell", release |-> 0, archive |-> Missing,
        file |-> "oct", alone |-> FALSE, ok |-> FALSE]

Running(u) == run[u].at \notin {"off", "ended"}
Writing(u) == run[u].at \in {"create", "copy", "rename"}
TempNames  == Updaters \union {NoUpdater}

-----------------------------------------------------------------------------
Start(u, by) ==
    /\ run[u].at = "off" /\ updates < MaxUpdates
    /\ updates' = updates + 1
    /\ LET others == {v \in Updaters \ {u} : Running(v)} IN
       run' = [v \in Updaters |->
                 CASE v = u -> [Off EXCEPT !.at = "lookup", !.by = by,
                                  !.release = installed["oct"].release,
                                  !.alone = others = {}]
                   [] v # u -> [run[v] EXCEPT !.alone = FALSE]]

\* A process ends; the app still has to hear of one it started.
Ended(u, ok) ==
    IF run[u].by = "app" THEN [run[u] EXCEPT !.at = "ended", !.ok = ok] ELSE Off

Step(u, r) == /\ run' = [run EXCEPT ![u] = r]
              /\ UNCHANGED << released, installed, updates >>
Goes(u, at) == Step(u, [run[u] EXCEPT !.at = at])

\* The flags a process was started with; the app's is always --yes.
Modes(u) == IF run[u].by = "app" THEN {"--yes"} ELSE {"--yes", "--check", "none"}

\* runSelfUpdate up to the prompt: the lookup may fail.  A release that is not
\* newer than this oct ends the update, whatever the helper beside it is.
Lookup(u) ==
    /\ run[u].at = "lookup" /\ UNCHANGED temp
    /\ \/ Step(u, Ended(u, FALSE))
       \/ \E mode \in Modes(u) :
            IF run[u].release >= released \/ mode = "--check"
            THEN Step(u, Ended(u, TRUE))
            ELSE Step(u, [run[u] EXCEPT !.release = released,
                            !.at = IF mode = "--yes" THEN "download" ELSE "confirm"])

\* A shell that is no terminal counts as a no.
confirmSelfUpdate(u) ==
    /\ run[u].at = "confirm" /\ UNCHANGED temp
    /\ Goes(u, "download") \/ Step(u, Ended(u, TRUE))

\* The archive may differ from the one published, in transit or since.
downloadReleaseFile(u) ==
    /\ run[u].at = "download" /\ UNCHANGED temp
    /\ \/ Step(u, Ended(u, FALSE))
       \/ \E same \in BOOLEAN :
            Step(u, [run[u] EXCEPT !.at = "verify",
                       !.archive = [Whole(run[u].release) EXCEPT !.verified = same]])

\* gh proves the archive, finds it wrong, or cannot tell: missing or too old.
\* The environment may ask to skip it, or require it.
Attested(gh, env) == \/ env = "skip" \/ gh = "proved"
                     \/ gh = "unavailable" /\ env # "require"

\* The checksum, the attestation and the extraction of oct.
Verify(u) ==
    /\ run[u].at = "verify" /\ UNCHANGED temp
    /\ \E gh \in {"proved", "wrong", "unavailable"}, env \in {"skip", "require", "unset"},
         checksums, extracted \in BOOLEAN :
         IF checksums /\ run[u].archive.verified /\ Attested(gh, env) /\ extracted
         THEN Goes(u, "create")
         ELSE Step(u, Ended(u, FALSE))

-----------------------------------------------------------------------------
(* replaceExecutable for oct and copyExecutableFile for the helper: a temp *)
(* file is created, filled and renamed over the installed one.             *)

\* Mutant: the temp file is the target's name with ".new".
TempFileShared(u) == NoUpdater
\* os.CreateTemp takes a name no other process has.
TempFile(u) == u

CreateTemp(u) ==
    /\ run[u].at = "create"
    /\ temp' = [temp EXCEPT ![TempFile(u)] =
                  [run[u].archive EXCEPT !.whole = FALSE]]
    /\ Goes(u, "copy")

CopyAndSync(u) ==
    /\ run[u].at = "copy"
    /\ temp' = [temp EXCEPT ![TempFile(u)] = run[u].archive]
    /\ Goes(u, "rename")

\* After oct comes the helper; after the helper, success.
AfterRename(u) ==
    IF run[u].file = "oct" THEN [run[u] EXCEPT !.at = "helper", !.file = "helper"]
    ELSE Ended(u, TRUE)

Rename(u) ==
    /\ run[u].at = "rename"
    /\ installed' = [installed EXCEPT ![run[u].file] = temp[TempFile(u)]]
    /\ temp' = [temp EXCEPT ![TempFile(u)] = Missing]
    /\ run' = [run EXCEPT ![u] = AfterRename(u)]
    /\ UNCHANGED << released, updates >>

\* Any write may fail; the temp file goes with the return.  Without its oct the
\* update has failed, without its helper it succeeds with a warning.
InstallFails(u) ==
    /\ Writing(u)
    /\ temp' = [temp EXCEPT ![TempFile(u)] = Missing]
    /\ Step(u, Ended(u, run[u].file = "helper"))

\* Mutant: the helper comes from the newest release, not from the archive.
ExtractNewestHelper(u) ==
    /\ run[u].at = "helper" /\ UNCHANGED temp
    /\ Step(u, [run[u] EXCEPT !.at = "create", !.archive = Whole(released)])
\* installMenubarHelperFromArchive: darwin only, and not in every archive.
ExtractHelper(u) ==
    /\ run[u].at = "helper" /\ UNCHANGED temp
    /\ Goes(u, "create") \/ Step(u, Ended(u, TRUE))

\* A kill, by the user, a crash or the app's watchdog.  What it leaves in a temp
\* file is under a name nobody takes again, and forgotten here.
Killed(u) ==
    /\ Running(u)
    /\ temp' = [temp EXCEPT ![TempFile(u)] = Missing]
    /\ Step(u, Ended(u, FALSE))

Publish ==
    /\ released < MaxRelease /\ released' = released + 1
    /\ UNCHANGED << installed, temp, run, updates >>

UpdateInit ==
    /\ released = 1
    /\ installed = [f \in Files |-> Whole(1)]
    /\ temp = [n \in TempNames |-> Missing]
    /\ run = [u \in Updaters |-> Off]
    /\ updates = 0

StartFromShell(u) ==
    /\ Start(u, "shell")
    /\ UNCHANGED << released, installed, temp >>

UpdateStep(u) ==
    \/ StartFromShell(u)
    \/ Lookup(u) \/ confirmSelfUpdate(u) \/ downloadReleaseFile(u) \/ Verify(u)
    \/ CreateTemp(u) \/ CopyAndSync(u) \/ Rename(u) \/ InstallFails(u)
    \/ ExtractHelper(u) \/ Killed(u)
UpdateNext == Publish \/ \E u \in Updaters : UpdateStep(u)

-----------------------------------------------------------------------------
UpdateRecords ==
    [at : {"off", "lookup", "confirm", "download", "verify", "create", "copy",
           "rename", "helper", "ended"},
     by : {"shell", "app"}, release : 0..MaxRelease, archive : Content,
     file : Files, alone : BOOLEAN, ok : BOOLEAN]

UpdateTypeOK ==
    /\ released \in 1..MaxRelease
    /\ installed \in [Files -> Content]
    /\ temp \in [TempNames -> Content]
    /\ updates \in 0..MaxUpdates
    /\ run \in [Updaters -> UpdateRecords]

\* However updates overlap, fail and are killed, each installed file is all of
\* one release, from an archive that was verified: "two concurrent updates
\* cannot interleave writes into the same file" (update.go 685-686), and no
\* half of a file is ever renamed into place.
InstalledIsWhole ==
    \A f \in Files : installed[f].whole /\ installed[f].verified

\* An update that ran alone to the end of its helper leaves oct and the helper
\* at the release it announced, and never an older one, whatever earlier
\* updates left behind (installReleaseAsset).
LoneUpdateInstalls ==
    [][ \A u \in Updaters :
          Rename(u) /\ run[u].file = "helper" /\ run[u].alone =>
              \A f \in Files : installed'[f] = Whole(run[u].release) ]_updateVars
=============================================================================
