------------------------------ MODULE Updater ------------------------------
(***************************************************************************)
(* The updater (internal/updater): a goroutine of the service that looks   *)
(* for a newer build, verifies it and puts it in the place of the running  *)
(* executable.                                                             *)
(*                                                                         *)
(* A build is the number of its version or commit.  What matters of a file *)
(* is whether it is there and starts: Absent, Broken (half copied, or a    *)
(* build that does not run), or a build.  The file a process was started   *)
(* from can be renamed, but neither removed nor replaced while the process *)
(* lives: that is Windows, and it is what the swap relies on.              *)
(***************************************************************************)
EXTENDS Naturals

CONSTANTS
    Latest,     \* bound on the builds that are published
    Absent, Broken,
    Token       \* whether updater.github_token is set

Build == 1..Latest

ASSUME UpdaterAssumption ==
    /\ Latest \in Nat \ {0}
    /\ Absent \notin Nat /\ Broken \notin Nat /\ Absent # Broken
    /\ Token \in BOOLEAN

VARIABLES
    exe,        \* the file the service is started from
    old,        \* its backup, .old
    running,    \* the build of the process, Absent when there is none
    image,      \* which of the two files the process was started from by now is
    head,       \* the newest build published, 0 when there is none
    channel,    \* updater.channel of the configuration
    upc,        \* where the updater's goroutine is
    target,     \* the build it is to install
    source,     \* where it downloads it from
    download,   \* what it downloaded and extracted
    signalled,  \* restartSignal is closed
    unrepaired, \* a failed swap could not be undone
    cancelled   \* the context of the service is cancelled

files == <<exe, old, image>>
check == <<target, source, download>>
world == <<head, channel>>
updaterVars == <<exe, old, running, image, head, channel, upc, target, source, download,
                 signalled, unrepaired, cancelled>>

File == Build \cup {Absent, Broken}

UpdaterTypeOK ==
    /\ exe \in File
    /\ old \in File
    /\ running \in Build \cup {Absent}
    /\ image \in {"exe", "old"}
    /\ head \in 0..Latest
    /\ channel \in {"develop", "release"}
    /\ upc \in {"off", "idle", "download", "verify", "swap", "move", "create", "copy",
                "rollback", "installed", "signal", "panic"}
    /\ target \in Build
    /\ source \in {"nightly", "github"}
    /\ download \in File
    /\ signalled \in BOOLEAN
    /\ unrepaired \in BOOLEAN
    /\ cancelled \in BOOLEAN

Locked(name) == running # Absent /\ image = name

\* Mutant: a file that is locked is removed at the next boot of the machine.
RemoveOld_Delayed == old' \in {old, Absent}

\* os.Remove, its error ignored: the file is gone, or it could not be removed.
RemoveOld == old' \in IF Locked("old") THEN {old} ELSE {old, Absent}

\* A newer build appears on GitHub.
Publish ==
    /\ head < Latest
    /\ head' = head + 1
    /\ UNCHANGED <<files, channel, running, upc, check, signalled, unrepaired, cancelled>>

-----------------------------------------------------------------------------
(* checkRelease *)

\* Mutant: any release that differs from the running build is taken for newer.
CheckRelease_Different ==
    /\ channel = "release"
    /\ upc = "idle" /\ ~cancelled
    /\ ~Locked("old")
    /\ target' \in 1..head /\ target' # running
    /\ exe' \in {target', Broken}
    /\ old' = exe
    /\ image' = "old"
    /\ upc' = "installed"
    /\ UNCHANGED <<running, world, source, download, signalled, unrepaired, cancelled>>

\* UpdateTo verifies the checksum of the newest release and puts it in place,
\* or fails and leaves everything as it was.
CheckRelease ==
    /\ channel = "release"
    /\ upc = "idle" /\ ~cancelled
    /\ head > running
    /\ ~Locked("old")      \* it must move the running executable aside
    /\ exe' \in {head, Broken}
    /\ old' = exe
    /\ image' = "old"
    /\ target' = head
    /\ upc' = "installed"
    /\ UNCHANGED <<running, world, source, download, signalled, unrepaired, cancelled>>

-----------------------------------------------------------------------------
(* checkDevelop and downloadAndVerify *)

\* The newest artifact is of another commit than the running build.
CheckDevelop ==
    /\ channel = "develop"
    /\ upc = "idle" /\ ~cancelled
    /\ head # 0 /\ head # running
    /\ target' = head
    /\ source' = "nightly"
    /\ upc' = "download"
    /\ UNCHANGED <<files, running, world, download, signalled, unrepaired, cancelled>>

\* downloadAndVerify returns an error: once more from GitHub, if there is a token.
Failed ==
    /\ IF source = "nightly" /\ Token
       THEN source' = "github" /\ upc' = "download"
       ELSE upc' = "idle" /\ UNCHANGED source
    /\ UNCHANGED <<running, world, target, download, signalled, cancelled>>

DownloadFailed ==
    /\ upc = "download"
    /\ Failed
    /\ UNCHANGED <<files, unrepaired>>

\* nightly.link serves the newest build it knows of, GitHub the one asked for;
\* either may be one that does not run.
Download ==
    /\ upc = "download" /\ ~cancelled
    /\ download' \in {Broken} \cup IF source = "nightly" THEN 1..head ELSE {target}
    /\ upc' = "verify"
    /\ UNCHANGED <<files, running, world, target, source, signalled, unrepaired, cancelled>>

\* The downloaded build reports another commit.
Mismatch ==
    /\ upc = "verify"
    /\ download # target /\ download # Broken
    /\ Failed
    /\ UNCHANGED <<files, unrepaired>>

\* It reports the expected one.
Verified ==
    /\ upc = "verify"
    /\ download = target
    /\ upc' = "swap"
    /\ UNCHANGED <<files, running, world, check, signalled, unrepaired, cancelled>>

\* It could not be run, because it is broken, something interfered, or the
\* context is cancelled: the update proceeds.
Unverified ==
    /\ upc = "verify"
    /\ upc' = "swap"
    /\ UNCHANGED <<files, running, world, check, signalled, unrepaired, cancelled>>

-----------------------------------------------------------------------------
(* The swap *)

RemoveStale ==
    /\ upc = "swap"
    /\ RemoveOld
    /\ upc' = "move"
    /\ UNCHANGED <<exe, image, running, world, check, signalled, unrepaired, cancelled>>

\* The executable becomes the backup, under which the process goes on.
MoveAway ==
    /\ upc = "move"
    /\ exe # Absent /\ ~Locked("old")
    /\ old' = exe
    /\ exe' = Absent
    /\ image' = "old"
    /\ upc' = "create"
    /\ UNCHANGED <<running, world, check, signalled, unrepaired, cancelled>>

\* Mutant: the error of the rename is ignored.
MoveFailed_Ignored ==
    /\ upc = "move"
    /\ upc' = "create"
    /\ UNCHANGED <<files, running, world, check, signalled, unrepaired, cancelled>>

MoveFailed ==
    /\ upc = "move"
    /\ Failed
    /\ UNCHANGED <<files, unrepaired>>

CreateNew ==
    /\ upc = "create"
    /\ ~Locked("exe")
    /\ exe' = Broken
    /\ upc' = "copy"
    /\ UNCHANGED <<old, image, running, world, check, signalled, unrepaired, cancelled>>

CopyDone ==
    /\ upc = "copy"
    /\ exe' = download
    /\ upc' = "installed"
    /\ UNCHANGED <<old, image, running, world, check, signalled, unrepaired, cancelled>>

\* Mutant: the error is returned without putting the backup back.
CopyFailed_NoRollback ==
    /\ upc \in {"create", "copy"}
    /\ Failed
    /\ UNCHANGED <<files, unrepaired>>

\* The new file cannot be created or written.
CopyFailed ==
    /\ upc \in {"create", "copy"}
    /\ upc' = "rollback"
    /\ UNCHANGED <<files, running, world, check, signalled, unrepaired, cancelled>>

Rollback ==
    /\ upc = "rollback"
    /\ exe' = old
    /\ old' = Absent
    /\ image' = "exe"
    /\ Failed
    /\ UNCHANGED unrepaired

\* The error of the second rename is ignored.
RollbackFailed ==
    /\ upc = "rollback"
    /\ unrepaired' = TRUE
    /\ Failed
    /\ UNCHANGED files

RemoveBackup ==
    /\ upc = "installed"
    /\ RemoveOld
    /\ upc' = "signal"
    /\ UNCHANGED <<exe, image, running, world, check, signalled, unrepaired, cancelled>>

\* close(restartSignal): a second one panics.
Signal ==
    /\ upc = "signal"
    /\ signalled' = TRUE
    /\ upc' = IF signalled THEN "panic" ELSE "idle"
    /\ UNCHANGED <<files, running, world, check, unrepaired, cancelled>>

\* Start returns between two checks.
UpdaterStop ==
    /\ upc = "idle" /\ cancelled
    /\ upc' = "off"
    /\ UNCHANGED <<files, running, world, check, signalled, unrepaired, cancelled>>

Check ==
    \/ CheckRelease \/ CheckDevelop \/ Download \/ DownloadFailed
    \/ Mismatch \/ Verified \/ Unverified

Swap ==
    \/ RemoveStale \/ MoveAway \/ MoveFailed \/ CreateNew \/ CopyDone \/ CopyFailed
    \/ Rollback \/ RollbackFailed \/ RemoveBackup

UpdaterNext == Check \/ Swap \/ Signal \/ UpdaterStop
=============================================================================
