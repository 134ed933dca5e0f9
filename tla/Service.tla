------------------------------ MODULE Service ------------------------------
(***************************************************************************)
(* The service around the updater: the process (internal/winservice), the  *)
(* service control manager that starts it, stops it and restarts it when   *)
(* it fails, and the goroutine that restarts the service after an update.  *)
(* The updater is enabled.  The commands that install and remove the       *)
(* service are those of internal/winservice and of the service library.    *)
(***************************************************************************)
EXTENDS Updater

VARIABLES
    scm,        \* what the service control manager thinks of the service
    recovery,   \* what ends of the process it recovers from
    main,       \* where Program.run is
    stopping,   \* Program.Stop was called by the service control manager
    restarter   \* the goroutine that waits for restartSignal

vars == <<updaterVars, scm, recovery, main, stopping, restarter>>

TypeOK ==
    /\ UpdaterTypeOK
    /\ scm \in {"absent", "stopped", "running", "failed"}
    /\ recovery \in {"none", "crash", "any"}
    /\ main \in {"off", "boot", "setup", "serving", "closed", "error"}
    /\ stopping \in BOOLEAN
    /\ restarter \in {"off", "waiting", "stopping"}

\* The first build was put in its place by hand.
Init ==
    /\ exe = 1 /\ old = Absent /\ head \in {0, 1}
    /\ channel \in {"develop", "release"}
    /\ running = Absent /\ image = "exe"
    /\ upc = "off" /\ target = 1 /\ source = "nightly" /\ download = Absent
    /\ signalled = FALSE /\ unrepaired = FALSE /\ cancelled = FALSE
    /\ scm = "absent" /\ recovery = "none"
    /\ main = "off" /\ stopping = FALSE /\ restarter = "off"

-----------------------------------------------------------------------------
(* Installation *)

\* The service is created and then its recovery is configured: the actions first,
\* then that they are taken when the process just exits, too.  A failure leaves
\* what was done.
Install ==
    /\ scm = "absent" /\ exe \in Build
    /\ scm' = "stopped"
    /\ recovery' \in {"none", "crash", "any"}
    /\ UNCHANGED <<updaterVars, main, stopping, restarter>>

Uninstall ==
    /\ scm \in {"stopped", "failed"}
    /\ scm' = "absent"
    /\ recovery' = "none"
    /\ UNCHANGED <<updaterVars, main, stopping, restarter>>

-----------------------------------------------------------------------------
(* The process *)

\* The process is gone, with all its goroutines; the files stay as they are.
ProcessEnds(how) ==
    /\ running # Absent
    /\ scm' = how
    /\ running' = Absent /\ image' = "exe"
    /\ upc' = "off" /\ target' = 1 /\ source' = "nightly" /\ download' = Absent
    /\ signalled' = FALSE /\ unrepaired' = FALSE /\ cancelled' = FALSE
    /\ main' = "off" /\ stopping' = FALSE /\ restarter' = "off"
    /\ UNCHANGED <<exe, old, world, recovery>>

\* The executable is started, if it can be.
Start ==
    /\ running = Absent
    /\ exe \in Build
    /\ running' = exe
    /\ scm' = "running"
    /\ main' = "boot"
    /\ UNCHANGED <<files, world, upc, check, signalled, unrepaired, cancelled, recovery, stopping,
                   restarter>>

\* By an operator, or as the recovery action after a failure.
OperatorStart == scm = "stopped" /\ Start
Recover == scm = "failed" /\ Start

\* run begins with cleanupOldBinary; an old process may still lock the backup.
Boot ==
    /\ main = "boot"
    /\ RemoveOld
    /\ main' = "setup"
    /\ UNCHANGED <<exe, image, running, world, upc, check, signalled, unrepaired, cancelled,
                   scm, recovery, stopping, restarter>>

\* run starts the updater and the restarter and serves.
Serve ==
    /\ main = "setup"
    /\ main' = "serving"
    /\ upc' = "idle"
    /\ restarter' = "waiting"
    /\ UNCHANGED <<files, running, world, check, signalled, unrepaired, cancelled, scm, recovery,
                   stopping>>

\* Serve returns because the server was shut down.
ServeClosed ==
    /\ main = "serving"
    /\ stopping \/ restarter = "stopping"
    /\ main' = "closed"
    /\ UNCHANGED <<updaterVars, scm, recovery, stopping, restarter>>

\* The service control manager has Program.Stop called, whose first act is to
\* cancel the context, if run has made one.
StopBegins ==
    /\ scm = "running" /\ ~stopping
    /\ stopping' = TRUE
    /\ cancelled' \in IF main = "boot" THEN {cancelled, TRUE} ELSE {TRUE}

Stop ==
    /\ StopBegins
    /\ UNCHANGED <<files, running, world, upc, check, signalled, unrepaired, scm, recovery, main,
                   restarter>>

\* run returns an error, and s.Stop asks the service control manager to stop the
\* service, which it may refuse.
RunFails ==
    /\ main \in {"setup", "serving"}
    /\ main' = "error"
    /\ StopBegins \/ UNCHANGED <<stopping, cancelled>>
    /\ UNCHANGED <<files, running, world, upc, check, signalled, unrepaired, scm, recovery, restarter>>

\* Program.Stop returns, and the process ends with the service stopped.
StopEnds == stopping /\ ProcessEnds("stopped")

\* The process is killed, or the machine goes down.
Crash == ProcessEnds(IF recovery = "none" THEN "stopped" ELSE "failed")

-----------------------------------------------------------------------------
(* The restarter *)

\* restartSignal is closed: Program.Stop is called from here.
RestarterWakes ==
    /\ restarter = "waiting" /\ signalled
    /\ restarter' = "stopping"
    /\ cancelled' = TRUE
    /\ UNCHANGED <<files, running, world, upc, check, signalled, unrepaired, scm, recovery, main,
                   stopping>>

RestarterEnds ==
    /\ restarter = "waiting" /\ cancelled
    /\ restarter' = "off"
    /\ UNCHANGED <<updaterVars, scm, recovery, main, stopping>>

\* Mutant: the process ends as if the service had been stopped.
RestartExit_Clean == restarter = "stopping" /\ ProcessEnds("stopped")

\* os.Exit(1), which is a failure if the service was installed completely.
RestartExit ==
    /\ restarter = "stopping"
    /\ ProcessEnds(IF recovery = "any" THEN "failed" ELSE "stopped")

ProcessNext ==
    \/ OperatorStart \/ Recover \/ Boot \/ Serve \/ ServeClosed
    \/ Stop \/ RunFails \/ StopEnds \/ Crash
    \/ RestarterWakes \/ RestarterEnds \/ RestartExit

Next ==
    \/ Install \/ Uninstall
    \/ ProcessNext
    \/ Publish /\ UNCHANGED <<scm, recovery, main, stopping, restarter>>
    \/ UpdaterNext /\ UNCHANGED <<scm, recovery, main, stopping, restarter>>

Spec == Init /\ [][Next]_vars

\* The service control manager carries out the recovery action; the goroutines
\* of the process run; Stop ends (the server's shutdown has a timeout).
FairSpec ==
    /\ Spec
    /\ WF_vars(Recover)
    /\ WF_vars(StopEnds)
    /\ WF_vars(RestarterWakes \/ RestarterEnds)
    /\ WF_vars(RestartExit)

-----------------------------------------------------------------------------
(* The abstract deployment: a build in the place where the next start looks for
   it, or else its backup, which a rename brings back. *)
Deployed == IF exe \in Build THEN exe ELSE old

Promise == INSTANCE Deployment WITH published <- head, deployed <- Deployed

\* The swap, made of renames, removals and a copy any of which may fail, by a
\* process that may end between any two of them, is one step: it installs a
\* published build or leaves the one there was (updater.go:281-293 and 338-353),
\* and a release is only ever replaced by a newer one (updater.go:114).
DeploymentSpec == Promise!Spec

-----------------------------------------------------------------------------
(* Properties *)

\* restartSignal is closed once (updater.go:134 and 234), although the loop of
\* Start may check again before the process ends: a second update would have to
\* move the running executable, which is the backup by now.
NoDoubleClose == upc # "panic"

\* A failed update leaves the service what it was: the running build is where
\* the next start looks for it, unless the rename that restores it failed
\* (updater.go:281-289).
FailedUpdateUndone ==
    upc \in {"idle", "download", "verify"} /\ ~signalled /\ ~unrepaired => exe = running

\* Whatever fails and whenever the process ends, a build that runs is left in one
\* of the two places: a service that does not start again can be repaired by a
\* rename (updater.go:281-293 and 338-353, service.go:208-217).
SomethingLeft == exe \in Build \/ old \in Build

\* An update takes effect in a service that was installed completely: once the
\* restart was signalled the installed build runs, or somebody stops or removes
\* the service; a crash in between does no harm (service.go:156-164, 278-290).
UpdateTakesEffect ==
    signalled /\ exe \in Build /\ recovery = "any"
        ~> stopping \/ scm = "absent" \/ (running = exe /\ ~signalled)
=============================================================================
