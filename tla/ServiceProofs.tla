---------------------------- MODULE ServiceProofs ----------------------------
(***************************************************************************)
(* Proofs about Service.tla and Updater.tla.                               *)
(*                                                                         *)
(* The swap is safe because of where the running build is: under its own   *)
(* name until the executable is moved away, and under the backup's, where  *)
(* Windows locks it, from then on.  The invariant follows that through the *)
(* steps of the updater and the life of the process.                       *)
(***************************************************************************)
EXTENDS Service, TLAPS

\* The file the process was started from still holds its build.
ImageKept ==
    running # Absent => running = IF image = "exe" THEN exe ELSE old

\* Nothing is left of a process that ended, and one that is not serving yet
\* has no updater.
ProcessParts ==
    /\ running = Absent => main = "off" /\ upc = "off" /\ image = "exe" /\ ~signalled /\ ~unrepaired
    /\ main \in {"off", "boot", "setup"} => upc = "off" /\ image = "exe" /\ ~signalled /\ ~unrepaired

\* Once it was moved the running build is the backup, until a rollback.
Moved ==
    /\ upc \in {"create", "copy", "rollback", "installed", "signal"} => image = "old" /\ ~signalled
    /\ signalled => image = "old"
    /\ upc \in {"idle", "download", "verify", "swap", "move"} /\ ~signalled /\ ~unrepaired => image = "exe"

IInv == TypeOK /\ NoDoubleClose /\ SomethingLeft /\ ImageKept /\ ProcessParts /\ Moved

-----------------------------------------------------------------------------

\* Builds are numbers, and the first one is a build.
LEMMA Builds == 1 \in Build /\ 0 \in 0..Latest /\ 1 \in 0..Latest /\ Absent \notin Build /\ Broken \notin Build
BY UpdaterAssumption DEF Build

\* The invariant holds at the start.
LEMMA InitInv == Init => IInv
BY Builds DEF Init, IInv, TypeOK, UpdaterTypeOK, File, NoDoubleClose, SomethingLeft, ImageKept, ProcessParts, Moved

\* The steps of the updater preserve it.
LEMMA UpdaterInv ==
    ASSUME IInv, UpdaterNext, UNCHANGED <<scm, recovery, main, stopping, restarter>>
    PROVE  IInv'
<1> USE Builds DEF IInv, TypeOK, UpdaterTypeOK, File, NoDoubleClose, SomethingLeft, ImageKept, ProcessParts, Moved,
                  files, check, world, Failed, RemoveOld, Locked
<1>0. \A n \in 0..Latest : n # 0 => n \in Build /\ 1..n \subseteq Build
    BY UpdaterAssumption DEF Build
<1>1. ASSUME Check PROVE IInv'
    <2>1. CASE CheckRelease
        BY <1>0, <2>1, UpdaterAssumption DEF CheckRelease, Build
    <2>2. CASE CheckDevelop
        BY <1>0, <2>2 DEF CheckDevelop
    <2>3. CASE Download
        <3>1. download' \in File
            <4>1. 1..head \subseteq Build
                BY <1>0, UpdaterAssumption DEF Build
            <4> QED BY <2>3, <4>1 DEF Download
        <3> QED BY <2>3, <3>1 DEF Download
    <2>4. CASE DownloadFailed
        BY <2>4 DEF DownloadFailed
    <2>5. CASE Mismatch
        BY <2>5 DEF Mismatch
    <2>6. CASE Verified \/ Unverified
        BY <2>6 DEF Verified, Unverified
    <2> QED BY <1>1, <2>1, <2>2, <2>3, <2>4, <2>5, <2>6 DEF Check
<1>2. ASSUME Swap PROVE IInv'
    <2>1. CASE RemoveStale
        BY <2>1 DEF RemoveStale
    <2>2. CASE MoveAway
        BY <2>2 DEF MoveAway
    <2>3. CASE MoveFailed
        BY <2>3 DEF MoveFailed
    <2>4. CASE CreateNew
        BY <2>4 DEF CreateNew
    <2>5. CASE CopyDone
        BY <2>5 DEF CopyDone
    <2>6. CASE CopyFailed
        BY <2>6 DEF CopyFailed
    <2>7. CASE Rollback
        BY <2>7 DEF Rollback
    <2>8. CASE RollbackFailed
        BY <2>8 DEF RollbackFailed
    <2>9. CASE RemoveBackup
        BY <2>9 DEF RemoveBackup
    <2> QED BY <1>2, <2>1, <2>2, <2>3, <2>4, <2>5, <2>6, <2>7, <2>8, <2>9 DEF Swap
<1>3. ASSUME Signal PROVE IInv'
    BY <1>3 DEF Signal
<1>4. ASSUME UpdaterStop PROVE IInv'
    BY <1>4 DEF UpdaterStop
<1> HIDE DEF IInv
<1> QED BY <1>1, <1>2, <1>3, <1>4 DEF UpdaterNext

\* So do the steps of the process.
LEMMA ProcessInv ==
    ASSUME IInv, ProcessNext
    PROVE  IInv'
<1> USE Builds DEF IInv, TypeOK, UpdaterTypeOK, File, NoDoubleClose, SomethingLeft, ImageKept, ProcessParts, Moved,
                  files, check, world, RemoveOld, Locked, ProcessEnds
<1>1. ASSUME Start PROVE IInv'
    BY <1>1 DEF Start
<1>2. CASE Boot
    BY <1>2 DEF Boot
<1>3. CASE Serve
    BY <1>3 DEF Serve
<1>4. CASE ServeClosed
    BY <1>4 DEF ServeClosed, updaterVars
<1>0. StopBegins => cancelled' \in BOOLEAN /\ stopping' \in BOOLEAN
    BY DEF StopBegins
<1>5. CASE Stop
    BY <1>0, <1>5 DEF Stop
<1>6. CASE RunFails
    BY <1>0, <1>6 DEF RunFails
<1>7. ASSUME NEW how \in {"stopped", "failed"}, ProcessEnds(how) PROVE IInv'
    BY <1>7
<1>8. CASE RestarterWakes
    BY <1>8 DEF RestarterWakes
<1>9. CASE RestarterEnds
    BY <1>9 DEF RestarterEnds, updaterVars
<1> QED BY <1>1, <1>2, <1>3, <1>4, <1>5, <1>6, <1>7, <1>8, <1>9
        DEF ProcessNext, OperatorStart, Recover, StopEnds, Crash, RestartExit

\* And so does everything else.
LEMMA NextInv ==
    ASSUME IInv, [Next]_vars
    PROVE  IInv'
<1> USE DEF IInv, TypeOK, UpdaterTypeOK, NoDoubleClose, SomethingLeft, ImageKept, ProcessParts, Moved
<1>1. ASSUME Publish, UNCHANGED <<scm, recovery, main, stopping, restarter>> PROVE IInv'
    <2>1. head' \in 0..Latest
        BY <1>1, UpdaterAssumption DEF Publish
    <2> QED BY <1>1, <2>1 DEF Publish, files, check
<1>2. CASE UNCHANGED vars
    BY <1>2 DEF vars, updaterVars
<1>3. CASE Install \/ Uninstall
    BY <1>3 DEF Install, Uninstall, updaterVars
<1> QED BY <1>1, <1>2, <1>3, UpdaterInv, ProcessInv DEF Next

\* NoDoubleClose, FailedUpdateUndone and SomethingLeft (updater.go:281-293, 134
\* and 234): restartSignal is never closed twice, a failed update leaves the
\* running build where the next start finds it, and a build that runs is left
\* beside the service, whatever fails and whenever the process ends.
THEOREM UpdateSafe ==
    Spec => [](TypeOK /\ NoDoubleClose /\ FailedUpdateUndone /\ SomethingLeft)
<1>1. IInv => TypeOK /\ NoDoubleClose /\ FailedUpdateUndone /\ SomethingLeft
    BY DEF IInv, ImageKept, ProcessParts, Moved, FailedUpdateUndone
<1>2. IInv /\ [Next]_vars => IInv'
    BY NextInv
<1> QED BY InitInv, <1>1, <1>2, PTL DEF Spec

-----------------------------------------------------------------------------
(* The swap is one step *)

\* While the executable is away nothing that starts is in its place, what is
\* copied there was published, and only the develop channel downloads.
Away ==
    /\ upc \in {"create", "copy", "rollback"} => exe \notin Build
    /\ upc \in {"download", "verify", "swap", "move", "create", "copy", "rollback"} =>
          channel = "develop" /\ target \in 1..head
    /\ download \in 1..head \cup {Absent, Broken}

\* It holds at the start.
LEMMA AwayInit == Init => Away
BY DEF Init, Away

\* Every step preserves it.
LEMMA AwayStep ==
    ASSUME IInv, Away, [Next]_vars
    PROVE  Away'
<1> USE Builds DEF Away, files, check, world, Failed, RemoveOld
<1>1. head \in 0..Latest /\ head \in Nat /\ exe \in File /\ download \in File
    BY UpdaterAssumption DEF IInv, TypeOK, UpdaterTypeOK
<1>2. CASE Publish /\ UNCHANGED <<scm, recovery, main, stopping, restarter>>
    BY <1>1, <1>2 DEF Publish
<1>3. CASE UpdaterNext
    <2>1. CASE CheckRelease
        BY <1>1, <2>1 DEF CheckRelease
    <2>2. CASE CheckDevelop
        BY <1>1, <2>2 DEF CheckDevelop
    <2>3. CASE Download
        BY <1>1, <2>3 DEF Download
    <2>4. CASE DownloadFailed \/ Mismatch \/ Verified \/ Unverified
        BY <2>4 DEF DownloadFailed, Mismatch, Verified, Unverified
    <2>5. CASE RemoveStale \/ MoveFailed \/ CopyFailed
        BY <2>5 DEF RemoveStale, MoveFailed, CopyFailed
    <2>6. CASE MoveAway \/ CreateNew
        BY <2>6 DEF MoveAway, CreateNew
    <2>7. CASE CopyDone \/ Rollback \/ RollbackFailed \/ RemoveBackup
        BY <2>7 DEF CopyDone, Rollback, RollbackFailed, RemoveBackup
    <2>8. CASE Signal \/ UpdaterStop
        BY <2>8 DEF Signal, UpdaterStop
    <2> QED BY <1>3, <2>1, <2>2, <2>3, <2>4, <2>5, <2>6, <2>7, <2>8 DEF UpdaterNext, Check, Swap
<1>4. CASE ProcessNext
    <2>1. CASE Start
        BY <2>1 DEF Start
    <2>2. CASE Boot \/ Serve
        BY <2>2 DEF Boot, Serve
    <2>3. CASE Stop \/ RunFails \/ RestarterWakes
        BY <2>3 DEF Stop, RunFails, RestarterWakes
    <2>4. CASE ServeClosed \/ RestarterEnds
        BY <2>4 DEF ServeClosed, RestarterEnds, updaterVars
    <2>5. ASSUME NEW how, ProcessEnds(how) PROVE Away'
        BY <2>5 DEF ProcessEnds
    <2> QED BY <1>4, <2>1, <2>2, <2>3, <2>4, <2>5
            DEF ProcessNext, OperatorStart, Recover, StopEnds, Crash, RestartExit
<1>5. CASE Install \/ Uninstall \/ UNCHANGED vars
    BY <1>5 DEF Install, Uninstall, vars, updaterVars
<1> QED BY <1>2, <1>3, <1>4, <1>5 DEF Next

\* Init maps to the initial states of the abstract deployment.
LEMMA ViewInit == Init => Promise!Init
BY Builds DEF Init, Promise!Init, Deployed

\* And every step to one of its steps or to none: an update happens when the
\* copy is complete, or when the library put the release in its place.
LEMMA ViewStep ==
    ASSUME IInv, Away, [Next]_vars
    PROVE  [Promise!Next]_(Promise!vars)
<1> USE DEF files, check, world, Failed, RemoveOld, Locked
<1>1. /\ head \in Nat /\ \A n \in 1..head : n \in Build
      /\ Absent \notin Build /\ Broken \notin Build
    BY Builds, UpdaterAssumption DEF IInv, TypeOK, UpdaterTypeOK, Build
<1>2. /\ running # Absent => running \in Build
      /\ running # Absent => running = IF image = "exe" THEN exe ELSE old
      /\ image \in {"exe", "old"}
    BY DEF IInv, ImageKept, TypeOK, UpdaterTypeOK
<1>3. /\ upc # "off" => running # Absent
      /\ running = Absent => image = "exe"
      /\ upc \in {"create", "copy", "rollback", "installed"} => image = "old"
      /\ main = "boot" => running # Absent /\ image = "exe"
    BY DEF IInv, ProcessParts, Moved
<1>4. CASE Publish /\ UNCHANGED <<scm, recovery, main, stopping, restarter>>
    BY <1>4 DEF Publish, Promise!Next, Promise!Publish, Deployed
<1>5. SUFFICES ASSUME ~(Publish /\ UNCHANGED <<scm, recovery, main, stopping, restarter>>)
               PROVE  Promise!Update \/ UNCHANGED <<head, channel, Deployed>>
    BY <1>4 DEF Promise!Next, Promise!vars
<1>6. CASE CheckRelease
    <2>1. exe = running /\ running \in Build /\ Deployed = running
        BY <1>2, <1>3, <1>6 DEF CheckRelease, Deployed
    <2>2. head > running /\ head \in 1..head /\ head \in Build
        BY <1>1, <1>6, <2>1 DEF CheckRelease, Build
    <2>3. CASE exe' = head
        BY <1>6, <2>1, <2>2, <2>3 DEF CheckRelease, Promise!Update, Deployed
    <2>4. CASE exe' = Broken
        BY <1>1, <1>6, <2>1, <2>4 DEF CheckRelease, Deployed
    <2> QED BY <1>6, <2>3, <2>4 DEF CheckRelease
<1>7. CASE CheckDevelop \/ Download \/ DownloadFailed \/ Mismatch \/ Verified \/ Unverified
           \/ MoveFailed \/ CopyFailed \/ RollbackFailed \/ Signal \/ UpdaterStop
    BY <1>7 DEF CheckDevelop, Download, DownloadFailed, Mismatch, Verified, Unverified, MoveFailed,
                CopyFailed, RollbackFailed, Signal, UpdaterStop, Deployed
<1>8. CASE RemoveStale \/ RemoveBackup
    BY <1>2, <1>3, <1>8 DEF RemoveStale, RemoveBackup, Deployed
<1>9. CASE MoveAway
    BY <1>1, <1>2, <1>3, <1>9 DEF MoveAway, Deployed
<1>10. CASE CreateNew
    BY <1>1, <1>10 DEF CreateNew, Away, Deployed
<1>11. CASE CopyDone
    <2>1. /\ exe \notin Build /\ channel = "develop" /\ Deployed = old
          /\ UNCHANGED <<old, head, channel>> /\ exe' \in 1..head \cup {Absent, Broken}
        BY <1>11 DEF CopyDone, Away, Deployed
    <2> QED BY <1>1, <2>1 DEF Promise!Update, Deployed
<1>12. CASE Rollback
    BY <1>2, <1>3, <1>12 DEF Rollback, Away, Deployed
<1>13. CASE Start \/ Serve \/ Stop \/ RunFails \/ RestarterWakes \/ ServeClosed \/ RestarterEnds
    BY <1>13 DEF Start, Serve, Stop, RunFails, RestarterWakes, ServeClosed, RestarterEnds,
                 updaterVars, Deployed
<1>14. CASE Boot
    BY <1>2, <1>3, <1>14 DEF Boot, Deployed
<1>15. ASSUME NEW how, ProcessEnds(how) PROVE UNCHANGED <<head, channel, Deployed>>
    BY <1>15 DEF ProcessEnds, Deployed
<1>16. CASE Install \/ Uninstall \/ UNCHANGED vars
    BY <1>16 DEF Install, Uninstall, vars, updaterVars, Deployed
<1> QED BY <1>5, <1>6, <1>7, <1>8, <1>9, <1>10, <1>11, <1>12, <1>13, <1>14, <1>15, <1>16
        DEF Next, UpdaterNext, Check, Swap, ProcessNext, OperatorStart, Recover, StopEnds, Crash, RestartExit

\* DeploymentSpec (updater.go:83-133, 281-293 and 338-353): whatever fails and
\* whenever the process ends, an update happens at once or not at all, for any
\* number of builds: the service with its files implements the abstract
\* deployment.
THEOREM SwapIsAtomic == Spec => DeploymentSpec
<1>1. Init => IInv /\ Away /\ Promise!Init
    BY InitInv, AwayInit, ViewInit
<1>2. (IInv /\ Away) /\ [Next]_vars => (IInv /\ Away)'
    BY NextInv, AwayStep
<1>3. (IInv /\ Away) /\ [Next]_vars => [Promise!Next]_(Promise!vars)
    BY ViewStep
<1> QED BY <1>1, <1>2, <1>3, PTL DEF Spec, DeploymentSpec, Promise!Spec

-----------------------------------------------------------------------------
(* An update takes effect *)

\* The fairness of FairSpec with the condition spelled out under which each of
\* its steps can be taken: that is what WF says of it.
Fairness ==
    /\ []<>~(scm = "failed" /\ running = Absent /\ exe \in Build) \/ []<><<Recover>>_vars
    /\ []<>~(restarter = "waiting" /\ (signalled \/ cancelled))
          \/ []<><<RestarterWakes \/ RestarterEnds>>_vars
    /\ []<>~(restarter = "stopping" /\ running # Absent) \/ []<><<RestartExit>>_vars

\* The context is cancelled by a stop only, of the service control manager or of
\* the restarter, and the restarter waits for as long as the updater runs, unless
\* there is such a stop.  The service control manager knows whether there is a process.
Attended ==
    /\ cancelled => stopping \/ restarter = "stopping"
    /\ restarter = "off" => stopping \/ (upc = "off" /\ ~signalled)
    /\ running = Absent => ~cancelled /\ restarter = "off"
    /\ running # Absent <=> scm = "running"
    /\ main \in {"off", "boot", "setup"} => restarter = "off"

\* It holds at the start.
LEMMA AttendedInit == Init => Attended
BY DEF Init, Attended

\* Every step keeps it.
LEMMA AttendedStep ==
    ASSUME IInv, Attended, [Next]_vars
    PROVE  Attended'
<1> USE DEF Attended, files, check, world, updaterVars
<1>1. CASE UpdaterNext /\ UNCHANGED <<scm, recovery, main, stopping, restarter>>
    <2>1. UNCHANGED <<running, cancelled>>
        BY <1>1 DEF UpdaterNext, Check, Swap, Signal, UpdaterStop, CheckRelease, CheckDevelop, Download,
                    DownloadFailed, Mismatch, Verified, Unverified, Failed, RemoveStale, MoveAway,
                    MoveFailed, CreateNew, CopyDone, CopyFailed, Rollback, RollbackFailed, RemoveBackup
    <2>2. upc # "off"
        BY <1>1 DEF UpdaterNext, Check, Swap, Signal, UpdaterStop, CheckRelease, CheckDevelop, Download,
                    DownloadFailed, Mismatch, Verified, Unverified, RemoveStale, MoveAway,
                    MoveFailed, CreateNew, CopyDone, CopyFailed, Rollback, RollbackFailed, RemoveBackup
    <2> QED BY <1>1, <2>1, <2>2
<1>2. CASE Publish /\ UNCHANGED <<scm, recovery, main, stopping, restarter>>
    BY <1>2 DEF Publish
<1>3. CASE Install \/ Uninstall \/ UNCHANGED vars
    BY <1>3 DEF Install, Uninstall, vars
<1>4. ASSUME Start PROVE Attended'
    BY <1>4, Builds DEF Start, IInv, ProcessParts
<1>5. CASE Boot
    BY <1>5 DEF Boot
<1>6. CASE Serve
    BY <1>6 DEF Serve, IInv, ProcessParts
<1>7. CASE ServeClosed
    BY <1>7 DEF ServeClosed
<1>8. CASE Stop \/ RunFails
    <2>1. running # Absent
        BY <1>8 DEF Stop, RunFails, StopBegins, IInv, ProcessParts
    <2>2. UNCHANGED <<running, scm, restarter, upc, signalled>>
        BY <1>8 DEF Stop, RunFails
    <2>3. StopBegins \/ UNCHANGED <<stopping, cancelled>>
        BY <1>8 DEF Stop, RunFails
    <2>4. main' \in {"off", "boot", "setup"} => main \in {"off", "boot", "setup"}
        BY <1>8 DEF Stop, RunFails
    <2>5. CASE StopBegins
        BY <2>1, <2>2, <2>4, <2>5 DEF StopBegins
    <2>6. CASE UNCHANGED <<stopping, cancelled>>
        BY <2>1, <2>2, <2>4, <2>6
    <2> QED BY <2>3, <2>5, <2>6
<1>9. ASSUME NEW how \in {"stopped", "failed"}, ProcessEnds(how) PROVE Attended'
    BY <1>9 DEF ProcessEnds
<1>10. CASE RestarterWakes \/ RestarterEnds
    BY <1>10 DEF RestarterWakes, RestarterEnds, IInv, ProcessParts
<1> QED BY <1>1, <1>2, <1>3, <1>4, <1>5, <1>6, <1>7, <1>8, <1>9, <1>10
        DEF Next, ProcessNext, OperatorStart, Recover, StopEnds, Crash, RestartExit

\* The way of an update that nobody stops: the restarter is to wake up, it is to
\* end the process, the service is to be recovered.
Due(where) ==
    signalled /\ exe \in Build /\ recovery = "any" /\ ~stopping /\ restarter = where

Fallen == scm = "failed" /\ running = Absent /\ exe \in Build /\ recovery = "any"

Settled == stopping \/ scm = "absent" \/ (running = exe /\ ~signalled)

\* While the service waits for its restart, nothing touches the installed build.
LEMMA DueStep ==
    ASSUME IInv, Attended, [Next]_vars, NEW where \in {"waiting", "stopping"}, Due(where)
    PROVE  (Due("waiting")' /\ where = "waiting") \/ Due("stopping")' \/ Fallen' \/ Settled'
<1> USE DEF Due, Fallen, Settled, files, check, world, updaterVars
<1>1. running # Absent /\ Locked("old") /\ main \notin {"off", "boot", "setup"}
    BY DEF IInv, ProcessParts, Moved, Locked
<1>2. upc \notin {"create", "copy", "rollback", "installed", "signal"}
    BY DEF IInv, Moved
<1>3. CASE UpdaterNext /\ UNCHANGED <<scm, recovery, main, stopping, restarter>>
    <2>1. UNCHANGED <<exe, signalled>>
        BY <1>1, <1>2, <1>3 DEF UpdaterNext, Check, Swap, Signal, UpdaterStop, CheckRelease, CheckDevelop,
                    Download, DownloadFailed, Mismatch, Verified, Unverified, Failed, RemoveStale, MoveAway,
                    MoveFailed, CreateNew, CopyDone, CopyFailed, Rollback, RollbackFailed, RemoveBackup
    <2> QED BY <1>3, <2>1
<1>4. CASE Publish /\ UNCHANGED <<scm, recovery, main, stopping, restarter>>
    BY <1>4 DEF Publish
<1>5. CASE Install \/ Uninstall \/ UNCHANGED vars
    BY <1>1, <1>5 DEF Install, Uninstall, vars, Attended
<1>6. ~Start /\ ~Boot /\ ~Serve
    BY <1>1 DEF Start, Boot, Serve
<1>7. CASE ServeClosed
    BY <1>7 DEF ServeClosed
<1>8. CASE Stop \/ RunFails
    BY <1>8 DEF Stop, RunFails, StopBegins
<1>9. ~StopEnds
    BY DEF StopEnds
<1>10. CASE Crash \/ RestartExit
    BY <1>10 DEF Crash, RestartExit, ProcessEnds
<1>11. CASE RestarterWakes
    BY <1>11 DEF RestarterWakes
<1>12. ~RestarterEnds
    BY DEF RestarterEnds, Attended
<1> QED BY <1>3, <1>4, <1>5, <1>6, <1>7, <1>8, <1>9, <1>10, <1>11, <1>12
        DEF Next, ProcessNext, OperatorStart, Recover

\* A service that fell waits for nothing but its recovery.
LEMMA FallenStep ==
    ASSUME IInv, Attended, [Next]_vars, Fallen
    PROVE  Fallen' \/ Settled'
<1> USE DEF Fallen, Settled, files, check, world, updaterVars
<1>1. main = "off" /\ upc = "off" /\ ~signalled /\ restarter = "off"
    BY DEF IInv, ProcessParts, Attended
<1>2. ~UpdaterNext
    BY <1>1 DEF UpdaterNext, Check, Swap, Signal, UpdaterStop, CheckRelease, CheckDevelop, Download,
                DownloadFailed, Mismatch, Verified, Unverified, RemoveStale, MoveAway,
                MoveFailed, CreateNew, CopyDone, CopyFailed, Rollback, RollbackFailed, RemoveBackup
<1>3. CASE Publish /\ UNCHANGED <<scm, recovery, main, stopping, restarter>>
    BY <1>3 DEF Publish
<1>4. CASE Install \/ Uninstall \/ UNCHANGED vars
    BY <1>4 DEF Install, Uninstall, vars
<1>5. CASE Start
    BY <1>1, <1>5 DEF Start
<1>6. CASE Boot \/ Serve \/ ServeClosed \/ Stop \/ RunFails
    BY <1>1, <1>6 DEF Boot, Serve, ServeClosed, Stop, RunFails, StopBegins
<1>7. ~RestarterWakes /\ ~RestarterEnds /\ ~RestartExit /\ ~StopEnds /\ ~Crash
    BY <1>1 DEF RestarterWakes, RestarterEnds, RestartExit, StopEnds, Crash, ProcessEnds
<1> QED BY <1>2, <1>3, <1>4, <1>5, <1>6, <1>7 DEF Next, ProcessNext, OperatorStart, Recover

\* UpdateTakesEffect (service.go:156-164 and 278-290): if the restarter and the
\* service control manager do what they can do, an update that was signalled in a
\* service with its recovery takes effect, unless somebody stops or removes the
\* service, for any number of builds.
THEOREM UpdateArrives == Spec /\ Fairness => UpdateTakesEffect
<1> DEFINE Inv == IInv /\ Attended
           P == signalled /\ exe \in Build /\ recovery = "any"
           W == Due("waiting")
           S == Due("stopping")
           F == Fallen
           Q == Settled
<1>1. Init => Inv
    BY InitInv, AttendedInit
<1>2. Inv /\ [Next]_vars => Inv'
    BY NextInv, AttendedStep
<1>3. Inv /\ P => W \/ S \/ Q
    BY DEF IInv, TypeOK, Attended, Due, Settled
<1>4. Inv /\ [Next]_vars /\ W => W' \/ S' \/ F' \/ Q'
    BY DueStep
<1>5. Inv /\ <<RestarterWakes \/ RestarterEnds>>_vars /\ W => S' \/ Q'
    BY DEF Due, Attended, Settled, RestarterWakes, RestarterEnds, files
<1>6. Inv /\ [Next]_vars /\ S => S' \/ F' \/ Q'
    BY DueStep
<1>7. Inv /\ <<RestartExit>>_vars /\ S => F'
    BY DEF Due, Fallen, RestartExit, ProcessEnds
<1>8. Inv /\ [Next]_vars /\ F => F' \/ Q'
    BY FallenStep
<1>9. Inv /\ <<Recover>>_vars /\ F => Q'
    BY DEF Fallen, Settled, Recover, Start, IInv, ProcessParts, files
<1>10. W => restarter = "waiting" /\ (signalled \/ cancelled)
    BY DEF Due
<1>11. Inv /\ S => restarter = "stopping" /\ running # Absent
    BY DEF Due, IInv, ProcessParts
<1>12. F => scm = "failed" /\ running = Absent /\ exe \in Build
    BY DEF Fallen
<1>13. UpdateTakesEffect <=> (P ~> Q)
    BY DEF UpdateTakesEffect, Settled
<1> HIDE DEF Inv, P, W, S, F, Q
<1>14. Spec /\ Fairness => (P ~> Q)
    BY <1>1, <1>2, <1>3, <1>4, <1>5, <1>6, <1>7, <1>8, <1>9, <1>10, <1>11, <1>12, PTL DEF Spec, Fairness
<1> QED BY <1>13, <1>14
=============================================================================
