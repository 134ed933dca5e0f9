------------------------------- MODULE Watcher -------------------------------
(***************************************************************************)
(* The discovery of databases while the service runs: the two goroutines   *)
(* of internal/watcher/watcher.go, the pool they register in, the files    *)
(* they look at, and the shutdown and restart of the process around them.  *)
(*                                                                         *)
(* Thread "poll" is Watcher.Run: on every tick it expands each glob and    *)
(* calls tryRegister on each match.  Thread "notify" is fsnotifyLoop: it   *)
(* collects the paths of Create events in `pending' and, when a timer      *)
(* fires or the context is cancelled, calls tryRegister on each of them.   *)
(* tryRegister reads Pool.Aliases in one critical section and calls        *)
(* Pool.Register in another: it is two steps, and the other thread, the    *)
(* disk and the shutdown may move in between.                              *)
(*                                                                         *)
(* A path stands for a file with the extension .mdb or .accdb: every other *)
(* file is dropped by the extension tests without any change of state.     *)
(***************************************************************************)
EXTENDS Pool, GlobEntries

CONSTANTS
    Entries,    \* the configuration, flattened (GlobEntries.tla)
    NGlobs,     \* the number of globs of the watcher
    MatchGlob,  \* MatchGlob[g]: the paths that expanding glob g lists, if they exist
    Matched,    \* the paths that PathMatchesGlob accepts for some glob
    AliasOf,    \* AliasOf[p]: AliasFromPath for the first glob that accepts p
    Notified,   \* the paths directly in a base directory given to fsnotify
    BasePoll,   \* basePollIvl
    MaxBackoff  \* maxPollBackoff

\* AliasFromPath lower-cases, so the watcher's aliases are their own fold.
ASSUME WatcherAssumption ==
    /\ Entries \in Seq(Entry)
    /\ NGlobs \in Nat
    /\ MatchGlob \in [1..NGlobs -> SUBSET Path]
    /\ Matched \in SUBSET Path
    /\ Notified \in SUBSET Path
    /\ AliasOf \in [Path -> Alias]
    /\ \A p \in Path : Fold[AliasOf[p]] = AliasOf[p]
    /\ BasePoll \in Nat \ {0}
    /\ MaxBackoff \in Nat \ {0}

Thread == {"poll", "notify"}

VARIABLES
    disk,       \* disk[p]: "absent", "locked" (does not open) or "ready"
    events,     \* Create events fsnotify holds for the loop
    phase,      \* of the process: up, stopping (ctx cancelled), closed, down
    fswClosed,  \* fsw.Close was called: its channels are closed
    pc,         \* where each thread is
    todo,       \* the paths a thread still has to give to tryRegister
    cur,        \* the path of the tryRegister under way, past its alias check
    nextGlob,   \* poll: the next glob to expand
    found,      \* poll: some tryRegister of this poll returned true
    interval,   \* currPollIvl
    pending,    \* notify: the debounce buffer
    quietTimer, \* notify: nil, armed or stopped
    maxTimer,   \* notify: the same
    final       \* notify: this flush is the one of ctx.Done, return after it

envVars == <<disk, events>>
pollVars == <<nextGlob, found, interval>>
notifyVars == <<pending, quietTimer, maxTimer, final>>
threadVars == <<pc, todo, cur>>
vars == <<poolVars, envVars, phase, fswClosed, threadVars, pollVars, notifyVars>>

Timer == {"nil", "armed", "stopped"}

TypeOK ==
    /\ PoolTypeOK
    /\ disk \in [Path -> {"absent", "locked", "ready"}]
    /\ events \in SUBSET Path
    /\ phase \in {"up", "stopping", "closed", "down"}
    /\ fswClosed \in BOOLEAN
    /\ pc \in [Thread -> {"select", "glob", "next", "register", "stopped"}]
    /\ todo \in [Thread -> SUBSET Path]
    /\ cur \in [Thread -> Path \cup {None}]
    /\ nextGlob \in 1..(NGlobs + 1)
    /\ found \in BOOLEAN
    /\ interval \in Nat
    /\ pending \in SUBSET Path
    /\ quietTimer \in Timer
    /\ maxTimer \in Timer
    /\ final \in BOOLEAN

Existing == {p \in Path : disk[p] # "absent"}
Openable == {p \in Path : disk[p] = "ready"}
Serving == phase \in {"up", "stopping"}

\* config.Load: the list of databases a starting process gets.
Configured == AsMap(FirstEntries(Entries, Existing))

-----------------------------------------------------------------------------
(* The process *)

\* New and Run have just been called.  Without fsnotify there is no loop.
ThreadsInit(fsnotify) ==
    /\ pc = [t \in Thread |-> IF t = "notify" /\ ~fsnotify THEN "stopped" ELSE "select"]
    /\ todo = [t \in Thread |-> {}]
    /\ cur = [t \in Thread |-> None]
    /\ nextGlob = 1
    /\ found = FALSE
    /\ interval = BasePoll
    /\ pending = {}
    /\ quietTimer = "nil"
    /\ maxTimer = "nil"
    /\ final = FALSE
    /\ fswClosed = FALSE
    /\ events = {}

Init ==
    /\ disk \in [Path -> {"absent", "locked", "ready"}]
    /\ NewPoolInit(Configured, Openable)
    /\ phase = "up"
    /\ \E fsnotify \in BOOLEAN : ThreadsInit(fsnotify)

\* The process is started again: it reads its configuration, opens what is in
\* it and starts a new watcher.
Boot ==
    /\ phase = "down"
    /\ phase' = "up"
    /\ NewPool(Configured, Openable)
    /\ \E fsnotify \in BOOLEAN :
          pc' = [t \in Thread |-> IF t = "notify" /\ ~fsnotify THEN "stopped" ELSE "select"]
    /\ interval' = BasePoll
    /\ UNCHANGED <<disk, events, fswClosed, todo, cur, nextGlob, found, notifyVars>>

\* Program.Stop: the context is cancelled first.
Cancel ==
    /\ phase = "up"
    /\ phase' = "stopping"
    /\ UNCHANGED <<poolVars, envVars, fswClosed, threadVars, pollVars, notifyVars>>

\* Program.Stop: after the HTTP server, the pool is closed.  Nothing waits for
\* the watcher's goroutines.
ClosePool ==
    /\ phase = "stopping"
    /\ phase' = "closed"
    /\ Close
    /\ UNCHANGED <<envVars, fswClosed, threadVars, pollVars, notifyVars>>

\* The process ends, because Stop returned or because it was killed.
Exit ==
    /\ phase # "down"
    /\ phase' = "down"
    /\ PoolGone
    /\ pc' = [t \in Thread |-> "stopped"]
    /\ todo' = [t \in Thread |-> {}]
    /\ cur' = [t \in Thread |-> None]
    /\ nextGlob' = 1
    /\ found' = FALSE
    /\ pending' = {}
    /\ quietTimer' = "nil"
    /\ maxTimer' = "nil"
    /\ final' = FALSE
    /\ fswClosed' = FALSE
    /\ events' = {}
    /\ UNCHANGED <<disk, interval>>

-----------------------------------------------------------------------------
(* The disk, as other programs change it *)

\* A file appears, complete or still being written; a notification is queued
\* if its directory is watched and the queue does not overflow.
FileCreated(p) ==
    /\ disk[p] = "absent"
    /\ \E s \in {"locked", "ready"} : disk' = [disk EXCEPT ![p] = s]
    /\ \/ UNCHANGED events
       \/ /\ p \in Notified /\ phase # "down" /\ ~fswClosed
          /\ events' = events \cup {p}
    /\ UNCHANGED <<poolVars, phase, fswClosed, threadVars, pollVars, notifyVars>>

\* A copy completes, or a program takes or gives up exclusive access.
FileLockChanged(p) ==
    /\ disk[p] # "absent"
    /\ disk' = [disk EXCEPT ![p] = IF @ = "locked" THEN "ready" ELSE "locked"]
    /\ UNCHANGED <<poolVars, events, phase, fswClosed, threadVars, pollVars, notifyVars>>

FileRemoved(p) ==
    /\ disk[p] # "absent"
    /\ disk' = [disk EXCEPT ![p] = "absent"]
    /\ UNCHANGED <<poolVars, events, phase, fswClosed, threadVars, pollVars, notifyVars>>

-----------------------------------------------------------------------------
(* tryRegister, called by either thread *)

\* Mutant: compares aliases exactly.
AlreadyListed_ExactCase(a) == a \in Aliases

AlreadyListed(a) == \E existing \in Aliases : Fold[existing] = Fold[a]

\* No glob accepts the path, or its alias is listed: return false.
SkipPath(t) ==
    /\ pc[t] = "next"
    /\ \E p \in todo[t] :
          /\ p \notin Matched \/ AlreadyListed(AliasOf[p])
          /\ todo' = [todo EXCEPT ![t] = @ \ {p}]
    /\ UNCHANGED <<poolVars, envVars, phase, fswClosed, pc, cur, pollVars, notifyVars>>

\* Mutant: registers without asking what is listed.
CheckPath_NoCheck(t) ==
    /\ pc[t] = "next"
    /\ \E p \in todo[t] :
          /\ p \in Matched
          /\ todo' = [todo EXCEPT ![t] = @ \ {p}]
          /\ cur' = [cur EXCEPT ![t] = p]
    /\ pc' = [pc EXCEPT ![t] = "register"]
    /\ UNCHANGED <<poolVars, envVars, phase, fswClosed, pollVars, notifyVars>>

\* The alias was not listed at the instant Aliases was called.
CheckPath(t) ==
    /\ pc[t] = "next"
    /\ \E p \in todo[t] :
          /\ p \in Matched
          /\ ~AlreadyListed(AliasOf[p])
          /\ todo' = [todo EXCEPT ![t] = @ \ {p}]
          /\ cur' = [cur EXCEPT ![t] = p]
    /\ pc' = [pc EXCEPT ![t] = "register"]
    /\ UNCHANGED <<poolVars, envVars, phase, fswClosed, pollVars, notifyVars>>

\* Register returned nil: "database added", tryRegister returns true.
Registered(t) ==
    /\ pc[t] = "register"
    /\ \/ RegisterExisting(AliasOf[cur[t]])
       \/ cur[t] \in Openable /\ RegisterOpened(AliasOf[cur[t]], cur[t])
    /\ found' = (found \/ t = "poll")
    /\ pc' = [pc EXCEPT ![t] = "next"]
    /\ cur' = [cur EXCEPT ![t] = None]
    /\ UNCHANGED <<envVars, phase, fswClosed, todo, nextGlob, interval, notifyVars>>

\* Register returned an error: tryRegister returns false.
NotRegistered(t) ==
    /\ pc[t] = "register"
    /\ cur[t] \notin Openable
    /\ RegisterFailed(AliasOf[cur[t]])
    /\ pc' = [pc EXCEPT ![t] = "next"]
    /\ cur' = [cur EXCEPT ![t] = None]
    /\ UNCHANGED <<envVars, phase, fswClosed, todo, pollVars, notifyVars>>

-----------------------------------------------------------------------------
(* Thread "poll": Watcher.Run and poll *)

\* The ticker fires; poll starts with no match found.
PollTick ==
    /\ pc["poll"] = "select"
    /\ pc' = [pc EXCEPT !["poll"] = "glob"]
    /\ nextGlob' = 1
    /\ found' = FALSE
    /\ UNCHANGED <<poolVars, envVars, phase, fswClosed, todo, cur, interval, notifyVars>>

\* Mutant: only the first glob is expanded again.
PollGlob_FirstOnly ==
    /\ pc["poll"] = "glob"
    /\ nextGlob <= NGlobs
    /\ todo' = [todo EXCEPT !["poll"] = MatchGlob[nextGlob] \cap Existing]
    /\ nextGlob' = NGlobs + 1
    /\ pc' = [pc EXCEPT !["poll"] = "next"]
    /\ UNCHANGED <<poolVars, envVars, phase, fswClosed, cur, found, interval, notifyVars>>

\* poll expands its next glob on the disk as it is now.
PollGlob ==
    /\ pc["poll"] = "glob"
    /\ nextGlob <= NGlobs
    /\ todo' = [todo EXCEPT !["poll"] = MatchGlob[nextGlob] \cap Existing]
    /\ nextGlob' = nextGlob + 1
    /\ pc' = [pc EXCEPT !["poll"] = "next"]
    /\ UNCHANGED <<poolVars, envVars, phase, fswClosed, cur, found, interval, notifyVars>>

PollGlobDone ==
    /\ pc["poll"] = "next"
    /\ todo["poll"] = {}
    /\ pc' = [pc EXCEPT !["poll"] = "glob"]
    /\ UNCHANGED <<poolVars, envVars, phase, fswClosed, todo, cur, pollVars, notifyVars>>

\* The interval until the next poll, from the outcome of this one.
Backoff(ivl, success) ==
    IF success THEN BasePoll
    ELSE IF ivl >= MaxBackoff THEN ivl
    ELSE IF 2 * ivl > MaxBackoff THEN MaxBackoff ELSE 2 * ivl

\* poll returns, Run adapts the interval.
PollEnd ==
    /\ pc["poll"] = "glob"
    /\ nextGlob > NGlobs
    /\ interval' = Backoff(interval, found)
    /\ pc' = [pc EXCEPT !["poll"] = "select"]
    /\ UNCHANGED <<poolVars, envVars, phase, fswClosed, todo, cur, nextGlob, found, notifyVars>>

\* Mutant: the cancellation is only seen until the pool is closed.
PollStop_Early ==
    /\ pc["poll"] = "select"
    /\ phase = "stopping"
    /\ pc' = [pc EXCEPT !["poll"] = "stopped"]
    /\ fswClosed' = TRUE
    /\ UNCHANGED <<poolVars, envVars, phase, todo, cur, pollVars, notifyVars>>

\* ctx.Done: Run returns and its deferred fsw.Close runs.
PollStop ==
    /\ pc["poll"] = "select"
    /\ phase \in {"stopping", "closed"}
    /\ pc' = [pc EXCEPT !["poll"] = "stopped"]
    /\ fswClosed' = TRUE
    /\ UNCHANGED <<poolVars, envVars, phase, todo, cur, pollVars, notifyVars>>

-----------------------------------------------------------------------------
(* Thread "notify": fsnotifyLoop *)

\* A Create event: buffer the path, push back the quiet timer, and start the
\* maximum timer with the first event of a batch.
NotifyEvent ==
    /\ pc["notify"] = "select"
    /\ \E p \in events :
          /\ events' = events \ {p}
          /\ pending' = pending \cup {p}
    /\ quietTimer' = "armed"
    /\ maxTimer' = IF maxTimer = "nil" THEN "armed" ELSE maxTimer
    /\ UNCHANGED <<poolVars, disk, phase, fswClosed, threadVars, pollVars, final>>

\* flush starts: it goes through the buffer as it is now.
FlushBegin ==
    /\ pc["notify"] = "select"
    /\ pc' = [pc EXCEPT !["notify"] = "next"]
    /\ todo' = [todo EXCEPT !["notify"] = pending]
    /\ UNCHANGED <<poolVars, envVars, phase, fswClosed, cur, pollVars, pending, quietTimer, maxTimer>>

\* No event came for a while, and the quiet timer fired.
FlushOnQuiet == quietTimer = "armed" /\ FlushBegin /\ UNCHANGED final

\* The maximum timer of the batch fired.
FlushOnMax == maxTimer = "armed" /\ FlushBegin /\ UNCHANGED final

\* ctx.Done: flush, then return.
FlushOnDone == phase \in {"stopping", "closed"} /\ FlushBegin /\ final' = TRUE

\* Mutant: stops the timers without forgetting them.
FlushEnd_KeepsTimers ==
    /\ pc["notify"] = "next"
    /\ todo["notify"] = {}
    /\ pending' = {}
    /\ quietTimer' = IF quietTimer = "nil" THEN "nil" ELSE "stopped"
    /\ maxTimer' = IF maxTimer = "nil" THEN "nil" ELSE "stopped"
    /\ final' = FALSE
    /\ pc' = [pc EXCEPT !["notify"] = IF final THEN "stopped" ELSE "select"]
    /\ UNCHANGED <<poolVars, envVars, phase, fswClosed, todo, cur, pollVars>>

\* The end of flush: the whole batch is dropped, what failed to open included.
FlushEnd ==
    /\ pc["notify"] = "next"
    /\ todo["notify"] = {}
    /\ pending' = {}
    /\ quietTimer' = "nil"
    /\ maxTimer' = "nil"
    /\ final' = FALSE
    /\ pc' = [pc EXCEPT !["notify"] = IF final THEN "stopped" ELSE "select"]
    /\ UNCHANGED <<poolVars, envVars, phase, fswClosed, todo, cur, pollVars>>

\* A channel of the closed fsnotify watcher is ready: return without a flush.
NotifyClosed ==
    /\ pc["notify"] = "select"
    /\ fswClosed
    /\ pc' = [pc EXCEPT !["notify"] = "stopped"]
    /\ pending' = {}
    /\ UNCHANGED <<poolVars, envVars, phase, fswClosed, todo, cur, pollVars, quietTimer, maxTimer, final>>

-----------------------------------------------------------------------------

TryRegister(t) == SkipPath(t) \/ CheckPath(t) \/ Registered(t) \/ NotRegistered(t)

Poll ==
    \/ TryRegister("poll")
    \/ PollTick \/ PollGlob \/ PollGlobDone \/ PollEnd \/ PollStop

Notify ==
    \/ TryRegister("notify")
    \/ NotifyEvent \/ FlushOnQuiet \/ FlushOnMax \/ FlushOnDone \/ FlushEnd \/ NotifyClosed

Disk == \E p \in Path : FileCreated(p) \/ FileLockChanged(p) \/ FileRemoved(p)

Process == Boot \/ Cancel \/ ClosePool \/ Exit

Next == Poll \/ Notify \/ Disk \/ Process

Spec == Init /\ [][Next]_vars

(***************************************************************************)
(* Fairness.  A goroutine that can run does, the ticker ticks, and a timer *)
(* that nothing pushes back fires: WF of the steps of each thread and of   *)
(* the maximum timer.  The quiet timer gets none: every event restarts it, *)
(* so it need not fire.  When the context is done and another case of the  *)
(* select is ready as well, Go picks among the ready cases at random, so   *)
(* no ready case is passed over for ever: SF of the steps that leave the   *)
(* two loops.  Nothing is assumed of the disk, of what fsnotify delivers   *)
(* or of the process.                                                      *)
(***************************************************************************)
Fairness ==
    /\ WF_vars(TryRegister("poll") \/ PollTick \/ PollGlob \/ PollGlobDone \/ PollEnd)
    /\ SF_vars(PollStop)
    /\ WF_vars(TryRegister("notify") \/ FlushEnd)
    /\ WF_vars(FlushOnMax)
    /\ SF_vars(FlushOnDone)
    /\ SF_vars(NotifyClosed)

FairSpec == Spec /\ Fairness

-----------------------------------------------------------------------------
(* Safety *)

\* No two listed aliases differ only in case, although the two threads check
\* and register in separate critical sections and Register itself compares
\* aliases exactly (watcher.go:243, pool.go:155).
NoCaseClash ==
    Serving => \A a1, a2 \in Aliases : Fold[a1] = Fold[a2] => a1 = a2

\* A thread is past its alias check and about to call Register: while the pool
\* serves, the only listed alias that can clash with its own is that very alias,
\* put there by the other thread in the meantime, and it has a connection.  So
\* the Register to come adds a name or does nothing; it never takes over a name
\* (the two critical sections of watcher.go:243 and 249).
ClaimHolds ==
    \A t \in Thread : pc[t] = "register" =>
        /\ cur[t] \in Path
        /\ Serving => \A a \in Alias :
              paths[a] # None /\ Fold[a] = Fold[AliasOf[cur[t]]]
                  => a = AliasOf[cur[t]] /\ dbs[a] # None

\* A buffered path never waits without a deadline: whenever the buffer holds
\* one, the maximum timer of its batch runs, so a stream of events that keeps
\* pushing back the quiet timer cannot postpone the flush (watcher.go:173-184).
BatchHasDeadline == pending # {} => maxTimer = "armed"

\* The poll interval never drops below its base nor passes the longer of the
\* base and the maximum backoff, whatever polls found (watcher.go:106-112).
IntervalBounded ==
    /\ interval >= BasePoll
    /\ interval <= BasePoll \/ interval <= MaxBackoff

(* The abstract registry: while the pool is open, what it lists is what the
   service promised; once it is closed, nothing is. *)
RegistryView == IF Serving THEN paths ELSE EmptyMap

Promise == INSTANCE Registry WITH up <- Serving, bound <- RegistryView

\* While it serves, the detailed system only ever adds names (pool.go:152-166,
\* watcher.go:222-257).
RegistrySpec == Promise!Spec

-----------------------------------------------------------------------------
(* Liveness *)

\* A buffered path is handed to tryRegister or dropped at shutdown, however
\* many events keep arriving.
BatchFlushed == \A p \in Path : p \in pending ~> p \notin pending

\* Cancelling the context stops both goroutines, or the process ends first.
ThreadsStop ==
    phase \in {"stopping", "closed"} ~> \A t \in Thread : pc[t] = "stopped"

\* A file that a poll can see and that opens from some time on ends up listed
\* under its alias: lost notifications, files that were locked when they were
\* first tried and the other thread's registrations notwithstanding.
Discovered ==
    \A p \in UNION {MatchGlob[g] : g \in 1..NGlobs} :
        <>[](disk[p] = "ready" /\ phase = "up")
            => <>[](p \in Matched => AlreadyListed(AliasOf[p]))
=============================================================================
