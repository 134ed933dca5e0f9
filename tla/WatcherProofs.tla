---------------------------- MODULE WatcherProofs ----------------------------
(***************************************************************************)
(* Safety of the watcher and the pool, for every set of names and files,   *)
(* every configuration and every number of globs.                          *)
(***************************************************************************)
EXTENDS Watcher, TLAPS

PoolInv == PoolTypeOK /\ OneHandle /\ MapsAgree

\* The inductive invariant.
IInv ==
    /\ TypeOK
    /\ OneHandle
    /\ MapsAgree
    /\ NoCaseClash
    /\ ClaimHolds
    /\ BatchHasDeadline /\ maxTimer # "stopped"
    /\ IntervalBounded

-----------------------------------------------------------------------------
(* The configuration *)

\* What expandGlobs returns, as a map, has no two aliases that differ only in
\* case: NewPool lists each database once.
LEMMA ConfiguredMap ==
    ASSUME Entries \in Seq(Entry)
    PROVE  /\ Configured \in PartialMap
           /\ \A a1, a2 \in Alias :
                 Configured[a1] # None /\ Configured[a2] # None /\ Fold[a1] = Fold[a2]
                     => a1 = a2
<1> DEFINE kept == FirstEntries(Entries, Existing)
<1>1. ASSUME NEW i \in 1..Len(Entries)
      PROVE  Entries[i] \in Entry
  OBVIOUS
<1>2. \A r \in kept : r.path \in Path
  BY <1>1 DEF FirstEntries, Entry
<1>3. \A r1, r2 \in kept : Fold[r1.alias] = Fold[r2.alias] => r1.alias = r2.alias
  <2> SUFFICES ASSUME NEW i \in 1..Len(Entries), NEW j \in 1..Len(Entries),
                      Kept(Entries, Existing, i), Kept(Entries, Existing, j),
                      Fold[Entries[i].alias] = Fold[Entries[j].alias]
               PROVE  Entries[i].alias = Entries[j].alias
    BY DEF FirstEntries
  <2>1. ~(i < j)
    BY DEF Kept
  <2>2. ~(j < i)
    BY DEF Kept
  <2> QED
    BY <2>1, <2>2
<1>4. ASSUME NEW a \in Alias
      PROVE  /\ Configured[a] \in Path \cup {None}
             /\ Configured[a] # None => \E r \in kept : r.alias = a
  <2>1. CASE \E r \in kept : r.alias = a
    BY <2>1, <1>2 DEF Configured, AsMap
  <2>2. CASE ~ \E r \in kept : r.alias = a
    BY <2>2 DEF Configured, AsMap
  <2> QED
    BY <2>1, <2>2
<1>5. Configured \in PartialMap
  <2>1. Configured = [a \in Alias |-> Configured[a]]
    BY DEF Configured, AsMap
  <2> QED
    BY <2>1, <1>4 DEF PartialMap
<1> QED
  BY <1>3, <1>4, <1>5

-----------------------------------------------------------------------------
(* The methods of the pool keep its invariant, whoever calls them *)

\* A new pool has its maps in agreement, with one connection for each alias.
LEMMA NewPoolOpened ==
    ASSUME NEW cfg \in PartialMap, NEW openable \in SUBSET Path
    PROVE  /\ NewPoolInit(cfg, openable) => PoolInv
           /\ NewPool(cfg, openable) => PoolInv'
<1> USE NamesAssumption DEF PartialMap
<1>1. OpenedOf(cfg, openable) \in PartialMap
  BY DEF OpenedOf
<1>2. ASSUME NEW a \in Alias
      PROVE  OpenedOf(cfg, openable)[a] = IF cfg[a] \in openable THEN cfg[a] ELSE None
  BY DEF OpenedOf
<1>3. NewPoolInit(cfg, openable) => PoolInv
  BY <1>1, <1>2 DEF NewPoolInit, PoolInv, PoolTypeOK, OneHandle, MapsAgree
<1>4. NewPool(cfg, openable) => PoolInv'
  BY <1>1, <1>2 DEF NewPool, PoolInv, PoolTypeOK, OneHandle, MapsAgree
<1> QED
  BY <1>3, <1>4

\* Register keeps the maps in agreement.
LEMMA RegisterKeepsPool ==
    ASSUME PoolInv, NEW a \in Alias, NEW p \in Path, RegisterOpened(a, p)
    PROVE  PoolInv'
BY NamesAssumption DEF PoolInv, PoolTypeOK, OneHandle, MapsAgree, RegisterOpened, PartialMap

\* So does Close.
LEMMA CloseKeepsPool ==
    ASSUME PoolInv, Close
    PROVE  PoolInv'
BY NamesAssumption
   DEF PoolInv, PoolTypeOK, OneHandle, MapsAgree, Close, PartialMap, EmptyMap

\* So does the death of the process.
LEMMA GoneKeepsPool ==
    ASSUME PoolGone
    PROVE  PoolInv'
BY NamesAssumption
   DEF PoolInv, PoolTypeOK, OneHandle, MapsAgree, PoolGone, PartialMap, EmptyMap

\* So does a step that leaves the pool alone.
LEMMA UnchangedKeepsPool ==
    ASSUME PoolInv, UNCHANGED poolVars
    PROVE  PoolInv'
BY DEF PoolInv, PoolTypeOK, OneHandle, MapsAgree, poolVars

-----------------------------------------------------------------------------
(* Type correctness *)

\* Every variable keeps its type: in particular the interval stays a number
\* through its doublings, and nothing but a path is ever registered.
LEMMA InitType == Init => TypeOK
<1> SUFFICES ASSUME Init
             PROVE  TypeOK
  OBVIOUS
<1>1. PoolTypeOK
  <2>1. Configured \in PartialMap
    BY ConfiguredMap, WatcherAssumption
  <2> QED
    BY <2>1, NewPoolOpened DEF Init, Openable, PoolInv
<1>2. 1 \in 1..(NGlobs + 1) /\ BasePoll \in Nat
  BY WatcherAssumption
<1>3. PICK fsnotify \in BOOLEAN : ThreadsInit(fsnotify)
  BY DEF Init
<1> QED
  BY <1>1, <1>2, <1>3 DEF Init, TypeOK, ThreadsInit, Thread, Timer

\* Every step keeps the types.
LEMMA StepType == TypeOK /\ ClaimHolds /\ PoolTypeOK' /\ [Next]_vars => TypeOK'
<1> SUFFICES ASSUME TypeOK, ClaimHolds, PoolTypeOK', [Next]_vars
             PROVE  TypeOK'
  OBVIOUS
<1>0. NGlobs \in Nat /\ 1 \in 1..(NGlobs + 1) /\ BasePoll \in Nat /\ MaxBackoff \in Nat
      /\ MatchGlob \in [1..NGlobs -> SUBSET Path]
  BY WatcherAssumption
<1> USE <1>0 DEF TypeOK, Thread, Timer, envVars, pollVars, notifyVars, threadVars
<1>1. ASSUME NEW t \in Thread, SkipPath(t)  PROVE TypeOK'
  BY <1>1 DEF SkipPath
<1>2. ASSUME NEW t \in Thread, CheckPath(t)  PROVE TypeOK'
  BY <1>2 DEF CheckPath
<1>3. ASSUME NEW t \in Thread, Registered(t)  PROVE TypeOK'
  <2>1. cur[t] \in Path
    BY <1>3 DEF Registered, ClaimHolds
  <2> QED
    BY <1>3, <2>1 DEF Registered
<1>4. ASSUME NEW t \in Thread, NotRegistered(t)  PROVE TypeOK'
  BY <1>4 DEF NotRegistered
<1>5. CASE PollTick
  BY <1>5 DEF PollTick
<1>6. CASE PollGlob
  BY <1>6 DEF PollGlob, Existing
<1>7. CASE PollGlobDone
  BY <1>7 DEF PollGlobDone
<1>8. CASE PollEnd
  BY <1>8 DEF PollEnd, Backoff
<1>9. CASE PollStop
  BY <1>9 DEF PollStop
<1>10. CASE NotifyEvent
  BY <1>10 DEF NotifyEvent
<1>11. CASE FlushOnQuiet \/ FlushOnMax
  BY <1>11 DEF FlushOnQuiet, FlushOnMax, FlushBegin
<1>12. CASE FlushOnDone
  BY <1>12 DEF FlushOnDone, FlushBegin
<1>13. CASE FlushEnd
  BY <1>13 DEF FlushEnd
<1>14. CASE NotifyClosed
  BY <1>14 DEF NotifyClosed
<1>15. CASE Disk
  BY <1>15 DEF Disk, FileCreated, FileLockChanged, FileRemoved
<1>16. CASE Boot
  BY <1>16 DEF Boot
<1>17. CASE Cancel
  BY <1>17 DEF Cancel
<1>18. CASE ClosePool
  BY <1>18 DEF ClosePool
<1>19. CASE Exit
  BY <1>19 DEF Exit
<1>20. CASE UNCHANGED vars
  BY <1>20 DEF vars
<1> QED
  BY <1>1, <1>2, <1>3, <1>4, <1>5, <1>6, <1>7, <1>8, <1>9, <1>10, <1>11, <1>12, <1>13,
     <1>14, <1>15, <1>16, <1>17, <1>18, <1>19, <1>20
  DEF Next, Poll, Notify, TryRegister, Process

-----------------------------------------------------------------------------
(* The pool under the steps of the system *)

\* Every step keeps the pool in order.
LEMMA StepPool == IInv /\ [Next]_vars => PoolInv'
<1> SUFFICES ASSUME IInv, [Next]_vars
             PROVE  PoolInv'
  OBVIOUS
<1>0. PoolInv
  BY DEF IInv, TypeOK, PoolInv
<1>1. ASSUME NEW t \in Thread, Registered(t)  PROVE PoolInv'
  <2>1. CASE RegisterExisting(AliasOf[cur[t]])
    BY <2>1, <1>0, UnchangedKeepsPool DEF RegisterExisting
  <2>2. CASE RegisterOpened(AliasOf[cur[t]], cur[t])
    <3>1. cur[t] \in Path
      BY <1>1 DEF IInv, ClaimHolds, Registered
    <3>2. AliasOf[cur[t]] \in Alias
      BY <3>1, WatcherAssumption
    <3> QED
      BY <2>2, <3>1, <3>2, <1>0, RegisterKeepsPool
  <2> QED
    BY <1>1, <2>1, <2>2 DEF Registered
<1>2. CASE Boot
  <2>1. Openable \in SUBSET Path
    BY DEF Openable
  <2> QED
    BY <1>2, <2>1, ConfiguredMap, WatcherAssumption, NewPoolOpened DEF Boot
<1>3. CASE ClosePool
  BY <1>3, <1>0, CloseKeepsPool DEF ClosePool
<1>4. CASE Exit
  BY <1>4, GoneKeepsPool DEF Exit
<1>5. CASE UNCHANGED poolVars
  BY <1>5, <1>0, UnchangedKeepsPool
<1>6. ASSUME NEW t \in Thread, SkipPath(t) \/ CheckPath(t) \/ NotRegistered(t)
      PROVE  UNCHANGED poolVars
  BY <1>6 DEF SkipPath, CheckPath, NotRegistered, RegisterFailed
<1>7. PollTick \/ PollGlob \/ PollGlobDone \/ PollEnd \/ PollStop => UNCHANGED poolVars
  BY DEF PollTick, PollGlob, PollGlobDone, PollEnd, PollStop
<1>8. NotifyEvent \/ FlushOnQuiet \/ FlushOnMax \/ FlushOnDone \/ FlushEnd \/ NotifyClosed
        => UNCHANGED poolVars
  BY DEF NotifyEvent, FlushOnQuiet, FlushOnMax, FlushOnDone, FlushBegin, FlushEnd, NotifyClosed
<1>9. Disk \/ Cancel \/ UNCHANGED vars => UNCHANGED poolVars
  BY DEF Disk, FileCreated, FileLockChanged, FileRemoved, Cancel, vars
<1> QED
  BY <1>1, <1>2, <1>3, <1>4, <1>5, <1>6, <1>7, <1>8, <1>9
  DEF Next, Poll, Notify, TryRegister, Process, Thread

-----------------------------------------------------------------------------
(* Check and registration are two critical sections *)

\* What does not touch the pool or bring a thread to Register disturbs nothing.
LEMMA QuietKeepsClaims ==
    ASSUME NoCaseClash, ClaimHolds, UNCHANGED poolVars,
           Serving' => Serving,
           \A t \in Thread : pc'[t] = "register" => pc[t] = "register" /\ cur'[t] = cur[t]
    PROVE  NoCaseClash' /\ ClaimHolds'
<1>1. paths' = paths /\ dbs' = dbs
  BY DEF poolVars
<1>2. NoCaseClash'
  BY <1>1 DEF NoCaseClash, Aliases
<1>3. ASSUME NEW t \in Thread, pc'[t] = "register"
      PROVE  /\ cur'[t] \in Path
             /\ Serving' => \A a \in Alias :
                   paths'[a] # None /\ Fold[a] = Fold[AliasOf[cur'[t]]]
                       => a = AliasOf[cur'[t]] /\ dbs'[a] # None
  BY <1>1, <1>3 DEF ClaimHolds
<1> QED
  BY <1>2, <1>3 DEF ClaimHolds

\* A registration that opens a file while the pool serves: no alias that clashes
\* with the new one is listed, so nothing is taken over.
LEMMA FreshName ==
    ASSUME IInv, NEW t \in Thread, pc[t] = "register", Serving, dbs[AliasOf[cur[t]]] = None
    PROVE  /\ AliasOf[cur[t]] \in Alias
           /\ \A a \in Alias : Fold[a] = Fold[AliasOf[cur[t]]] => paths[a] = None
<1>1. cur[t] \in Path
  BY DEF IInv, ClaimHolds
<1>2. AliasOf[cur[t]] \in Alias
  BY <1>1, WatcherAssumption
<1> QED
  BY <1>2 DEF IInv, ClaimHolds

\* Every step keeps what the threads past their check rely on.
LEMMA StepClaims == IInv /\ [Next]_vars => NoCaseClash' /\ ClaimHolds'
<1> SUFFICES ASSUME IInv, [Next]_vars
             PROVE  NoCaseClash' /\ ClaimHolds'
  OBVIOUS
<1>0. /\ NoCaseClash /\ ClaimHolds /\ PoolInv
      /\ pc \in [Thread -> {"select", "glob", "next", "register", "stopped"}]
      /\ cur \in [Thread -> Path \cup {None}]
      /\ todo \in [Thread -> SUBSET Path]
  BY DEF IInv, TypeOK, PoolInv
<1>1. ASSUME NEW t \in Thread, CheckPath(t)  PROVE NoCaseClash' /\ ClaimHolds'
  <2>1. PICK p \in todo[t] :
          /\ p \in Matched
          /\ ~AlreadyListed(AliasOf[p])
          /\ todo' = [todo EXCEPT ![t] = @ \ {p}]
          /\ cur' = [cur EXCEPT ![t] = p]
    BY <1>1 DEF CheckPath
  <2>2. /\ pc' = [pc EXCEPT ![t] = "register"]
        /\ UNCHANGED <<poolVars, phase>>
    BY <1>1 DEF CheckPath
  <2>3. p \in Path /\ cur'[t] = p
    BY <2>1, <1>0
  <2>4. \A a \in Alias : paths[a] # None => Fold[a] # Fold[AliasOf[p]]
    BY <2>1 DEF AlreadyListed, Aliases
  <2>5. NoCaseClash'
    BY <2>2, <1>0 DEF NoCaseClash, Aliases, Serving, poolVars
  <2>6. \A u \in Thread : u # t /\ pc'[u] = "register" => pc[u] = "register" /\ cur'[u] = cur[u]
    BY <2>1, <2>2, <1>0
  <2>7. ClaimHolds'
    BY <2>2, <2>3, <2>4, <2>6, <1>0 DEF ClaimHolds, Serving, poolVars
  <2> QED
    BY <2>5, <2>7
<1>2. ASSUME NEW t \in Thread, Registered(t)  PROVE NoCaseClash' /\ ClaimHolds'
  <2> DEFINE alias == AliasOf[cur[t]]
  <2>1. /\ pc[t] = "register" /\ cur[t] \in Path /\ alias \in Alias
        /\ pc' = [pc EXCEPT ![t] = "next"]
        /\ cur' = [cur EXCEPT ![t] = None]
        /\ UNCHANGED phase
    BY <1>2, <1>0, WatcherAssumption DEF Registered, ClaimHolds
  <2>2. \A u \in Thread : pc'[u] = "register" => pc[u] = "register" /\ cur'[u] = cur[u]
    BY <2>1, <1>0
  <2>3. CASE RegisterExisting(alias)
    BY <2>1, <2>2, <2>3, <1>0, QuietKeepsClaims DEF RegisterExisting, Serving
  <2>4. CASE RegisterOpened(alias, cur[t])
    <3>1. \A a \in Alias : /\ a # alias => paths'[a] = paths[a] /\ dbs'[a] = dbs[a]
                           /\ a = alias => paths'[a] = cur[t] /\ dbs'[a] = cur[t]
      BY <2>1, <2>4, <1>0 DEF RegisterOpened, PoolInv, PoolTypeOK, PartialMap
    <3>2. cur[t] # None
      BY <2>1, NamesAssumption
    <3>3. CASE Serving
      <4>1. \A a \in Alias : Fold[a] = Fold[alias] => paths[a] = None
        BY <2>1, <2>4, <3>3, FreshName DEF RegisterOpened
      <4>2. NoCaseClash'
        <5> SUFFICES ASSUME NEW a1 \in Alias, NEW a2 \in Alias,
                            paths'[a1] # None, paths'[a2] # None, Fold[a1] = Fold[a2]
                     PROVE  a1 = a2
          BY DEF NoCaseClash, Aliases
        <5>1. CASE a1 = alias \/ a2 = alias
          BY <5>1, <4>1, <3>1
        <5>2. CASE a1 # alias /\ a2 # alias
          BY <5>2, <3>1, <3>3, <1>0 DEF NoCaseClash, Aliases
        <5> QED
          BY <5>1, <5>2
      <4>3. ASSUME NEW u \in Thread, pc'[u] = "register",
                   NEW a \in Alias, paths'[a] # None, Fold[a] = Fold[AliasOf[cur'[u]]]
            PROVE  a = AliasOf[cur'[u]] /\ dbs'[a] # None
        <5>1. cur'[u] = cur[u] /\ cur[u] \in Path
          BY <2>2, <4>3, <1>0 DEF ClaimHolds
        <5>2. CASE a = alias
          BY <5>1, <5>2, <4>3, <2>1, <3>1, <3>2, WatcherAssumption
        <5>3. CASE a # alias
          BY <5>1, <5>3, <4>3, <2>2, <3>1, <3>3, <1>0 DEF ClaimHolds
        <5> QED
          BY <5>2, <5>3
      <4>4. ClaimHolds'
        BY <4>3, <2>2, <1>0 DEF ClaimHolds
      <4> QED
        BY <4>2, <4>4
    <3>4. CASE ~Serving
      BY <3>4, <2>1, <2>2, <1>0 DEF NoCaseClash, ClaimHolds, Serving
    <3> QED
      BY <3>3, <3>4
  <2> QED
    BY <1>2, <2>3, <2>4 DEF Registered
<1>3. CASE Boot
  <2>1. \A t \in Thread : pc'[t] # "register"
    BY <1>3 DEF Boot
  <2>2. paths' = Configured
    BY <1>3 DEF Boot, NewPool
  <2>3. NoCaseClash'
    BY <2>2, ConfiguredMap, WatcherAssumption DEF NoCaseClash, Aliases
  <2> QED
    BY <2>1, <2>3 DEF ClaimHolds
<1>4. CASE ClosePool \/ Exit
  <2>1. ~Serving' /\ \A t \in Thread : pc'[t] = "register" => pc[t] = "register" /\ cur'[t] = cur[t]
    BY <1>4 DEF ClosePool, Exit, Serving, threadVars
  <2> QED
    BY <2>1, <1>0 DEF NoCaseClash, ClaimHolds
<1>5. ASSUME UNCHANGED poolVars, Serving' => Serving,
             \A t \in Thread : pc'[t] = "register" => pc[t] = "register" /\ cur'[t] = cur[t]
      PROVE  NoCaseClash' /\ ClaimHolds'
  BY <1>5, <1>0, QuietKeepsClaims
<1>6. ASSUME NEW t \in Thread, SkipPath(t)  PROVE NoCaseClash' /\ ClaimHolds'
  <2>1. UNCHANGED <<poolVars, phase, pc, cur>>
    BY <1>6 DEF SkipPath
  <2> QED
    BY <2>1, <1>5 DEF Serving
<1>7. ASSUME NEW t \in Thread, NotRegistered(t)  PROVE NoCaseClash' /\ ClaimHolds'
  BY <1>7, <1>5, <1>0 DEF NotRegistered, RegisterFailed, Serving
<1>8. CASE PollTick \/ PollGlob \/ PollGlobDone \/ PollEnd \/ PollStop
  BY <1>8, <1>5, <1>0 DEF PollTick, PollGlob, PollGlobDone, PollEnd, PollStop, Serving, Thread
<1>9. CASE NotifyEvent \/ FlushOnQuiet \/ FlushOnMax \/ FlushOnDone \/ FlushEnd \/ NotifyClosed
  BY <1>9, <1>5, <1>0
  DEF NotifyEvent, FlushOnQuiet, FlushOnMax, FlushOnDone, FlushBegin, FlushEnd, NotifyClosed, Serving, Thread, threadVars
<1>10. CASE Disk \/ Cancel \/ UNCHANGED vars
  BY <1>10, <1>5
  DEF Disk, FileCreated, FileLockChanged, FileRemoved, Cancel, vars, Serving, threadVars
<1> QED
  BY <1>1, <1>2, <1>3, <1>4, <1>6, <1>7, <1>8, <1>9, <1>10
  DEF Next, Poll, Notify, TryRegister, Process, Thread

-----------------------------------------------------------------------------
(* The debounce timers and the poll interval *)

\* Every step leaves a batch its deadline.
LEMMA StepTimers ==
    BatchHasDeadline /\ maxTimer # "stopped" /\ maxTimer \in Timer /\ [Next]_vars
        => BatchHasDeadline' /\ maxTimer' # "stopped"
<1> SUFFICES ASSUME BatchHasDeadline, maxTimer # "stopped", maxTimer \in Timer, [Next]_vars
             PROVE  BatchHasDeadline' /\ maxTimer' # "stopped"
  OBVIOUS
<1> USE DEF BatchHasDeadline, Timer
<1>1. CASE NotifyEvent
  BY <1>1 DEF NotifyEvent
<1>2. CASE FlushEnd \/ Exit
  BY <1>2 DEF FlushEnd, Exit
<1>3. CASE NotifyClosed
  BY <1>3 DEF NotifyClosed
<1>4. CASE UNCHANGED <<pending, maxTimer>>
  BY <1>4
<1>5. ASSUME NEW t \in Thread, TryRegister(t)
      PROVE  UNCHANGED <<pending, maxTimer>>
  BY <1>5
  DEF TryRegister, SkipPath, CheckPath, Registered, NotRegistered, notifyVars
<1>6. PollTick \/ PollGlob \/ PollGlobDone \/ PollEnd \/ PollStop \/ FlushOnQuiet \/ FlushOnMax \/ FlushOnDone
        => UNCHANGED <<pending, maxTimer>>
  BY DEF PollTick, PollGlob, PollGlobDone, PollEnd, PollStop, FlushOnQuiet, FlushOnMax, FlushOnDone, FlushBegin, notifyVars
<1>7. Disk \/ Boot \/ Cancel \/ ClosePool \/ UNCHANGED vars => UNCHANGED <<pending, maxTimer>>
  BY DEF Disk, FileCreated, FileLockChanged, FileRemoved, Boot, Cancel, ClosePool, vars, notifyVars
<1> QED
  BY <1>1, <1>2, <1>3, <1>4, <1>5, <1>6, <1>7 DEF Next, Poll, Notify, Process, Thread

\* Every step keeps the polling interval within its bounds.
LEMMA StepInterval ==
    interval \in Nat /\ IntervalBounded /\ [Next]_vars => IntervalBounded'
<1> SUFFICES ASSUME interval \in Nat, IntervalBounded, [Next]_vars
             PROVE  IntervalBounded'
  OBVIOUS
<1>0. BasePoll \in Nat \ {0} /\ MaxBackoff \in Nat \ {0}
  BY WatcherAssumption
<1>1. CASE PollEnd
  <2>1. interval' = Backoff(interval, found)
    BY <1>1 DEF PollEnd
  <2>2. CASE interval' = BasePoll
    BY <2>2, <1>0 DEF IntervalBounded
  <2>3. CASE interval' = interval
    BY <2>3 DEF IntervalBounded
  <2>4. CASE interval < MaxBackoff /\ 2 * interval > MaxBackoff /\ interval' = MaxBackoff
    BY <2>4, <1>0 DEF IntervalBounded
  <2>5. CASE interval < MaxBackoff /\ ~(2 * interval > MaxBackoff) /\ interval' = 2 * interval
    BY <2>5, <1>0 DEF IntervalBounded
  <2> QED
    BY <2>1, <2>2, <2>3, <2>4, <2>5, <1>0 DEF Backoff
<1>2. CASE Boot
  BY <1>2, <1>0 DEF Boot, IntervalBounded
<1>3. CASE UNCHANGED interval
  BY <1>3 DEF IntervalBounded
<1>4. ASSUME NEW t \in Thread, TryRegister(t)
      PROVE  UNCHANGED interval
  BY <1>4
  DEF TryRegister, SkipPath, CheckPath, Registered, NotRegistered, pollVars
<1>5. PollTick \/ PollGlob \/ PollGlobDone \/ PollStop => UNCHANGED interval
  BY DEF PollTick, PollGlob, PollGlobDone, PollStop, pollVars
<1>6. NotifyEvent \/ FlushOnQuiet \/ FlushOnMax \/ FlushOnDone \/ FlushEnd \/ NotifyClosed => UNCHANGED interval
  BY DEF NotifyEvent, FlushOnQuiet, FlushOnMax, FlushOnDone, FlushBegin, FlushEnd, NotifyClosed, pollVars
<1>7. Disk \/ Cancel \/ ClosePool \/ Exit \/ UNCHANGED vars => UNCHANGED interval
  BY DEF Disk, FileCreated, FileLockChanged, FileRemoved, Cancel, ClosePool, Exit, vars, pollVars
<1> QED
  BY <1>1, <1>2, <1>3, <1>4, <1>5, <1>6, <1>7 DEF Next, Poll, Notify, Process, Thread

-----------------------------------------------------------------------------
(* The invariant *)

\* The invariant holds at the start.
LEMMA InitInv == Init => IInv
<1> SUFFICES ASSUME Init
             PROVE  IInv
  OBVIOUS
<1>1. TypeOK
  BY InitType
<1>2. Openable \in SUBSET Path
  BY DEF Openable
<1>3. PoolInv
  BY <1>2, ConfiguredMap, NewPoolOpened, WatcherAssumption DEF Init
<1>4. PICK fsnotify \in BOOLEAN : ThreadsInit(fsnotify)
  BY DEF Init
<1>5. paths = Configured
  BY DEF Init, NewPoolInit
<1>6. NoCaseClash
  BY <1>5, ConfiguredMap, WatcherAssumption DEF NoCaseClash, Aliases
<1>7. ClaimHolds
  BY <1>4 DEF ThreadsInit, ClaimHolds
<1>8. BatchHasDeadline /\ maxTimer # "stopped" /\ IntervalBounded
  BY <1>4, WatcherAssumption DEF ThreadsInit, BatchHasDeadline, IntervalBounded
<1> QED
  BY <1>1, <1>3, <1>6, <1>7, <1>8 DEF IInv, PoolInv

\* Every step preserves the invariant.
LEMMA StepInv == IInv /\ [Next]_vars => IInv'
<1> SUFFICES ASSUME IInv, [Next]_vars
             PROVE  IInv'
  OBVIOUS
<1>1. PoolInv'
  BY StepPool
<1>2. TypeOK'
  BY <1>1, StepType DEF IInv, PoolInv
<1>3. NoCaseClash' /\ ClaimHolds'
  BY StepClaims
<1>4. BatchHasDeadline' /\ maxTimer' # "stopped"
  BY StepTimers DEF IInv, TypeOK
<1>5. IntervalBounded'
  BY StepInterval DEF IInv, TypeOK
<1> QED
  BY <1>1, <1>2, <1>3, <1>4, <1>5 DEF IInv, PoolInv

\* The inductive invariant holds in every reachable state.
THEOREM Invariance == Spec => []IInv
<1> QED
  BY InitInv, StepInv, PTL DEF Spec

\* Every variable has its type in every reachable state.
THEOREM TypeCorrect == Spec => []TypeOK
<1>1. IInv => TypeOK
  BY DEF IInv
<1> QED
  BY <1>1, Invariance, PTL

\* No connection is ever leaked, opened twice for an alias, or recorded for a
\* file other than the listed one, whatever the two threads, the disk and the
\* shutdown do (Pool.Register and Pool.Close under their callers).
THEOREM PoolSafe == Spec => [](OneHandle /\ MapsAgree)
<1>1. IInv => OneHandle /\ MapsAgree
  BY DEF IInv
<1> QED
  BY <1>1, Invariance, PTL

\* No two listed aliases differ only in case, although Register compares them
\* exactly and outside of the section in which the watcher compared them.
THEOREM CaseSafe == Spec => [](NoCaseClash /\ ClaimHolds)
<1>1. IInv => NoCaseClash /\ ClaimHolds
  BY DEF IInv
<1> QED
  BY <1>1, Invariance, PTL

\* Every buffered path has a deadline, and the poll interval its bounds.
THEOREM TimersSafe == Spec => [](BatchHasDeadline /\ IntervalBounded)
<1>1. IInv => BatchHasDeadline /\ IntervalBounded
  BY DEF IInv
<1> QED
  BY <1>1, Invariance, PTL

-----------------------------------------------------------------------------
(* The refinement *)

\* The initial states are those of the registry.
LEMMA ViewInit == Init => Promise!Init
<1> SUFFICES ASSUME Init
             PROVE  Promise!Init
  OBVIOUS
<1>1. Serving /\ RegistryView = Configured
  BY DEF Init, NewPoolInit, Serving, RegistryView
<1> QED
  BY <1>1, ConfiguredMap, WatcherAssumption
  DEF Promise!Init, Promise!Bindings, Promise!CaseUnique, Promise!PartialMap, PartialMap, Serving

\* A registration that opens a file while the pool serves is a discovery; after
\* Close it changes nothing that was promised.
LEMMA ViewRegistered ==
    ASSUME IInv, IInv', NEW t \in Thread, Registered(t)
    PROVE  Promise!Next \/ UNCHANGED Promise!vars
<1> DEFINE alias == AliasOf[cur[t]]
<1>1. cur[t] \in Path /\ alias \in Alias /\ pc[t] = "register"
  BY WatcherAssumption DEF IInv, ClaimHolds, Registered
<1>2. Serving' <=> Serving
  BY DEF Registered, Serving
<1>3. CASE UNCHANGED paths
  BY <1>2, <1>3 DEF RegistryView, Promise!vars
<1>4. CASE ~Serving
  BY <1>2, <1>4 DEF RegistryView, Promise!vars
<1>5. CASE Serving /\ RegisterOpened(alias, cur[t])
  <2>1. paths[alias] = None
    BY <1>1, <1>5, FreshName DEF RegisterOpened
  <2>2. RegistryView = paths /\ RegistryView' = paths'
    BY <1>2, <1>5 DEF RegistryView
  <2>3. paths' = [paths EXCEPT ![alias] = cur[t]]
    BY <1>5 DEF RegisterOpened
  <2>4. \A a1, a2 \in Alias :
            paths'[a1] # None /\ paths'[a2] # None /\ Fold[a1] = Fold[a2] => a1 = a2
    BY <1>2, <1>5 DEF IInv, NoCaseClash, Aliases
  <2>5. Promise!Discover(alias, cur[t])
    BY <2>1, <2>2, <2>3, <2>4, <1>2, <1>5 DEF Promise!Discover, Promise!CaseUnique
  <2> QED
    BY <2>5, <1>1 DEF Promise!Next
<1> QED
  BY <1>3, <1>4, <1>5 DEF Registered, RegisterExisting, poolVars

\* A step of the watcher is a step of the registry or changes nothing of it.
LEMMA ViewStep == IInv /\ IInv' /\ [Next]_vars => [Promise!Next]_(Promise!vars)
<1> SUFFICES ASSUME IInv, IInv', [Next]_vars
             PROVE  Promise!Next \/ UNCHANGED Promise!vars
  OBVIOUS
<1>1. ASSUME NEW t \in Thread, Registered(t)
      PROVE  Promise!Next \/ UNCHANGED Promise!vars
  BY <1>1, ViewRegistered
<1>2. CASE Boot
  <2>1. ~Serving /\ Serving' /\ RegistryView' = Configured
    BY <1>2 DEF Boot, Serving, RegistryView, NewPool
  <2>2. Promise!Up
    BY <2>1, ConfiguredMap, WatcherAssumption
    DEF Promise!Up, Promise!Bindings, Promise!CaseUnique, Promise!PartialMap, PartialMap, Serving
  <2> QED
    BY <2>2 DEF Promise!Next
<1>3. CASE ClosePool \/ Exit
  <2>1. ~Serving' /\ RegistryView' = EmptyMap
    BY <1>3 DEF ClosePool, Exit, Serving, RegistryView
  <2>2. CASE Serving
    BY <2>1, <2>2 DEF Promise!Down, Promise!Next, Promise!EmptyMap, EmptyMap, Serving
  <2>3. CASE ~Serving
    BY <2>1, <2>3 DEF RegistryView, Promise!vars, Serving
  <2> QED
    BY <2>2, <2>3
<1>4. CASE UNCHANGED paths /\ (Serving' <=> Serving)
  BY <1>4 DEF RegistryView, Promise!vars
<1>5. ASSUME NEW t \in Thread, SkipPath(t) \/ CheckPath(t) \/ NotRegistered(t)
      PROVE  UNCHANGED <<paths, phase>>
  BY <1>5 DEF SkipPath, CheckPath, NotRegistered, RegisterFailed, poolVars
<1>6. PollTick \/ PollGlob \/ PollGlobDone \/ PollEnd \/ PollStop => UNCHANGED <<paths, phase>>
  BY DEF PollTick, PollGlob, PollGlobDone, PollEnd, PollStop, poolVars
<1>7. NotifyEvent \/ FlushOnQuiet \/ FlushOnMax \/ FlushOnDone \/ FlushEnd \/ NotifyClosed
        => UNCHANGED <<paths, phase>>
  BY DEF NotifyEvent, FlushOnQuiet, FlushOnMax, FlushOnDone, FlushBegin, FlushEnd, NotifyClosed, poolVars
<1>8. Disk \/ UNCHANGED vars => UNCHANGED <<paths, phase>>
  BY DEF Disk, FileCreated, FileLockChanged, FileRemoved, vars, poolVars
<1>9. Cancel => UNCHANGED paths /\ (Serving' <=> Serving)
  BY DEF Cancel, Serving, poolVars
<1>10. UNCHANGED <<paths, phase>> => UNCHANGED paths /\ (Serving' <=> Serving)
  BY DEF Serving
<1> QED
  BY <1>1, <1>2, <1>3, <1>4, <1>5, <1>6, <1>7, <1>8, <1>9, <1>10
  DEF Next, Poll, Notify, TryRegister, Process, Thread

\* While it serves, the system with its threads, locks and files only ever adds
\* names: it implements the abstract registry.
THEOREM Refinement == Spec => RegistrySpec
<1> QED
  BY ViewInit, ViewStep, Invariance, PTL DEF Spec, RegistrySpec, Promise!Spec
=============================================================================
