------------------------------ MODULE Requests ------------------------------
(***************************************************************************)
(* The requests being served: PoolStore and its schema caches              *)
(* (internal/mdb/store.go, schema.go), the pool's lock and the connections *)
(* of each database (pool.go), and the shutdown that closes them.          *)
(*                                                                         *)
(* Three kinds of goroutines: a request (net/http starts one per request), *)
(* a registrar (the goroutines of Watcher.tla, reduced to what they do to  *)
(* the pool) and the one that runs Program.Stop.  A database handle        *)
(* (a sql.DB) of an alias is a number, 0 is nil; it is open while the pool  *)
(* holds it, and lends out at most MaxOpenConns connections.  One table of *)
(* each database is enough: the caches keep tables apart.                  *)
(***************************************************************************)
EXTENDS RWLock, Naturals, FiniteSets

CONSTANTS
    Alias,
    Initial,        \* the aliases of the configuration
    Request,        \* goroutines that serve requests, one after another
    Registrar,      \* the watcher's goroutines
    Stopper,        \* the goroutine of Program.Stop
    MaxOpenConns    \* connections a handle lends out

ASSUME RequestsAssumption ==
    /\ Initial \subseteq Alias
    /\ Proc = Request \cup Registrar \cup {Stopper}
    /\ Stopper \notin Request \cup Registrar
    /\ Request \cap Registrar = {}
    /\ MaxOpenConns \in Nat \ {0}

VARIABLES
    dbs,        \* Pool.dbs: alias -> handle, 0 when absent
    listed,     \* the keys of Pool.paths
    opened,     \* the number of handles opened for each alias; with the first one it
                \* gets its key of Pool.connStrs, which Close leaves
    cacheMu,    \* the holder of PoolStore.cacheMu
    cached,     \* the keys of PoolStore.caches
    cacheDb,    \* ColumnCache.db of each alias
    known,      \* the aliases whose cache holds the columns of the table
    req,        \* the request each goroutine serves
    reg,        \* where each registrar is, and the alias it registers
    stop,       \* where Program.Stop is
    timedOut,   \* its Shutdown gave up waiting for requests
    crashed     \* the runtime found a map in concurrent use and ended the process

poolVars == <<dbs, listed, opened>>
cacheVars == <<cacheMu, cached, cacheDb, known>>
vars == <<lockVars, poolVars, cacheVars, req, reg, stop, timedOut, crashed>>

\* What a request can ask: Databases, ListTables, ExecuteSQL, and QueryTable
\* without and with a column to validate.
Op == {"list", "tables", "sql", "plain", "filtered"}

ReqPc == {"idle", "get", "cache", "fill", "columns", "describe", "describing", "store",
          "storing", "query", "querying", "list", "pings", "pinging"}

\* An alias is opened once, and once more by a registrar that outlives Close.
Handle == 0..2

ReqState == [pc : ReqPc, op : Op, alias : Alias \cup {Nobody},
             handle : Handle,               \* what Get returned
             conn : Handle,                 \* the handle a connection is borrowed from
             toPing : SUBSET Alias,         \* Databases: still to be pinged
             report : [Alias -> Handle],    \* Databases: the handle pinged
             outcome : {"none", "answered", "notFound", "failed", "expired", "closed", "panic"}]

TypeOK ==
    /\ LockTypeOK
    /\ dbs \in [Alias -> Handle]
    /\ listed \in SUBSET Alias
    /\ opened \in [Alias -> Handle]
    /\ cacheMu \in Request \cup {Nobody}
    /\ cached \in SUBSET Alias
    /\ cacheDb \in [Alias -> Handle]
    /\ known \in SUBSET cached
    /\ req \in [Request -> ReqState]
    /\ reg \in [Registrar -> [pc : {"idle", "aliases", "lock", "entering", "inside"},
                              alias : Alias \cup {Nobody}]]
    /\ stop \in {"serving", "draining", "lock", "entering", "inside", "closed"}
    /\ timedOut \in BOOLEAN
    /\ crashed \in BOOLEAN

\* A goroutine between requests; o is how the last one ended.
Ended(o) == [pc |-> "idle", op |-> "list", alias |-> Nobody, handle |-> 0, conn |-> 0,
             toPing |-> {}, report |-> [a \in Alias |-> 0], outcome |-> o]

Init ==
    /\ LockInit
    /\ \E working \in SUBSET Initial :      \* NewPool goes on when a file does not open
          dbs = [a \in Alias |-> IF a \in working THEN 1 ELSE 0]
    /\ listed = Initial
    /\ opened = dbs
    /\ cacheMu = Nobody
    /\ cached = {}
    /\ cacheDb = [a \in Alias |-> 0]
    /\ known = {}
    /\ req = [r \in Request |-> Ended("none")]
    /\ reg = [w \in Registrar |-> [pc |-> "idle", alias |-> Nobody]]
    /\ stop = "serving"
    /\ timedOut = FALSE
    /\ crashed = FALSE

-----------------------------------------------------------------------------
(* Steps of a request that several handlers share *)

At(r, l) == req[r].pc = l /\ ~crashed
Goto(r, l) == req' = [req EXCEPT ![r].pc = l]
Finish(r, o) == req' = [req EXCEPT ![r] = Ended(o)]

\* database/sql: handle h of alias a is open, and one of its connections free.
Open(a, h) == h # 0 /\ dbs[a] = h
Users(a, h) == {r \in Request : req[r].alias = a /\ req[r].conn = h}
Free(a, h) == Cardinality(Users(a, h)) < MaxOpenConns

Borrow(r, h, l) ==
    /\ Open(req[r].alias, h)
    /\ Free(req[r].alias, h)
    /\ req' = [req EXCEPT ![r].conn = h, ![r].pc = l]
    /\ UNCHANGED <<lockVars, poolVars, cacheVars, reg, stop, timedOut, crashed>>

\* net/http accepts until Shutdown has seen every connection idle.
Accepting == stop \in {"serving", "draining"} \/ timedOut

\* A request arrives, and its handler's first act is a read section of the pool.
Start(r) ==
    /\ At(r, "idle") /\ Accepting
    /\ \E o \in Op, a \in Alias :
          req' = [req EXCEPT ![r] = [Ended("none") EXCEPT
                    !.pc = IF o = "list" THEN "list" ELSE "get", !.op = o,
                    !.alias = IF o = "list" THEN Nobody ELSE a]]
    /\ RLock(r)
    /\ UNCHANGED <<poolVars, cacheVars, reg, stop, timedOut, crashed>>

-----------------------------------------------------------------------------
(* ListTables, ExecuteSQL and QueryTable *)

\* ConnStrFor finds no connection string (an alias that failed to open at the start has
\* a path only), or Get no handle: 404.
NotFound(r) ==
    /\ At(r, "get")
    /\ RUnlock(r)
    /\ IF req[r].op = "tables" THEN opened[req[r].alias] = 0 ELSE dbs[req[r].alias] = 0
    /\ Finish(r, "notFound")
    /\ UNCHANGED <<poolVars, cacheVars, reg, stop, timedOut, crashed>>

\* ListTables opens a connection of its own, past pool and handle.
Tables(r) ==
    /\ At(r, "get")
    /\ RUnlock(r)
    /\ req[r].op = "tables" /\ opened[req[r].alias] # 0
    /\ \E o \in {"answered", "failed", "expired"} : Finish(r, o)
    /\ UNCHANGED <<poolVars, cacheVars, reg, stop, timedOut, crashed>>

\* Mutant: the success path forgets to leave the read section.
Get_NoUnlock(r) ==
    /\ At(r, "get")
    /\ r \in readers
    /\ req[r].op # "tables" /\ dbs[req[r].alias] # 0
    /\ req' = [req EXCEPT ![r].handle = dbs[req[r].alias],
                          ![r].pc = IF req[r].op = "sql" THEN "query" ELSE "cache"]
    /\ UNCHANGED <<lockVars, poolVars, cacheVars, reg, stop, timedOut, crashed>>

\* Mutant: the error of Get is ignored, as cache ignores it.
Get_NoCheck(r) ==
    /\ At(r, "get")
    /\ RUnlock(r)
    /\ req[r].op # "tables"
    /\ req' = [req EXCEPT ![r].handle = dbs[req[r].alias],
                          ![r].pc = IF req[r].op = "sql" THEN "query" ELSE "cache"]
    /\ UNCHANGED <<poolVars, cacheVars, reg, stop, timedOut, crashed>>

\* Get returns the handle.
Get(r) ==
    /\ At(r, "get")
    /\ RUnlock(r)
    /\ req[r].op # "tables" /\ dbs[req[r].alias] # 0
    /\ req' = [req EXCEPT ![r].handle = dbs[req[r].alias],
                          ![r].pc = IF req[r].op = "sql" THEN "query" ELSE "cache"]
    /\ UNCHANGED <<poolVars, cacheVars, reg, stop, timedOut, crashed>>

AfterCache(r) == IF req[r].op = "filtered" THEN "columns" ELSE "query"

\* cache: there is one for the alias.
CacheHit(r) ==
    /\ At(r, "cache")
    /\ cacheMu = Nobody
    /\ req[r].alias \in cached
    /\ Goto(r, AfterCache(r))
    /\ UNCHANGED <<lockVars, poolVars, cacheVars, reg, stop, timedOut, crashed>>

\* cache: there is none; holding cacheMu, ask the pool for the handle again.
CacheMiss(r) ==
    /\ At(r, "cache")
    /\ cacheMu = Nobody
    /\ req[r].alias \notin cached
    /\ cacheMu' = r
    /\ RLock(r)
    /\ Goto(r, "fill")
    /\ UNCHANGED <<poolVars, cached, cacheDb, known, reg, stop, timedOut, crashed>>

\* cache: whatever Get returns, nil included, goes into the new cache.
CacheFill(r) ==
    /\ At(r, "fill")
    /\ RUnlock(r)
    /\ cached' = cached \cup {req[r].alias}
    /\ cacheDb' = [cacheDb EXCEPT ![req[r].alias] = dbs[req[r].alias]]
    /\ cacheMu' = Nobody
    /\ Goto(r, AfterCache(r))
    /\ UNCHANGED <<poolVars, known, reg, stop, timedOut, crashed>>

\* Another request is writing the map of the same ColumnCache.
Writing(r) == \E q \in Request \ {r} : req[q].pc = "storing" /\ req[q].alias = req[r].alias

\* ValidateColumn: the filter names a column of the table or it does not.
Validate(r) == Goto(r, "query") \/ Finish(r, "failed")

\* Columns looks the table up, without a lock.
Columns(r) ==
    /\ At(r, "columns")
    /\ IF req[r].alias \in known THEN Validate(r) ELSE Goto(r, "describe")
    /\ UNCHANGED <<lockVars, poolVars, cacheVars, reg, stop, timedOut, crashed>>

\* describeTable runs a query on the handle in the cache.
Describe(r) == At(r, "describe") /\ Borrow(r, cacheDb[req[r].alias], "describing")

\* That handle is nil: the panic is recovered, 500.
DescribePanic(r) ==
    /\ At(r, "describe")
    /\ cacheDb[req[r].alias] = 0
    /\ Finish(r, "panic")
    /\ UNCHANGED <<lockVars, poolVars, cacheVars, reg, stop, timedOut, crashed>>

DescribeDone(r) ==
    /\ At(r, "describing")
    /\ \/ req' = [req EXCEPT ![r].pc = "store", ![r].conn = 0]
       \/ Finish(r, "failed")
    /\ UNCHANGED <<lockVars, poolVars, cacheVars, reg, stop, timedOut, crashed>>

\* The assignment to the map, which takes time and no lock.
StoreBegin(r) ==
    /\ At(r, "store")
    /\ Goto(r, "storing")
    /\ UNCHANGED <<lockVars, poolVars, cacheVars, reg, stop, timedOut, crashed>>

StoreEnd(r) ==
    /\ At(r, "storing")
    /\ known' = known \cup {req[r].alias}
    /\ Validate(r)
    /\ UNCHANGED <<lockVars, poolVars, cacheMu, cached, cacheDb, reg, stop, timedOut, crashed>>

\* A map read or written while another goroutine writes it: the runtime may
\* notice, and then throws, which no recover catches.
Throw(r) ==
    /\ At(r, "columns") \/ At(r, "store")
    /\ Writing(r)
    /\ crashed' = TRUE
    /\ UNCHANGED <<lockVars, poolVars, cacheVars, req, reg, stop, timedOut>>

\* validateReadOnlySQL refuses the statement: 403.
Forbidden(r) ==
    /\ At(r, "query")
    /\ req[r].op = "sql"
    /\ Finish(r, "failed")
    /\ UNCHANGED <<lockVars, poolVars, cacheVars, reg, stop, timedOut, crashed>>

Query(r) == At(r, "query") /\ Borrow(r, req[r].handle, "querying")

QueryDone(r) ==
    /\ At(r, "querying")
    /\ \E o \in {"answered", "failed"} : Finish(r, o)
    /\ UNCHANGED <<lockVars, poolVars, cacheVars, reg, stop, timedOut, crashed>>

\* The request's deadline passes while it waits for a connection or uses one
\* with its context.
Expire(r) ==
    /\ At(r, "describe") \/ At(r, "query") \/ At(r, "describing") \/ At(r, "querying")
    /\ Finish(r, "expired")
    /\ UNCHANGED <<lockVars, poolVars, cacheVars, reg, stop, timedOut, crashed>>

\* database/sql: the handle it is to use was closed.
HandleClosed(r) ==
    /\ \/ At(r, "describe") /\ cacheDb[req[r].alias] # 0 /\ ~Open(req[r].alias, cacheDb[req[r].alias])
       \/ At(r, "query") /\ ~Open(req[r].alias, req[r].handle)
    /\ Finish(r, "closed")
    /\ UNCHANGED <<lockVars, poolVars, cacheVars, reg, stop, timedOut, crashed>>

-----------------------------------------------------------------------------
(* Databases: every database is pinged inside one read section, without the
   request's deadline *)

\* Mutant: the section ends before the first ping.
ListBegin_Unlocks(r) ==
    /\ At(r, "list")
    /\ RUnlock(r)
    /\ req' = [req EXCEPT ![r].toPing = listed, ![r].pc = "pings"]
    /\ UNCHANGED <<poolVars, cacheVars, reg, stop, timedOut, crashed>>

ListBegin(r) ==
    /\ At(r, "list")
    /\ r \in readers
    /\ req' = [req EXCEPT ![r].toPing = listed, ![r].pc = "pings"]
    /\ UNCHANGED <<lockVars, poolVars, cacheVars, reg, stop, timedOut, crashed>>

\* The next database has no handle, or has one and a connection is free.
ListNext(r) ==
    /\ At(r, "pings")
    /\ \E a \in req[r].toPing :
          \/ /\ dbs[a] = 0
             /\ req' = [req EXCEPT ![r].toPing = @ \ {a}]
          \/ /\ dbs[a] # 0 /\ Free(a, dbs[a])
             /\ req' = [req EXCEPT ![r].alias = a, ![r].conn = dbs[a], ![r].pc = "pinging"]
    /\ UNCHANGED <<lockVars, poolVars, cacheVars, reg, stop, timedOut, crashed>>

Pinged(r) ==
    /\ At(r, "pinging")
    /\ req' = [req EXCEPT ![r].toPing = @ \ {req[r].alias},
                          ![r].report[req[r].alias] = req[r].conn,
                          ![r].alias = Nobody, ![r].conn = 0, ![r].pc = "pings"]
    /\ UNCHANGED <<lockVars, poolVars, cacheVars, reg, stop, timedOut, crashed>>

\* Mutant: the deferred RUnlock is missing.
ListEnd_NoUnlock(r) ==
    /\ At(r, "pings")
    /\ req[r].toPing = {}
    /\ Finish(r, "answered")
    /\ UNCHANGED <<lockVars, poolVars, cacheVars, reg, stop, timedOut, crashed>>

ListEnd(r) ==
    /\ At(r, "pings")
    /\ req[r].toPing = {}
    /\ readers' = readers \ {r}
    /\ Finish(r, "answered")
    /\ UNCHANGED <<waiting, announced, writer, poolVars, cacheVars, reg, stop, timedOut, crashed>>

-----------------------------------------------------------------------------
(* A registrar: Aliases, then Register under the write lock *)

RegAt(w, l) == reg[w].pc = l /\ ~crashed
RegGoto(w, l) == reg' = [reg EXCEPT ![w].pc = l]

RegStart(w) ==
    /\ RegAt(w, "idle")
    /\ RLock(w)
    /\ RegGoto(w, "aliases")
    /\ UNCHANGED <<poolVars, cacheVars, req, stop, timedOut, crashed>>

\* The alias it came for is listed, or it is not and Register is called.
RegAliases(w) ==
    /\ RegAt(w, "aliases")
    /\ RUnlock(w)
    /\ \E a \in Alias :
          reg' = [reg EXCEPT ![w] = IF a \in listed THEN [pc |-> "idle", alias |-> Nobody]
                                    ELSE [pc |-> "lock", alias |-> a]]
    /\ UNCHANGED <<poolVars, cacheVars, req, stop, timedOut, crashed>>

RegLock(w) ==
    /\ RegAt(w, "lock")
    /\ Announce(w)
    /\ RegGoto(w, "entering")
    /\ UNCHANGED <<poolVars, cacheVars, req, stop, timedOut, crashed>>

RegEnter(w) ==
    /\ RegAt(w, "entering")
    /\ Enter(w)
    /\ RegGoto(w, "inside")
    /\ UNCHANGED <<poolVars, cacheVars, req, stop, timedOut, crashed>>

\* Register, inside the lock: nothing if there is a handle or the file does
\* not open.
Register(a, opens) ==
    IF dbs[a] # 0 \/ ~opens THEN UNCHANGED poolVars
    ELSE /\ opened' = [opened EXCEPT ![a] = @ + 1]
         /\ dbs' = [dbs EXCEPT ![a] = opened'[a]]
         /\ listed' = listed \cup {a}

RegRegister(w) ==
    /\ RegAt(w, "inside")
    /\ \E opens \in BOOLEAN : Register(reg[w].alias, opens)
    /\ Unlock(w)
    /\ reg' = [reg EXCEPT ![w] = [pc |-> "idle", alias |-> Nobody]]
    /\ UNCHANGED <<cacheVars, req, stop, timedOut, crashed>>

-----------------------------------------------------------------------------
(* Program.Stop *)

\* The context is cancelled and Shutdown called.
Shutdown ==
    /\ stop = "serving" /\ ~crashed
    /\ stop' = "draining"
    /\ UNCHANGED <<lockVars, poolVars, cacheVars, req, reg, timedOut, crashed>>

\* Mutant: Shutdown is not waited for.
Drained_NoWait ==
    /\ stop = "draining" /\ ~crashed
    /\ stop' = "lock"
    /\ UNCHANGED <<lockVars, poolVars, cacheVars, req, reg, timedOut, crashed>>

\* Shutdown returns because every connection is idle.
Drained ==
    /\ stop = "draining" /\ ~crashed
    /\ \A r \in Request : req[r].pc = "idle"
    /\ stop' = "lock"
    /\ UNCHANGED <<lockVars, poolVars, cacheVars, req, reg, timedOut, crashed>>

\* Shutdown returns because its 15 seconds are over.
ShutdownTimeout ==
    /\ stop = "draining" /\ ~crashed
    /\ timedOut' = TRUE
    /\ stop' = "lock"
    /\ UNCHANGED <<lockVars, poolVars, cacheVars, req, reg, crashed>>

CloseLock ==
    /\ stop = "lock" /\ ~crashed
    /\ Announce(Stopper)
    /\ stop' = "entering"
    /\ UNCHANGED <<poolVars, cacheVars, req, reg, timedOut, crashed>>

CloseEnter ==
    /\ stop = "entering" /\ ~crashed
    /\ Enter(Stopper)
    /\ stop' = "inside"
    /\ UNCHANGED <<poolVars, cacheVars, req, reg, timedOut, crashed>>

\* Pool.Close: every handle is closed and forgotten.
Close ==
    /\ stop = "inside" /\ ~crashed
    /\ dbs' = [a \in Alias |-> 0]
    /\ Unlock(Stopper)
    /\ stop' = "closed"
    /\ UNCHANGED <<listed, opened, cacheVars, req, reg, timedOut, crashed>>

-----------------------------------------------------------------------------

\* The steps a request takes on its own.
Run(r) ==
    \/ NotFound(r) \/ Tables(r) \/ Get(r) \/ CacheFill(r)
    \/ Columns(r) \/ DescribePanic(r) \/ StoreBegin(r) \/ StoreEnd(r) \/ HandleClosed(r)
    \/ ListBegin(r) \/ ListEnd(r)

\* The steps with which the ODBC driver answers it.
Driver(r) == DescribeDone(r) \/ QueryDone(r) \/ Pinged(r)

\* The steps for which requests compete.
Compete(r) == CacheHit(r) \/ CacheMiss(r) \/ Describe(r) \/ Query(r) \/ ListNext(r)

RequestNext(r) ==
    \/ Start(r) \/ Run(r) \/ Driver(r) \/ Compete(r)
    \/ Forbidden(r) \/ Expire(r) \/ Throw(r)

RegistrarNext(w) == RegStart(w) \/ RegAliases(w) \/ RegLock(w) \/ RegEnter(w) \/ RegRegister(w)

StopNext ==
    \/ Shutdown \/ Drained \/ ShutdownTimeout
    \/ CloseLock \/ CloseEnter \/ Close

Next ==
    \/ \E r \in Request : RequestNext(r)
    \/ \E w \in Registrar : RegistrarNext(w)
    \/ StopNext

Spec == Init /\ [][Next]_vars

(***************************************************************************)
(* Fairness.  A goroutine that can run does, and the ODBC driver answers:  *)
(* WF of the steps of requests and of the driver.  Go's mutexes and        *)
(* database/sql do not pass over a waiter for ever (a mutex in starvation  *)
(* mode is handed to the first in line; a connection that is returned is   *)
(* given to a waiting request): SF of the steps that take a mutex or a     *)
(* connection.  Requests may keep arriving or stop, files need not appear, *)
(* and nobody need stop the service: no fairness of Start, RegStart and    *)
(* Shutdown.  No request need reach its deadline: none of Expire.          *)
(***************************************************************************)
GoFairness ==
    /\ \A r \in Request :
          /\ WF_vars(Run(r))
          /\ SF_vars(CacheHit(r) \/ CacheMiss(r))
          /\ SF_vars(Describe(r) \/ Query(r) \/ ListNext(r))
    /\ \A w \in Registrar :
          /\ WF_vars(RegAliases(w) \/ RegEnter(w) \/ RegRegister(w))
          /\ SF_vars(RegLock(w))
    /\ WF_vars(Drained \/ ShutdownTimeout \/ CloseEnter \/ Close)
    /\ SF_vars(CloseLock)

FairSpec == Spec /\ GoFairness /\ \A r \in Request : WF_vars(Driver(r))

-----------------------------------------------------------------------------
(* Who waits for whom *)

Place(p) == IF p \in Request THEN req[p].pc ELSE IF p \in Registrar THEN reg[p].pc ELSE stop

Working(p) == Place(p) \notin {"idle", "serving", "closed"}

\* The places inside a read section that RLock leads to.
Reading == {"get", "fill", "list", "aliases"}

\* The handle a request is about to borrow a connection from.
Wants(r) == IF req[r].pc = "describe" THEN cacheDb[req[r].alias] ELSE req[r].handle

\* Nothing keeps p from its next step: the guards of the steps at its place.
\* Shutdown at least times out, and the driver answers.
Ready(p) ==
    LET at == Place(p) IN
    /\ at \in Reading => p \in readers /\ p \notin waiting
    /\ at = "lock" => NoWriter
    /\ at = "entering" => announced = p /\ readers = {}
    /\ at = "inside" => writer = p
    /\ at = "cache" => cacheMu = Nobody
    /\ at \in {"describe", "query"} =>
          ~Open(req[p].alias, Wants(p)) \/ Free(req[p].alias, Wants(p))
    /\ at = "pings" /\ req[p].toPing # {} =>
          \E a \in req[p].toPing : dbs[a] = 0 \/ Free(a, dbs[a])

\* The goroutines one of which has to move before p can.
WaitsFor(p) ==
    LET at == Place(p) IN
    CASE p \in waiting \/ at = "lock"  -> {announced, writer} \ {Nobody}
      [] at = "entering"                -> readers
      [] at = "cache"                   -> {cacheMu} \ {Nobody}
      [] at \in {"describe", "query"}   -> Users(req[p].alias, Wants(p))
      [] at = "pings"                   -> UNION {Users(a, dbs[a]) : a \in req[p].toPing}
      [] OTHER                          -> {}

\* The order in which they wait: for cacheMu; to get into the pool's lock; for
\* its readers; for a connection.
Rank(p) ==
    LET at == Place(p) IN
    CASE at = "cache"                            -> 4
      [] p \in waiting \/ at = "lock"            -> 3
      [] at = "entering"                         -> 2
      [] at \in {"describe", "query", "pings"}   -> 1
      [] OTHER                                   -> 0

-----------------------------------------------------------------------------
(* Properties *)

\* A schema cache describes the database it is used for: until the pool is
\* closed, its handle is the one the pool holds, although cache asks the pool
\* again after QueryTable did, ignores the error and keeps the answer for ever
\* (store.go:78-80), while the watcher registers databases.
CacheFresh ==
    stop # "closed" => \A a \in cached : cacheDb[a] = dbs[a] /\ cacheDb[a] # 0

\* What a listing has found so far still holds while it goes on: no database it
\* has passed appears or loses its handle before it is done, however long the
\* pings take (pool.go:103-127 pings inside the read section).
ListingCurrent ==
    \A r \in Request : req[r].pc \in {"pings", "pinging"} =>
        \A a \in Alias \ req[r].toPing : req[r].report[a] = dbs[a]

\* A stop that did not time out disturbs no request: none meets a closed handle
\* or a cache without one (service.go:67-75 waits for the requests before it
\* closes the pool; the pool itself would let them run into it).
CleanStop == ~timedOut => \A r \in Request : req[r].outcome \notin {"closed", "panic"}

\* No goroutines wait for each other: whoever cannot move waits for goroutines
\* that are under way and come earlier in one order of all waits, whichever of
\* cacheMu, the pool's lock and the connections of a handle they hold (store.go:73
\* takes the pool's lock under cacheMu, pool.go:103-115 waits for connections
\* inside it, and pool.go:153 keeps new readers out while it waits).
WaitsOrdered ==
    \A p \in Proc : Working(p) =>
        \/ Ready(p)
        \/ /\ WaitsFor(p) # {}
           /\ \A q \in WaitsFor(p) : Working(q) /\ Rank(q) < Rank(p)

\* Every request that arrives ends, in the face of registrations and of the
\* shutdown: the nesting of cacheMu and the pool's lock, pings inside the read
\* section and writers that stop new readers never block for ever.
Answered == \A r \in Request : req[r].pc # "idle" ~> req[r].pc = "idle" \/ crashed

\* Requests that keep coming do not keep out a registration or the closing of
\* the pool.
WritersEnter ==
    /\ \A w \in Registrar : reg[w].pc = "lock" ~> reg[w].pc = "inside" \/ crashed
    /\ stop = "lock" ~> stop = "closed" \/ crashed

\* middleware.go:243: a failure in a handler becomes a 500 response; it does not
\* end the process.
NoThrow == ~crashed
=============================================================================
