--------------------------- MODULE RequestsProofs ---------------------------
(***************************************************************************)
(* Proofs about Requests.tla.                                              *)
(*                                                                         *)
(* A handle in dbs changes from nil to an open one once, until Close: what *)
(* a request took from the pool, and what a cache keeps of it, therefore   *)
(* agree.  A listing needs more: it holds the read lock, so that nothing   *)
(* changes at all.  And a request that meets a closed handle started       *)
(* before a Close that did not wait for it.                                *)
(***************************************************************************)
EXTENDS Requests, FiniteSetTheorems, TLAPS

\* Past Get, with a handle; and past cache.
Holding == {"cache", "fill", "columns", "describe", "describing", "store", "storing",
            "query", "querying"}
Caching == {"columns", "describe", "describing", "store", "storing"}

\* What is known of request q of goroutine r.
Named(q) == q.pc \notin {"idle", "list", "pings"} => q.alias \in Alias

Held(q) ==
    /\ q.pc \in Holding /\ stop # "closed" => q.handle = dbs[q.alias] /\ q.handle # 0
    /\ q.pc \in Caching => q.alias \in cached

Listing(r, q) ==
    /\ q.pc = "list" => \A a \in Alias : q.report[a] = 0
    /\ q.pc \in {"pings", "pinging"} =>
          /\ r \in readers
          /\ \A a \in Alias : q.report[a] = IF a \in q.toPing THEN 0 ELSE dbs[a]
    /\ q.pc = "pinging" => q.conn = dbs[q.alias]

Waited(q) ==
    ~timedOut => /\ q.outcome \notin {"closed", "panic"}
                 /\ stop \notin {"serving", "draining"} => q.pc = "idle"

Local(r, q) == Named(q) /\ Held(q) /\ Listing(r, q) /\ Waited(q)

\* A writer is alone, and the goroutines that write are the writer.
LockInv ==
    /\ writer # Nobody => readers = {} /\ announced = Nobody
    /\ \A w \in Registrar : /\ reg[w].pc = "inside" => writer = w
                            /\ reg[w].pc \in {"lock", "entering", "inside"} => reg[w].alias \in Alias
    /\ stop = "inside" => writer = Stopper

\* A handle is nil, or the first of its alias until Close.
Handles ==
    \A a \in Alias :
        /\ dbs[a] # 0 => a \in listed /\ dbs[a] = opened[a]
        /\ dbs[a] = 0 => opened[a] \in 0..1
        /\ stop # "closed" => opened[a] \in 0..1
        /\ dbs[a] = 0 /\ stop # "closed" => opened[a] = 0

IInv ==
    /\ TypeOK /\ LockInv /\ Handles /\ CacheFresh
    /\ \A r \in Request : Local(r, req[r])

-----------------------------------------------------------------------------
(* The record of a request *)

\* An ended request is a request at rest.
LEMMA EndedState ==
    ASSUME NEW o \in {"none", "answered", "notFound", "failed", "expired", "closed", "panic"}
    PROVE  /\ Ended(o) \in ReqState
           /\ Ended(o).pc = "idle" /\ Ended(o).outcome = o
           /\ \A a \in Alias : Ended(o).report[a] = 0
<1>1. "idle" \in ReqPc /\ "list" \in Op /\ 0 \in Handle
    BY DEF ReqPc, Op, Handle
<1>2. [a \in Alias |-> 0] \in [Alias -> Handle]
    BY <1>1
<1> QED BY <1>1, <1>2 DEF Ended, ReqState

-----------------------------------------------------------------------------
(* Steps of a request *)

Leaves(p) == readers' = readers \ {p} /\ UNCHANGED <<waiting, announced, writer>>

\* The lock stays what it is for everybody else.
LEMMA LockSteps ==
    ASSUME LockTypeOK, LockInv, NEW p \in Proc, RLock(p) \/ Leaves(p) \/ UNCHANGED lockVars
    PROVE  /\ LockTypeOK'
           /\ readers \ {p} \subseteq readers'
           /\ writer' = writer /\ announced' = announced
           /\ writer' # Nobody => readers' = {}
BY DEF LockTypeOK, LockInv, RLock, Leaves, lockVars, NoWriter

\* A step of one request preserves the invariant if its new record is as the
\* invariant wants it and the caches are.
LEMMA RequestStep ==
    ASSUME IInv, NEW r \in Request, NEW new \in ReqState, req' = [req EXCEPT ![r] = new],
           UNCHANGED <<poolVars, reg, stop, timedOut>>, crashed' \in BOOLEAN,
           LockTypeOK', readers \ {r} \subseteq readers', UNCHANGED <<announced, writer>>,
           writer' # Nobody => readers' = {},
           cacheMu' \in Request \cup {Nobody}, cached' \in SUBSET Alias,
           cacheDb' \in [Alias -> Handle], known' \in SUBSET cached',
           cached \subseteq cached', CacheFresh', Local(r, new)'
    PROVE  IInv'
<1> USE DEF poolVars
<1>1. /\ req' \in [Request -> ReqState]
      /\ req'[r] = new
      /\ \A q \in Request : q # r => req'[q] = req[q]
    BY DEF IInv, TypeOK
<1>2. TypeOK'
    BY <1>1 DEF IInv, TypeOK
<1>3. LockInv' /\ Handles'
    BY DEF IInv, LockInv, Handles
<1>4. \A q \in Request : Local(q, req[q])
    BY DEF IInv
<1>5. ASSUME NEW q \in Request PROVE Local(q, req[q])' \/ q = r
    <2>1. SUFFICES ASSUME q # r PROVE Local(q, req[q])'
        OBVIOUS
    <2>2. req'[q] = req[q] /\ Local(q, req[q])
        BY <1>1, <1>4, <2>1
    <2>3. Named(req[q])' /\ Held(req[q])' /\ Waited(req[q])'
        BY <2>2 DEF Local, Named, Held, Waited
    <2>4. Listing(q, req[q])'
        BY <2>1, <2>2 DEF Local, Listing
    <2> QED BY <2>3, <2>4 DEF Local
<1>6. Local(r, req[r])'
    <2>1. req'[r] = new
        BY <1>1
    <2>2. Named(req[r])' /\ Held(req[r])' /\ Waited(req[r])' /\ Listing(r, req[r])'
        BY <2>1 DEF Local, Named, Held, Waited, Listing
    <2> QED BY <2>2 DEF Local
<1> QED BY <1>2, <1>3, <1>5, <1>6 DEF IInv

\* One that touches neither the caches nor, for others, the lock.
LEMMA PlainStep ==
    ASSUME IInv, NEW r \in Request, NEW new \in ReqState, req' = [req EXCEPT ![r] = new],
           RLock(r) \/ Leaves(r) \/ UNCHANGED lockVars,
           UNCHANGED <<poolVars, cacheVars, reg, stop, timedOut, crashed>>,
           Local(r, new)'
    PROVE  IInv'
<1>1. r \in Proc
    BY RequestsAssumption
<1>2. /\ LockTypeOK' /\ readers \ {r} \subseteq readers' /\ UNCHANGED <<announced, writer>>
      /\ writer' # Nobody => readers' = {}
    BY <1>1, LockSteps DEF IInv, TypeOK
<1>3. /\ crashed' \in BOOLEAN /\ cacheMu' \in Request \cup {Nobody} /\ cached' \in SUBSET Alias
      /\ cacheDb' \in [Alias -> Handle] /\ known' \in SUBSET cached' /\ cached \subseteq cached'
      /\ UNCHANGED <<poolVars, reg, stop, timedOut>>
    BY DEF IInv, TypeOK, cacheVars
<1>4. CacheFresh'
    BY DEF IInv, CacheFresh, cacheVars, poolVars
<1> QED BY <1>2, <1>3, <1>4, RequestStep

\* A request that ends leaves nothing to say, if it did not meet a closed handle.
LEMMA FinishStep ==
    ASSUME IInv, NEW r \in Request,
           NEW o \in {"none", "answered", "notFound", "failed", "expired", "closed", "panic"},
           Finish(r, o), o \in {"closed", "panic"} => timedOut,
           Leaves(r) \/ UNCHANGED lockVars,
           UNCHANGED <<poolVars, cacheVars, reg, stop, timedOut, crashed>>
    PROVE  IInv'
<1> DEFINE new == Ended(o)
<1>1. new \in ReqState /\ new.pc = "idle" /\ new.outcome = o
    BY EndedState
<1>2. req' = [req EXCEPT ![r] = new]
    BY DEF Finish
<1> HIDE DEF new
<1>3. Local(r, new)'
    BY <1>1 DEF Local, Named, Held, Holding, Caching, Listing, Waited
<1> QED BY <1>1, <1>2, <1>3, PlainStep

\* The record of r before the step.
LEMMA Before ==
    ASSUME IInv, NEW r \in Request
    PROVE  req[r] \in ReqState /\ Local(r, req[r]) /\ req \in [Request -> ReqState]
BY DEF IInv, TypeOK

\* A request that has a handle goes on with it.
LEMMA MoveStep ==
    ASSUME IInv, NEW r \in Request, NEW pc \in Holding, NEW conn \in Handle,
           req[r].pc \in Holding,
           pc \in Caching => req[r].alias \in cached,
           req' = [req EXCEPT ![r].pc = pc, ![r].conn = conn],
           UNCHANGED <<lockVars, poolVars, cacheVars, reg, stop, timedOut, crashed>>
    PROVE  IInv'
<1>1. PICK q \in ReqState : q = req[r] /\ Local(r, q)
    BY Before
<1>2. pc \in ReqPc /\ q.handle \in Handle
    BY <1>1 DEF Holding, ReqPc, ReqState
<1>3. PICK new : new = [q EXCEPT !.pc = pc, !.conn = conn, !.handle = q.handle]
    OBVIOUS
<1>4. req' = [req EXCEPT ![r] = new]
    <2>1. new = [q EXCEPT !.pc = pc, !.conn = conn]
        BY <1>1, <1>3 DEF ReqState
    <2>2. req' = [req EXCEPT ![r] = [q EXCEPT !.pc = pc, !.conn = conn]]
        BY <1>1, Before
    <2> QED BY <2>1, <2>2
<1>5. /\ new \in ReqState /\ new.pc = pc /\ new.handle = q.handle
      /\ new.alias = q.alias /\ new.outcome = q.outcome
    <2>1. q \in ReqState /\ pc \in ReqPc /\ conn \in Handle /\ q.handle \in Handle
        BY <1>1, <1>2
    <2> QED BY <1>3, <2>1 DEF ReqState
<1>6. q.pc \in Holding /\ (pc \in Caching => q.alias \in cached)
    BY <1>1
<1>7. Local(r, new)
    BY <1>1, <1>5, <1>6 DEF Local, Named, Held, Listing, Waited, Holding, Caching
<1>8. Local(r, new)'
    BY <1>7 DEF Local, Named, Held, Listing, Waited, lockVars, poolVars, cacheVars
<1> QED BY <1>4, <1>5, <1>8, PlainStep

\* No request meets a closed handle, unless Close did not wait for it.
LEMMA Usable ==
    ASSUME IInv, NEW r \in Request, ~timedOut, req[r].pc \in Holding
    PROVE  /\ stop \in {"serving", "draining"}
           /\ req[r].alias \in Alias /\ req[r].handle = dbs[req[r].alias] /\ req[r].handle # 0
           /\ req[r].pc \in Caching =>
                cacheDb[req[r].alias] = dbs[req[r].alias] /\ cacheDb[req[r].alias] # 0
<1>1. Local(r, req[r]) /\ req[r].pc # "idle"
    BY Before DEF Holding
<1>2. stop \in {"serving", "draining"}
    BY <1>1 DEF Local, Waited
<1>3. req[r].alias \in Alias /\ req[r].handle = dbs[req[r].alias] /\ req[r].handle # 0
    BY <1>1, <1>2 DEF Local, Named, Held, Holding
<1>4. req[r].pc \in Caching => req[r].alias \in cached
    BY <1>1 DEF Local, Held
<1> QED BY <1>2, <1>3, <1>4 DEF IInv, CacheFresh

\* The steps that end a request.
LEMMA EndInv ==
    ASSUME IInv, NEW r \in Request,
           \/ NotFound(r) \/ Tables(r) \/ DescribePanic(r) \/ Forbidden(r) \/ QueryDone(r)
           \/ Expire(r) \/ HandleClosed(r) \/ ListEnd(r)
    PROVE  IInv'
<1>1. CASE NotFound(r) \/ Tables(r)
    <2>1. PICK o \in {"answered", "notFound", "failed", "expired"} : Finish(r, o)
        BY <1>1 DEF NotFound, Tables
    <2>2. Leaves(r) /\ UNCHANGED <<poolVars, cacheVars, reg, stop, timedOut, crashed>>
        BY <1>1 DEF NotFound, Tables, RUnlock, Leaves
    <2> QED BY <2>1, <2>2, FinishStep
<1>2. CASE Forbidden(r) \/ QueryDone(r) \/ Expire(r)
    <2>1. PICK o \in {"answered", "failed", "expired"} : Finish(r, o)
        BY <1>2 DEF Forbidden, QueryDone, Expire
    <2>2. UNCHANGED <<lockVars, poolVars, cacheVars, reg, stop, timedOut, crashed>>
        BY <1>2 DEF Forbidden, QueryDone, Expire
    <2> QED BY <2>1, <2>2, FinishStep
<1>3. CASE DescribePanic(r) \/ HandleClosed(r)
    <2>1. PICK o \in {"closed", "panic"} : Finish(r, o)
        BY <1>3 DEF DescribePanic, HandleClosed
    <2>2. UNCHANGED <<lockVars, poolVars, cacheVars, reg, stop, timedOut, crashed>>
        BY <1>3 DEF DescribePanic, HandleClosed
    <2>3. timedOut
        <3>1. req[r].pc \in {"describe", "query"} /\ req[r].pc \in Holding
            BY <1>3 DEF DescribePanic, HandleClosed, At, Holding
        <3>2. req[r].pc = "describe" => req[r].pc \in Caching
            BY DEF Caching
        <3> QED BY <1>3, <3>1, <3>2, Usable DEF DescribePanic, HandleClosed, At, Open
    <2> QED BY <2>1, <2>2, <2>3, FinishStep
<1>4. CASE ListEnd(r)
    <2>1. Finish(r, "answered") /\ Leaves(r)
          /\ UNCHANGED <<poolVars, cacheVars, reg, stop, timedOut, crashed>>
        BY <1>4 DEF ListEnd, Leaves
    <2> QED BY <2>1, FinishStep
<1> QED BY <1>1, <1>2, <1>3, <1>4

\* The steps of a request that has a handle, but CacheMiss, CacheFill and StoreEnd.
LEMMA MoveInv ==
    ASSUME IInv, NEW r \in Request,
           \/ CacheHit(r) \/ Columns(r) \/ Describe(r) \/ DescribeDone(r) \/ StoreBegin(r)
           \/ Query(r)
    PROVE  IInv'
<1>1. PICK q \in ReqState : q = req[r] /\ Local(r, q) /\ q.conn \in Handle
    BY Before DEF ReqState
<1>2. ASSUME NEW pc \in Holding, Goto(r, pc), q.pc \in Holding, pc \in Caching => q.alias \in cached,
             UNCHANGED <<lockVars, poolVars, cacheVars, reg, stop, timedOut, crashed>>
      PROVE  IInv'
    <2>1. req' = [req EXCEPT ![r].pc = pc, ![r].conn = q.conn]
        BY <1>1, <1>2, Before DEF Goto, ReqState
    <2> QED BY <1>1, <1>2, <2>1, MoveStep
<1>3. q.pc \in Caching => q.alias \in cached
    BY <1>1 DEF Local, Held
<1>4. ASSUME NEW o \in {"answered", "failed"}, Finish(r, o),
             UNCHANGED <<lockVars, poolVars, cacheVars, reg, stop, timedOut, crashed>>
      PROVE  IInv'
    BY <1>4, FinishStep
<1>5. CASE CacheHit(r)
    <2>1. PICK pc \in {"columns", "query"} : Goto(r, pc)
        BY <1>5 DEF CacheHit, AfterCache
    <2> QED BY <1>1, <1>2, <1>5, <2>1 DEF CacheHit, At, Holding, Caching
<1>6. CASE Columns(r)
    <2>1. (\E pc \in {"query", "describe"} : Goto(r, pc)) \/ Finish(r, "failed")
        BY <1>6 DEF Columns, Validate
    <2> QED BY <1>1, <1>2, <1>3, <1>4, <1>6, <2>1 DEF Columns, At, Holding, Caching
<1>7. CASE Describe(r) \/ Query(r)
    <2>1. PICK pc \in {"describing", "querying"}, conn \in Handle :
            /\ req' = [req EXCEPT ![r].pc = pc, ![r].conn = conn]
            /\ pc = "describing" => q.pc = "describe"
        <3>1. CASE Describe(r)
            <4>1. cacheDb[q.alias] \in Handle
                BY <1>1, <3>1 DEF IInv, TypeOK, Local, Named, Describe, At
            <4>2. req' = [req EXCEPT ![r].pc = "describing", ![r].conn = cacheDb[q.alias]]
                BY <1>1, <3>1, Before DEF Describe, Borrow, ReqState
            <4> QED BY <1>1, <3>1, <4>1, <4>2 DEF Describe, At
        <3>2. CASE Query(r)
            <4>1. q.handle \in Handle
                BY <1>1 DEF ReqState
            <4>2. req' = [req EXCEPT ![r].pc = "querying", ![r].conn = q.handle]
                BY <1>1, <3>2, Before DEF Query, Borrow, ReqState
            <4> QED BY <4>1, <4>2
        <3> QED BY <1>7, <3>1, <3>2
    <2>2. UNCHANGED <<lockVars, poolVars, cacheVars, reg, stop, timedOut, crashed>>
        BY <1>7 DEF Describe, Query, Borrow
    <2>3. q.pc \in Holding /\ (pc \in Caching => q.alias \in cached) /\ pc \in Holding
        BY <1>1, <1>3, <1>7, <2>1 DEF Describe, Query, At, Holding, Caching
    <2> QED BY <1>1, <2>1, <2>2, <2>3, MoveStep
<1>8. CASE DescribeDone(r)
    <2>1. UNCHANGED <<lockVars, poolVars, cacheVars, reg, stop, timedOut, crashed>>
        BY <1>8 DEF DescribeDone
    <2>2. q.pc \in Holding /\ q.alias \in cached /\ "store" \in Holding /\ 0 \in Handle
        BY <1>1, <1>3, <1>8 DEF DescribeDone, At, Holding, Caching, Handle
    <2>3. \/ req' = [req EXCEPT ![r].pc = "store", ![r].conn = 0]
          \/ Finish(r, "failed")
        BY <1>8 DEF DescribeDone
    <2> QED BY <1>1, <1>4, <2>1, <2>2, <2>3, MoveStep
<1>9. CASE StoreBegin(r)
    BY <1>1, <1>2, <1>3, <1>9 DEF StoreBegin, At, Holding, Caching
<1> QED BY <1>5, <1>6, <1>7, <1>8, <1>9

\* A request arrives.
LEMMA StartInv ==
    ASSUME IInv, NEW r \in Request, Start(r)
    PROVE  IInv'
<1>1. PICK op \in Op, alias \in Alias \cup {Nobody}, pc \in {"list", "get"} :
        /\ req' = [req EXCEPT ![r] = [Ended("none") EXCEPT !.pc = pc, !.op = op, !.alias = alias]]
        /\ pc = "get" => alias \in Alias
    <2>1. PICK o \in Op, a \in Alias :
            req' = [req EXCEPT ![r] = [Ended("none") EXCEPT
                      !.pc = IF o = "list" THEN "list" ELSE "get", !.op = o,
                      !.alias = IF o = "list" THEN Nobody ELSE a]]
        BY DEF Start
    <2>2. CASE o = "list"
        BY <2>1, <2>2
    <2>3. CASE o # "list"
        BY <2>1, <2>3
    <2> QED BY <2>2, <2>3
<1>2. PICK new : new = [Ended("none") EXCEPT !.pc = pc, !.op = op, !.alias = alias]
    OBVIOUS
<1>3. pc \in ReqPc
    BY DEF ReqPc
<1>4. /\ new \in ReqState
      /\ new.pc = pc /\ new.alias = alias /\ new.outcome = "none"
      /\ \A a \in Alias : new.report[a] = 0
    <2>1. PICK q \in ReqState : /\ q = Ended("none") /\ q.outcome = "none"
                                /\ \A a \in Alias : q.report[a] = 0
        BY EndedState
    <2>2. new = [q EXCEPT !.pc = pc, !.op = op, !.alias = alias]
        BY <1>2, <2>1
    <2>3. new \in ReqState /\ new.pc = pc /\ new.alias = alias
        BY <1>3, <2>2 DEF ReqState
    <2>4. new.outcome = q.outcome /\ new.report = q.report
        BY <2>2 DEF ReqState
    <2> QED BY <2>1, <2>3, <2>4
<1>5. Accepting /\ RLock(r) /\ UNCHANGED <<poolVars, cacheVars, reg, stop, timedOut, crashed>>
    BY DEF Start
<1>6. Local(r, new)'
    BY <1>1, <1>4, <1>5 DEF Local, Named, Held, Listing, Waited, Holding, Caching, Accepting
<1> QED BY <1>1, <1>2, <1>4, <1>5, <1>6, PlainStep

\* Get returns the handle.
LEMMA GetInv ==
    ASSUME IInv, NEW r \in Request, Get(r)
    PROVE  IInv'
<1>1. PICK q \in ReqState : q = req[r] /\ Local(r, q)
    BY Before
<1>2. q.pc = "get" /\ q.alias \in Alias /\ dbs[q.alias] # 0 /\ dbs[q.alias] \in Handle
    BY <1>1 DEF Get, At, Local, Named, IInv, TypeOK
<1>3. PICK pc \in {"query", "cache"} :
        req' = [req EXCEPT ![r].handle = dbs[q.alias], ![r].pc = pc]
    BY <1>1 DEF Get
<1>4. PICK new : new = [q EXCEPT !.handle = dbs[q.alias], !.pc = pc]
    OBVIOUS
<1>5. req' = [req EXCEPT ![r] = new]
    BY <1>1, <1>3, <1>4, Before
<1>6. /\ new \in ReqState /\ new.pc = pc /\ new.handle = dbs[q.alias]
      /\ new.alias = q.alias /\ new.outcome = q.outcome
    <2>1. pc \in ReqPc
        BY DEF ReqPc
    <2> QED BY <1>2, <1>4, <2>1 DEF ReqState
<1>7. Leaves(r) /\ UNCHANGED <<poolVars, cacheVars, reg, stop, timedOut, crashed>>
    BY DEF Get, RUnlock, Leaves
<1>8. Local(r, new)'
    BY <1>1, <1>2, <1>6, <1>7
    DEF Local, Named, Held, Listing, Waited, Holding, Caching, poolVars
<1> QED BY <1>5, <1>6, <1>7, <1>8, PlainStep

\* The steps on the caches.
LEMMA CacheInv ==
    ASSUME IInv, NEW r \in Request, CacheMiss(r) \/ CacheFill(r) \/ StoreEnd(r)
    PROVE  IInv'
<1>1. PICK q \in ReqState : q = req[r] /\ Local(r, q)
    BY Before
<1>2. q.pc \in {"cache", "fill", "storing"} /\ q.alias \in Alias
    BY <1>1 DEF CacheMiss, CacheFill, StoreEnd, At, Local, Named
<1>3. PICK new : /\ req' = [req EXCEPT ![r] = new]
                 /\ \/ \E pc \in {"fill", "columns", "query"} : new = [q EXCEPT !.pc = pc]
                    \/ new = Ended("failed")
                 /\ CacheMiss(r) => new.pc = "fill"
                 /\ StoreEnd(r) => new.pc \in {"query", "idle"}
    <2>1. CASE CacheMiss(r)
        <3>1. req' = [req EXCEPT ![r] = [q EXCEPT !.pc = "fill"]] /\ ~StoreEnd(r)
            BY <1>1, <2>1, Before DEF CacheMiss, Goto, StoreEnd, At
        <3>2. [q EXCEPT !.pc = "fill"].pc = "fill"
            BY DEF ReqState
        <3> QED BY <3>1, <3>2
    <2>2. CASE CacheFill(r)
        <3>1. PICK pc \in {"columns", "query"} : Goto(r, pc)
            BY <2>2 DEF CacheFill, AfterCache
        <3>2. req' = [req EXCEPT ![r] = [q EXCEPT !.pc = pc]] /\ ~StoreEnd(r) /\ ~CacheMiss(r)
            BY <1>1, <2>2, <3>1, Before DEF CacheFill, CacheMiss, Goto, StoreEnd, At
        <3> QED BY <3>2
    <2>3. CASE StoreEnd(r)
        <3>0. ~CacheMiss(r)
            BY <2>3 DEF CacheMiss, StoreEnd, At
        <3>1. CASE Goto(r, "query")
            <4>1. req' = [req EXCEPT ![r] = [q EXCEPT !.pc = "query"]]
                BY <1>1, <3>1, Before DEF Goto
            <4>2. [q EXCEPT !.pc = "query"].pc = "query"
                BY DEF ReqState
            <4> QED BY <3>0, <4>1, <4>2
        <3>2. CASE Finish(r, "failed")
            <4>1. req' = [req EXCEPT ![r] = Ended("failed")] /\ Ended("failed").pc = "idle"
                BY <3>2, EndedState DEF Finish
            <4> QED BY <3>0, <4>1
        <3> QED BY <2>3, <3>1, <3>2 DEF StoreEnd, Validate
    <2> QED BY <2>1, <2>2, <2>3
<1>4. /\ new \in ReqState
      /\ \/ /\ new.pc \in {"fill", "columns", "query"}
            /\ new.alias = q.alias /\ new.handle = q.handle /\ new.outcome = q.outcome
         \/ new.pc = "idle" /\ new.outcome = "failed"
    <2>1. {"fill", "columns", "query"} \subseteq ReqPc
        BY DEF ReqPc
    <2>2. ASSUME NEW pc \in {"fill", "columns", "query"}, new = [q EXCEPT !.pc = pc]
          PROVE  /\ new \in ReqState /\ new.pc = pc
                 /\ new.alias = q.alias /\ new.handle = q.handle /\ new.outcome = q.outcome
        BY <2>1, <2>2 DEF ReqState
    <2> QED BY <1>3, <2>2, EndedState
<1>5. UNCHANGED <<poolVars, reg, stop, timedOut>> /\ crashed' \in BOOLEAN
    BY DEF CacheMiss, CacheFill, StoreEnd, IInv, TypeOK
<1>6. /\ LockTypeOK' /\ readers \ {r} \subseteq readers' /\ UNCHANGED <<announced, writer>>
      /\ writer' # Nobody => readers' = {}
    <2>1. RLock(r) \/ Leaves(r) \/ UNCHANGED lockVars
        BY DEF CacheMiss, CacheFill, StoreEnd, RUnlock, Leaves
    <2> QED BY <2>1, LockSteps, RequestsAssumption DEF IInv, TypeOK
<1>7. /\ cached \subseteq cached' /\ cached' \in SUBSET Alias
      /\ cacheMu' \in Request \cup {Nobody} /\ cacheDb' \in [Alias -> Handle]
      /\ known' \in SUBSET cached'
      /\ new.pc = "columns" => q.alias \in cached'
    <2>0. cached \in SUBSET Alias /\ cacheDb \in [Alias -> Handle] /\ known \in SUBSET cached
        BY DEF IInv, TypeOK
    <2>1. CASE CacheMiss(r)
        <3>1. new.pc = "fill"
            BY <1>3, <2>1
        <3> QED BY <2>0, <2>1, <3>1 DEF CacheMiss
    <2>2. CASE CacheFill(r)
        <3>1. cacheDb' = [cacheDb EXCEPT ![q.alias] = dbs[q.alias]] /\ dbs[q.alias] \in Handle
            BY <1>1, <1>2, <2>2 DEF CacheFill, IInv, TypeOK
        <3>2. cached' = cached \cup {q.alias} /\ known' = known /\ cacheMu' = Nobody
            BY <1>1, <2>2 DEF CacheFill
        <3> QED BY <1>2, <2>0, <3>1, <3>2
    <2>3. CASE StoreEnd(r)
        <3>1. q.alias \in cached
            BY <1>1, <2>3 DEF StoreEnd, At, Local, Held, Caching
        <3> QED BY <1>1, <1>3, <2>3, <3>1 DEF StoreEnd, IInv, TypeOK
    <2> QED BY <2>1, <2>2, <2>3
<1>8. CacheFresh'
    <2>1. CASE CacheFill(r)
        <3>1. stop # "closed" => dbs[q.alias] # 0
            BY <1>1, <2>1 DEF CacheFill, At, Local, Held, Holding
        <3>2. cached' = cached \cup {q.alias} /\ cacheDb' = [cacheDb EXCEPT ![q.alias] = dbs[q.alias]]
            BY <1>1, <2>1 DEF CacheFill
        <3>3. cached \subseteq Alias /\ cacheDb \in [Alias -> Handle]
            BY DEF IInv, TypeOK
        <3> QED BY <1>2, <1>5, <3>1, <3>2, <3>3 DEF IInv, CacheFresh, poolVars
    <2>2. CASE CacheMiss(r) \/ StoreEnd(r)
        BY <1>5, <2>2 DEF CacheMiss, StoreEnd, IInv, CacheFresh, poolVars
    <2> QED BY <2>1, <2>2
<1>9. Local(r, new)'
    BY <1>1, <1>2, <1>4, <1>5, <1>7
    DEF Local, Named, Held, Listing, Waited, Holding, Caching, poolVars
<1> QED BY <1>3, <1>4, <1>5, <1>6, <1>7, <1>8, <1>9, RequestStep

\* The steps of a listing but its end.
LEMMA ListInv ==
    ASSUME IInv, NEW r \in Request, ListBegin(r) \/ ListNext(r) \/ Pinged(r)
    PROVE  IInv'
<1>1. PICK q \in ReqState : q = req[r] /\ Local(r, q)
    BY Before
<1>2. UNCHANGED <<lockVars, poolVars, cacheVars, reg, stop, timedOut, crashed>>
    BY DEF ListBegin, ListNext, Pinged
<1>3. /\ dbs \in [Alias -> Handle] /\ listed \in SUBSET Alias
      /\ q.report \in [Alias -> Handle] /\ q.toPing \in SUBSET Alias
      /\ {"pings", "pinging"} \subseteq ReqPc /\ 0 \in Handle
    BY DEF IInv, TypeOK, ReqState, ReqPc, Handle
<1>4. CASE ListBegin(r)
    <2>1. q.pc = "list" /\ r \in readers
        BY <1>1, <1>4 DEF ListBegin, At
    <2>2. PICK new : new = [q EXCEPT !.toPing = listed, !.pc = "pings"]
        OBVIOUS
    <2>3. req' = [req EXCEPT ![r] = new]
        BY <1>1, <1>4, <2>2, Before DEF ListBegin
    <2>4. /\ new \in ReqState /\ new.pc = "pings" /\ new.toPing = listed
          /\ new.report = q.report /\ new.outcome = q.outcome
        BY <1>3, <2>2 DEF ReqState
    <2>5. \A a \in Alias : new.report[a] = 0
        BY <1>1, <2>1, <2>4 DEF Local, Listing
    <2>6. \A a \in Alias : a \notin listed => dbs[a] = 0
        BY DEF IInv, Handles
    <2>7. Local(r, new)
        BY <1>1, <2>1, <2>4, <2>5, <2>6
        DEF Local, Named, Held, Listing, Waited, Holding, Caching
    <2>8. Local(r, new)'
        BY <1>2, <2>7 DEF Local, Named, Held, Listing, Waited, lockVars, poolVars, cacheVars
    <2> QED BY <1>2, <2>3, <2>4, <2>8, PlainStep
<1>5. CASE ListNext(r)
    <2>1. q.pc = "pings" /\ r \in readers
          /\ \A a \in Alias : q.report[a] = IF a \in q.toPing THEN 0 ELSE dbs[a]
        BY <1>1, <1>5 DEF ListNext, At, Local, Listing
    <2>2. PICK a \in Alias :
            /\ a \in q.toPing
            /\ \/ dbs[a] = 0 /\ req' = [req EXCEPT ![r].toPing = @ \ {a}]
               \/ req' = [req EXCEPT ![r].alias = a, ![r].conn = dbs[a], ![r].pc = "pinging"]
        BY <1>1, <1>3, <1>5 DEF ListNext
    <2>3. CASE dbs[a] = 0 /\ req' = [req EXCEPT ![r].toPing = @ \ {a}]
        <3>1. PICK new : new = [q EXCEPT !.toPing = q.toPing \ {a}]
            OBVIOUS
        <3>2. req' = [req EXCEPT ![r] = new]
            BY <1>1, <2>3, <3>1, Before
        <3>3. /\ new \in ReqState /\ new.pc = "pings" /\ new.toPing = q.toPing \ {a}
              /\ new.report = q.report /\ new.outcome = q.outcome
            BY <1>3, <2>1, <3>1 DEF ReqState
        <3>4. \A b \in Alias : new.report[b] = IF b \in new.toPing THEN 0 ELSE dbs[b]
            BY <2>1, <2>2, <2>3, <3>3
        <3>5. Local(r, new)
            BY <1>1, <2>1, <3>3, <3>4 DEF Local, Named, Held, Listing, Waited, Holding, Caching
        <3>6. Local(r, new)'
            BY <1>2, <3>5 DEF Local, Named, Held, Listing, Waited, lockVars, poolVars, cacheVars
        <3> QED BY <1>2, <3>2, <3>3, <3>6, PlainStep
    <2>4. CASE req' = [req EXCEPT ![r].alias = a, ![r].conn = dbs[a], ![r].pc = "pinging"]
        <3>1. PICK new : new = [q EXCEPT !.alias = a, !.conn = dbs[a], !.pc = "pinging"]
            OBVIOUS
        <3>2. req' = [req EXCEPT ![r] = new]
            BY <1>1, <2>4, <3>1, Before
        <3>3. /\ new \in ReqState /\ new.pc = "pinging" /\ new.toPing = q.toPing
              /\ new.report = q.report /\ new.outcome = q.outcome
              /\ new.alias = a /\ new.conn = dbs[a]
            BY <1>3, <3>1 DEF ReqState
        <3>4. Local(r, new)
            BY <1>1, <2>1, <3>3 DEF Local, Named, Held, Listing, Waited, Holding, Caching
        <3>5. Local(r, new)'
            BY <1>2, <3>4 DEF Local, Named, Held, Listing, Waited, lockVars, poolVars, cacheVars
        <3> QED BY <1>2, <3>2, <3>3, <3>5, PlainStep
    <2> QED BY <2>2, <2>3, <2>4
<1>6. CASE Pinged(r)
    <2>1. /\ q.pc = "pinging" /\ r \in readers /\ q.alias \in Alias /\ q.conn = dbs[q.alias]
          /\ \A a \in Alias : q.report[a] = IF a \in q.toPing THEN 0 ELSE dbs[a]
        BY <1>1, <1>6 DEF Pinged, At, Local, Listing, Named
    <2>2. PICK report \in [Alias -> Handle] : report = [q.report EXCEPT ![q.alias] = q.conn]
        BY <1>3, <2>1
    <2>3. PICK new : new = [q EXCEPT !.toPing = q.toPing \ {q.alias}, !.report = report,
                                     !.alias = Nobody, !.conn = 0, !.pc = "pings"]
        OBVIOUS
    <2>4. req' = [req EXCEPT ![r] = new]
        <3>1. req' = [req EXCEPT ![r] =
                        [q EXCEPT !.toPing = q.toPing \ {q.alias},
                                  !.report = [q.report EXCEPT ![q.alias] = q.conn],
                                  !.alias = Nobody, !.conn = 0, !.pc = "pings"]]
            BY <1>1, <1>6, Before DEF Pinged, ReqState
        <3> QED BY <2>2, <2>3, <3>1
    <2>5. /\ new \in ReqState /\ new.pc = "pings" /\ new.toPing = q.toPing \ {q.alias}
          /\ new.report = report /\ new.outcome = q.outcome
        BY <1>3, <2>2, <2>3 DEF ReqState
    <2>6. \A b \in Alias : new.report[b] = IF b \in new.toPing THEN 0 ELSE dbs[b]
        BY <1>3, <2>1, <2>2, <2>5
    <2>7. Local(r, new)
        BY <1>1, <2>1, <2>5, <2>6 DEF Local, Named, Held, Listing, Waited, Holding, Caching
    <2>8. Local(r, new)'
        BY <1>2, <2>7 DEF Local, Named, Held, Listing, Waited, lockVars, poolVars, cacheVars
    <2> QED BY <1>2, <2>4, <2>5, <2>8, PlainStep
<1> QED BY <1>4, <1>5, <1>6

\* Every step of a request.
LEMMA RequestInv ==
    ASSUME IInv, NEW r \in Request, RequestNext(r)
    PROVE  IInv'
<1>1. CASE Throw(r)
    BY <1>1 DEF Throw, IInv, TypeOK, LockTypeOK, LockInv, Handles, CacheFresh, Local, Named, Held,
                Listing, Waited, lockVars, poolVars, cacheVars
<1> QED BY <1>1, EndInv, MoveInv, StartInv, GetInv, CacheInv, ListInv
        DEF RequestNext, Run, Driver, Compete

-----------------------------------------------------------------------------
(* The registrars and Stop *)

\* A step of another goroutine that leaves the pool alone.
LEMMA OtherStep ==
    ASSUME IInv, UNCHANGED <<poolVars, cacheVars, req, crashed>>,
           LockTypeOK', \A r \in Request : r \in readers => r \in readers',
           stop' \in {"serving", "draining", "lock", "entering", "inside", "closed"},
           stop = "closed" <=> stop' = "closed",
           timedOut' \in BOOLEAN, timedOut => timedOut',
           ~timedOut' /\ stop' \notin {"serving", "draining"} =>
               \A r \in Request : req[r].pc = "idle",
           reg' \in [Registrar -> [pc : {"idle", "aliases", "lock", "entering", "inside"},
                                   alias : Alias \cup {Nobody}]],
           LockInv'
    PROVE  IInv'
<1> USE DEF poolVars, cacheVars
<1>1. TypeOK'
    BY DEF IInv, TypeOK
<1>2. Handles' /\ CacheFresh'
    BY DEF IInv, Handles, CacheFresh
<1>3. ASSUME NEW r \in Request PROVE Local(r, req[r])'
    BY Before DEF Local, Named, Held, Listing, Waited, Holding, Caching
<1> QED BY <1>1, <1>2, <1>3 DEF IInv

\* Nobody is no goroutine.
LEMMA Goroutines ==
    /\ Stopper \in Proc /\ Stopper # Nobody
    /\ \A w \in Registrar : w \in Proc /\ w # Nobody /\ w # Stopper
BY RequestsAssumption, NobodyAssumption

\* The steps of a registrar.
LEMMA RegistrarInv ==
    ASSUME IInv, NEW w \in Registrar, RegistrarNext(w)
    PROVE  IInv'
<1> DEFINE RegState == [pc : {"idle", "aliases", "lock", "entering", "inside"},
                        alias : Alias \cup {Nobody}]
<1>1. /\ reg \in [Registrar -> RegState] /\ LockTypeOK /\ LockInv
      /\ stop \in {"serving", "draining", "lock", "entering", "inside", "closed"}
      /\ timedOut \in BOOLEAN
    BY DEF IInv, TypeOK
<1>2. ~timedOut /\ stop \notin {"serving", "draining"} => \A r \in Request : req[r].pc = "idle"
    BY DEF IInv, Local, Waited
<1>3. CASE RegStart(w) \/ RegAliases(w)
    <2>1. PICK new \in RegState : /\ reg' = [reg EXCEPT ![w] = new]
                                  /\ new.pc \in {"aliases", "idle", "lock"}
                                  /\ new.pc = "lock" => new.alias \in Alias
        <3>1. CASE RegStart(w)
            <4>1. PICK new : new = [reg[w] EXCEPT !.pc = "aliases"]
                OBVIOUS
            <4>2. new \in RegState /\ new.pc = "aliases"
                BY <1>1, <4>1
            <4>3. reg' = [reg EXCEPT ![w] = new]
                BY <3>1, <4>1, <1>1 DEF RegStart, RegGoto
            <4> QED BY <4>2, <4>3
        <3>2. CASE RegAliases(w)
            <4>1. PICK a \in Alias :
                    reg' = [reg EXCEPT ![w] = IF a \in listed THEN [pc |-> "idle", alias |-> Nobody]
                                              ELSE [pc |-> "lock", alias |-> a]]
                BY <3>2 DEF RegAliases
            <4>2. PICK new : new = IF a \in listed THEN [pc |-> "idle", alias |-> Nobody]
                                   ELSE [pc |-> "lock", alias |-> a]
                OBVIOUS
            <4>3. new \in RegState /\ new.pc \in {"idle", "lock"} /\ (new.pc = "lock" => new.alias \in Alias)
                BY <4>2
            <4>4. reg' = [reg EXCEPT ![w] = new]
                BY <4>1, <4>2
            <4> QED BY <4>3, <4>4
        <3> QED BY <1>3, <3>1, <3>2
    <2>2. RLock(w) \/ Leaves(w)
        BY <1>3 DEF RegStart, RegAliases, RUnlock, Leaves
    <2>3. /\ LockTypeOK' /\ readers \ {w} \subseteq readers' /\ writer' = writer /\ announced' = announced
          /\ writer' # Nobody => readers' = {}
        BY <1>1, <2>2, LockSteps, Goroutines
    <2>4. UNCHANGED <<poolVars, cacheVars, req, stop, timedOut, crashed>>
        BY <1>3 DEF RegStart, RegAliases
    <2>5. \A r \in Request : r \in readers => r \in readers'
        BY <2>3, RequestsAssumption
    <2>6. /\ reg' \in [Registrar -> RegState] /\ reg'[w] = new
          /\ \A v \in Registrar : v # w => reg'[v] = reg[v]
        BY <1>1, <2>1
    <2>7. LockInv'
        BY <1>1, <2>1, <2>3, <2>4, <2>6 DEF LockInv
    <2> QED BY <1>1, <1>2, <2>3, <2>4, <2>5, <2>6, <2>7, OtherStep
<1>4. CASE RegLock(w) \/ RegEnter(w)
    <2>1. PICK new \in RegState :
            /\ reg' = [reg EXCEPT ![w] = new] /\ new.alias \in Alias
            /\ new.pc \in {"entering", "inside"}
            /\ new.pc = "entering" => Announce(w)
            /\ new.pc = "inside" => Enter(w)
        <3>0. reg[w].pc \in {"lock", "entering"} /\ reg[w].alias \in Alias
            BY <1>1, <1>4 DEF RegLock, RegEnter, RegAt, LockInv
        <3>1. CASE RegLock(w)
            <4>1. PICK new : new = [reg[w] EXCEPT !.pc = "entering"]
                OBVIOUS
            <4>2. new \in RegState /\ new.pc = "entering" /\ new.alias \in Alias
                BY <1>1, <3>0, <4>1
            <4>3. reg' = [reg EXCEPT ![w] = new] /\ Announce(w)
                BY <3>1, <4>1, <1>1 DEF RegLock, RegGoto
            <4> QED BY <4>2, <4>3
        <3>2. CASE RegEnter(w)
            <4>1. PICK new : new = [reg[w] EXCEPT !.pc = "inside"]
                OBVIOUS
            <4>2. new \in RegState /\ new.pc = "inside" /\ new.alias \in Alias
                BY <1>1, <3>0, <4>1
            <4>3. reg' = [reg EXCEPT ![w] = new] /\ Enter(w)
                BY <3>2, <4>1, <1>1 DEF RegEnter, RegGoto
            <4> QED BY <4>2, <4>3
        <3> QED BY <1>4, <3>1, <3>2
    <2>2. UNCHANGED <<poolVars, cacheVars, req, stop, timedOut, crashed>> /\ readers' = readers
        BY <1>4 DEF RegLock, RegEnter, Announce, Enter
    <2>3. /\ reg' \in [Registrar -> RegState] /\ reg'[w] = new
          /\ \A v \in Registrar : v # w => reg'[v] = reg[v]
        BY <1>1, <2>1
    <2>4. LockTypeOK' /\ (writer' # Nobody => readers' = {} /\ announced' = Nobody)
        BY <1>1, <2>1, Goroutines DEF LockTypeOK, LockInv, Announce, Enter, NoWriter
    <2>5. writer = Nobody /\ (new.pc = "inside" => writer' = w) /\ (new.pc = "entering" => writer' = writer)
        BY <1>1, <2>1, Goroutines DEF LockInv, Announce, Enter, NoWriter
    <2>6. LockInv'
        BY <1>1, <2>1, <2>2, <2>3, <2>4, <2>5, Goroutines DEF LockInv
    <2> QED BY <1>1, <1>2, <2>2, <2>3, <2>4, <2>6, OtherStep
<1>5. CASE RegRegister(w)
    <2>1. writer = w /\ readers = {} /\ announced = Nobody /\ reg[w].alias \in Alias
        BY <1>1, <1>5, Goroutines DEF RegRegister, RegAt, LockInv
    <2>2. PICK a \in Alias : a = reg[w].alias
        BY <2>1
    <2>3. /\ Unlock(w) /\ reg' = [reg EXCEPT ![w] = [pc |-> "idle", alias |-> Nobody]]
          /\ UNCHANGED <<cacheVars, req, stop, timedOut, crashed>>
          /\ \/ UNCHANGED poolVars
             \/ /\ dbs[a] = 0 /\ opened' = [opened EXCEPT ![a] = @ + 1]
                /\ dbs' = [dbs EXCEPT ![a] = opened'[a]] /\ listed' = listed \cup {a}
        BY <1>5, <2>2 DEF RegRegister, Register
    <2>4. /\ dbs \in [Alias -> Handle] /\ opened \in [Alias -> Handle] /\ listed \in SUBSET Alias
          /\ Handles
        BY DEF IInv, TypeOK
    <2>5. /\ dbs' \in [Alias -> Handle] /\ opened' \in [Alias -> Handle] /\ listed' \in SUBSET Alias
          /\ \A b \in Alias : dbs[b] # 0 => dbs'[b] = dbs[b]
        <3>1. dbs[a] = 0 => opened[a] \in 0..1
            BY <2>4 DEF Handles
        <3> QED BY <2>3, <2>4, <3>1 DEF poolVars, Handle
    <2>6. Handles'
        <3>1. CASE UNCHANGED poolVars
            BY <2>3, <2>4, <3>1 DEF poolVars, Handles
        <3>2. CASE ~(UNCHANGED poolVars)
            <4>1. /\ dbs[a] = 0 /\ opened'[a] = opened[a] + 1 /\ dbs'[a] = opened'[a]
                  /\ listed' = listed \cup {a}
                  /\ \A b \in Alias : b # a => opened'[b] = opened[b] /\ dbs'[b] = dbs[b]
                BY <2>3, <2>4, <3>2
            <4>2. opened[a] \in 0..1 /\ (stop # "closed" => opened[a] = 0)
                BY <2>4, <4>1 DEF Handles
            <4>3. stop' = stop
                BY <2>3
            <4> QED BY <2>4, <4>1, <4>2, <4>3 DEF Handles
        <3> QED BY <3>1, <3>2
    <2>7. /\ reg' \in [Registrar -> RegState] /\ reg'[w] = [pc |-> "idle", alias |-> Nobody]
          /\ \A v \in Registrar : v # w => reg'[v] = reg[v]
        BY <1>1, <2>3
    <2>8. LockTypeOK' /\ LockInv'
        BY <1>1, <2>1, <2>3, <2>7, Goroutines DEF LockTypeOK, LockInv, Unlock
    <2>9. CacheFresh'
        BY <2>3, <2>5 DEF IInv, TypeOK, CacheFresh, cacheVars
    <2>10. ASSUME NEW r \in Request PROVE Local(r, req[r])'
        <3>1. Local(r, req[r]) /\ r \notin readers
            BY <2>1, Before
        <3> QED BY <2>3, <2>5, <3>1 DEF Local, Named, Held, Listing, Waited, Holding, Caching, cacheVars
    <2>11. TypeOK'
        BY <2>3, <2>5, <2>7, <2>8 DEF IInv, TypeOK, cacheVars
    <2> QED BY <2>6, <2>8, <2>9, <2>10, <2>11 DEF IInv
<1> QED BY <1>3, <1>4, <1>5 DEF RegistrarNext

\* The steps of Stop.
LEMMA StopInv ==
    ASSUME IInv, StopNext
    PROVE  IInv'
<1>1. /\ reg \in [Registrar -> [pc : {"idle", "aliases", "lock", "entering", "inside"},
                                alias : Alias \cup {Nobody}]]
      /\ LockTypeOK /\ LockInv /\ timedOut \in BOOLEAN
    BY DEF IInv, TypeOK
<1>2. ~timedOut /\ stop \notin {"serving", "draining"} => \A r \in Request : req[r].pc = "idle"
    BY DEF IInv, Local, Waited
<1>3. CASE Shutdown \/ Drained \/ ShutdownTimeout
    <2>1. /\ UNCHANGED <<lockVars, poolVars, cacheVars, req, reg, crashed>>
          /\ stop' \in {"draining", "lock"} /\ stop \in {"serving", "draining"}
          /\ timedOut' \in BOOLEAN /\ (timedOut => timedOut')
          /\ ~timedOut' /\ stop' = "lock" => \A r \in Request : req[r].pc = "idle"
        BY <1>1, <1>3 DEF Shutdown, Drained, ShutdownTimeout
    <2>2. LockTypeOK' /\ LockInv' /\ readers' = readers
        BY <1>1, <2>1 DEF LockTypeOK, LockInv, lockVars
    <2> QED BY <1>1, <2>1, <2>2, OtherStep
<1>4. CASE CloseLock \/ CloseEnter
    <2>1. /\ UNCHANGED <<poolVars, cacheVars, req, reg, timedOut, crashed>> /\ readers' = readers
          /\ stop' \in {"entering", "inside"} /\ stop \in {"lock", "entering"}
          /\ stop' = "entering" => Announce(Stopper)
          /\ stop' = "inside" => Enter(Stopper)
        BY <1>4 DEF CloseLock, CloseEnter, Announce, Enter
    <2>2. LockTypeOK' /\ (writer' # Nobody => readers' = {} /\ announced' = Nobody)
        BY <1>1, <2>1, Goroutines DEF LockTypeOK, LockInv, Announce, Enter, NoWriter
    <2>3. writer = Nobody /\ (stop' = "inside" => writer' = Stopper) /\ (stop' = "entering" => writer' = writer)
        BY <1>1, <2>1, Goroutines DEF LockInv, Announce, Enter, NoWriter
    <2>4. LockInv'
        BY <1>1, <2>1, <2>2, <2>3, Goroutines DEF LockInv
    <2> QED BY <1>1, <1>2, <2>1, <2>2, <2>4, OtherStep
<1>5. CASE Close
    <2>1. /\ dbs' = [a \in Alias |-> 0] /\ Unlock(Stopper) /\ stop = "inside" /\ stop' = "closed"
          /\ UNCHANGED <<listed, opened, cacheVars, req, reg, timedOut, crashed>>
          /\ writer = Stopper /\ readers = {} /\ announced = Nobody
        BY <1>1, <1>5, Goroutines DEF Close, LockInv
    <2>2. LockTypeOK' /\ LockInv'
        BY <1>1, <2>1, Goroutines DEF LockTypeOK, LockInv, Unlock
    <2>3. TypeOK'
        BY <2>1, <2>2 DEF IInv, TypeOK, cacheVars, Handle
    <2>4. Handles' /\ CacheFresh'
        BY <2>1 DEF IInv, Handles, CacheFresh
    <2>5. ASSUME NEW r \in Request PROVE Local(r, req[r])'
        <3>1. Local(r, req[r]) /\ r \notin readers
            BY <2>1, Before
        <3> QED BY <2>1, <3>1 DEF Local, Named, Held, Listing, Waited, cacheVars
    <2> QED BY <2>2, <2>3, <2>4, <2>5 DEF IInv
<1> QED BY <1>3, <1>4, <1>5 DEF StopNext

-----------------------------------------------------------------------------

\* The invariant holds at the start.
LEMMA InitInv == Init => IInv
<1> SUFFICES ASSUME Init PROVE IInv
    OBVIOUS
<1>1. /\ dbs \in [Alias -> 0..1] /\ \A a \in Alias : dbs[a] # 0 => a \in Initial
    BY RequestsAssumption DEF Init
<1>2. /\ Ended("none") \in ReqState /\ Ended("none").pc = "idle" /\ Ended("none").outcome = "none"
    BY EndedState
<1>3. \A r \in Request : req[r] = Ended("none")
    BY DEF Init
<1>4. req \in [Request -> ReqState]
    BY <1>2 DEF Init
<1>5. LockTypeOK /\ LockInv
    BY DEF Init, LockInit, LockTypeOK, LockInv
<1>6. dbs \in [Alias -> Handle]
    BY <1>1 DEF Handle
<1>7. TypeOK
    <2>1. reg \in [Registrar -> [pc : {"idle", "aliases", "lock", "entering", "inside"},
                                 alias : Alias \cup {Nobody}]]
        BY DEF Init
    <2>2. /\ cacheMu \in Request \cup {Nobody} /\ cached \in SUBSET Alias
          /\ cacheDb \in [Alias -> Handle] /\ known \in SUBSET cached
        BY DEF Init, Handle
    <2>3. listed \in SUBSET Alias /\ opened \in [Alias -> Handle]
        BY <1>6, RequestsAssumption DEF Init
    <2> QED BY <1>4, <1>5, <1>6, <2>1, <2>2, <2>3 DEF Init, TypeOK
<1>8. Handles /\ CacheFresh
    BY <1>1 DEF Init, Handles, CacheFresh
<1>9. \A r \in Request : Local(r, req[r])
    BY <1>2, <1>3 DEF Init, Local, Named, Held, Holding, Caching, Listing, Waited
<1> QED BY <1>5, <1>7, <1>8, <1>9 DEF IInv

\* And every step preserves it.
LEMMA NextInv ==
    ASSUME IInv, [Next]_vars
    PROVE  IInv'
<1>1. CASE UNCHANGED vars
    BY <1>1 DEF vars, lockVars, poolVars, cacheVars, IInv, TypeOK, LockTypeOK, LockInv, Handles,
                CacheFresh, Local, Named, Held, Listing, Waited
<1> QED BY <1>1, RequestInv, RegistrarInv, StopInv DEF Next


-----------------------------------------------------------------------------
(* Who waits for whom *)

\* The places at which a request holds the pool's lock for reading.
Sections == {"get", "fill", "list", "pings", "pinging"}
Borrowing == {"describing", "querying", "pinging"}

\* A goroutine has of the locks what its place says.
Placed(p) ==
    /\ p \in readers => Place(p) \in Reading \cup {"pings", "pinging"}
    /\ p \in waiting => Place(p) \in Reading /\ p \notin readers
    /\ Place(p) \in Reading => p \in readers \cup waiting
    /\ Place(p) = "entering" <=> announced = p
    /\ Place(p) = "inside" <=> writer = p
    /\ Place(p) = "fill" <=> cacheMu = p

PlaceInv ==
    /\ \A p \in Proc : Placed(p)
    /\ waiting # {} => ~NoWriter
    /\ \A r \in Request : req[r].conn # 0 => req[r].pc \in Borrowing

\* What a step of request r does to its record and to the locks.
LEMMA RequestEffect ==
    ASSUME IInv, NEW r \in Request, RequestNext(r),
           req[r].conn # 0 => req[r].pc \in Borrowing
    PROVE  /\ \A q \in Request : q # r => req'[q] = req[q]
           /\ UNCHANGED <<reg, stop>>
           /\ req'[r].conn # 0 => req'[r].pc \in Borrowing
           /\ \/ /\ RLock(r)
                 /\ \/ req[r].pc = "idle" /\ req'[r].pc \in {"get", "list"} /\ cacheMu' = cacheMu
                    \/ req[r].pc = "cache" /\ req'[r].pc = "fill" /\ cacheMu = Nobody /\ cacheMu' = r
              \/ /\ Leaves(r)
                 /\ req'[r].pc \in ReqPc \ Sections
                 /\ \/ req[r].pc = "fill" /\ cacheMu' = Nobody
                    \/ req[r].pc \in {"get", "pings"} /\ cacheMu' = cacheMu
                 /\ r \notin waiting \/ req[r].pc = "pings"
              \/ /\ UNCHANGED <<lockVars, cacheMu>>
                 /\ \/ req[r].pc \notin Sections /\ req'[r].pc \in ReqPc \ Sections
                    \/ req[r].pc = "list" /\ req'[r].pc = "pings" /\ r \in readers
                    \/ {req[r].pc, req'[r].pc} \subseteq {"pings", "pinging"}
<1> USE DEF cacheVars
<1>1. req \in [Request -> ReqState] /\ req[r] \in ReqState /\ req[r].pc \in ReqPc
    BY DEF IInv, TypeOK, ReqState
<1>2. \A o \in {"none", "answered", "notFound", "failed", "expired", "closed", "panic"} :
        Ended(o).pc = "idle" /\ Ended(o).conn = 0
    BY DEF Ended
<1>3. ASSUME NEW o \in {"none", "answered", "notFound", "failed", "expired", "closed", "panic"},
             Finish(r, o)
      PROVE  /\ \A q \in Request : q # r => req'[q] = req[q]
             /\ req'[r].pc = "idle" /\ req'[r].conn = 0
    BY <1>1, <1>2, <1>3 DEF Finish
<1>4. ASSUME NEW l \in ReqPc, Goto(r, l)
      PROVE  /\ \A q \in Request : q # r => req'[q] = req[q]
             /\ req'[r].pc = l /\ req'[r].conn = req[r].conn
    BY <1>1, <1>4 DEF Goto, ReqState
<1>5. "idle" \in ReqPc \ Sections
    BY DEF ReqPc, Sections
<1>6. CASE Start(r)
    <2>1. PICK o \in Op, a \in Alias :
            req' = [req EXCEPT ![r] = [Ended("none") EXCEPT
                      !.pc = IF o = "list" THEN "list" ELSE "get", !.op = o,
                      !.alias = IF o = "list" THEN Nobody ELSE a]]
        BY <1>6 DEF Start
    <2>2. PICK new : new = [Ended("none") EXCEPT
                              !.pc = IF o = "list" THEN "list" ELSE "get", !.op = o,
                              !.alias = IF o = "list" THEN Nobody ELSE a]
        OBVIOUS
    <2>3. new.pc \in {"get", "list"} /\ new.conn = 0
        BY <2>2 DEF Ended
    <2>4. req' = [req EXCEPT ![r] = new]
        BY <2>1, <2>2
    <2>5. /\ req'[r].pc \in {"get", "list"} /\ req'[r].conn = 0
          /\ \A q \in Request : q # r => req'[q] = req[q]
        BY <1>1, <2>3, <2>4
    <2>6. RLock(r) /\ req[r].pc = "idle" /\ cacheMu' = cacheMu /\ UNCHANGED <<reg, stop>>
        BY <1>6 DEF Start, At
    <2> QED BY <2>5, <2>6
<1>7. CASE NotFound(r) \/ Tables(r)
    <2>1. PICK o \in {"answered", "notFound", "failed", "expired"} : Finish(r, o)
        BY <1>7 DEF NotFound, Tables
    <2>2. /\ Leaves(r) /\ r \notin waiting /\ req[r].pc = "get" /\ cacheMu' = cacheMu
          /\ UNCHANGED <<reg, stop>>
        BY <1>7 DEF NotFound, Tables, RUnlock, Leaves, At
    <2> QED BY <1>3, <1>5, <2>1, <2>2
<1>8. CASE Get(r)
    <2>1. PICK l \in {"query", "cache"} :
            req' = [req EXCEPT ![r].handle = dbs[req[r].alias], ![r].pc = l]
        BY <1>8 DEF Get
    <2>2. /\ req'[r].pc = l /\ req'[r].conn = req[r].conn
          /\ \A q \in Request : q # r => req'[q] = req[q]
        BY <1>1, <2>1 DEF ReqState
    <2>3. /\ Leaves(r) /\ r \notin waiting /\ req[r].pc = "get" /\ cacheMu' = cacheMu
          /\ UNCHANGED <<reg, stop>>
        BY <1>8 DEF Get, RUnlock, Leaves, At
    <2> QED BY <2>2, <2>3 DEF ReqPc, Sections, Borrowing
<1>9. CASE CacheHit(r) \/ Columns(r) \/ StoreBegin(r) \/ StoreEnd(r) \/ Forbidden(r) \/ QueryDone(r)
           \/ Expire(r) \/ DescribePanic(r) \/ HandleClosed(r)
    <2>1. /\ UNCHANGED <<lockVars, cacheMu, reg, stop>>
          /\ req[r].pc \in {"cache", "columns", "store", "storing", "query", "querying",
                            "describe", "describing"}
        BY <1>9 DEF CacheHit, Columns, StoreBegin, StoreEnd, Forbidden, QueryDone, Expire,
                    DescribePanic, HandleClosed, At
    <2>2. \/ /\ req[r].pc \notin Borrowing
             /\ \E l \in {"columns", "query", "describe", "storing"} : Goto(r, l)
          \/ \E o \in {"answered", "failed", "expired", "panic", "closed"} : Finish(r, o)
        <3>1. CASE CacheHit(r)
            BY <3>1 DEF CacheHit, AfterCache, At, Borrowing
        <3>2. CASE Columns(r) \/ StoreBegin(r) \/ StoreEnd(r)
            BY <3>2 DEF Columns, StoreBegin, StoreEnd, Validate, At, Borrowing
        <3>3. CASE Forbidden(r) \/ QueryDone(r) \/ Expire(r) \/ DescribePanic(r) \/ HandleClosed(r)
            BY <3>3 DEF Forbidden, QueryDone, Expire, DescribePanic, HandleClosed
        <3> QED BY <1>9, <3>1, <3>2, <3>3
    <2>3. {"columns", "query", "describe", "storing"} \subseteq ReqPc \ Sections
        BY DEF ReqPc, Sections
    <2>4. /\ \A q \in Request : q # r => req'[q] = req[q]
          /\ req'[r].pc \in ReqPc \ Sections
          /\ req'[r].conn = 0 \/ (req[r].pc \notin Borrowing /\ req'[r].conn = req[r].conn)
        BY <1>3, <1>4, <1>5, <2>2, <2>3
    <2> QED BY <2>1, <2>4 DEF Sections
<1>10. CASE Describe(r) \/ Query(r)
    <2>1. /\ UNCHANGED <<lockVars, cacheMu, reg, stop>> /\ req[r].pc \in {"describe", "query"}
          /\ \/ Borrow(r, cacheDb[req[r].alias], "describing")
             \/ Borrow(r, req[r].handle, "querying")
        BY <1>10 DEF Describe, Query, Borrow, At
    <2>2. ASSUME NEW h, NEW l \in {"describing", "querying"}, Borrow(r, h, l)
          PROVE  req'[r].pc = l /\ \A q \in Request : q # r => req'[q] = req[q]
        BY <1>1, <2>2 DEF Borrow, ReqState
    <2>3. /\ req'[r].pc \in {"describing", "querying"}
          /\ \A q \in Request : q # r => req'[q] = req[q]
        BY <2>1, <2>2
    <2> QED BY <2>1, <2>3 DEF ReqPc, Sections, Borrowing
<1>11. CASE DescribeDone(r)
    <2>1. /\ UNCHANGED <<lockVars, cacheMu, reg, stop>> /\ req[r].pc = "describing"
          /\ \/ req' = [req EXCEPT ![r].pc = "store", ![r].conn = 0]
             \/ Finish(r, "failed")
        BY <1>11 DEF DescribeDone, At
    <2>2. /\ \A q \in Request : q # r => req'[q] = req[q]
          /\ req'[r].pc \in {"store", "idle"} /\ req'[r].conn = 0
        BY <1>1, <1>3, <2>1 DEF ReqState
    <2> QED BY <2>1, <2>2 DEF ReqPc, Sections
<1>12. CASE CacheMiss(r)
    <2>1. /\ Goto(r, "fill") /\ RLock(r) /\ req[r].pc = "cache"
          /\ cacheMu = Nobody /\ cacheMu' = r /\ UNCHANGED <<reg, stop>>
        BY <1>12 DEF CacheMiss, At
    <2> QED BY <1>4, <2>1 DEF ReqPc, Borrowing
<1>13. CASE CacheFill(r)
    <2>1. PICK l \in {"columns", "query"} : Goto(r, l)
        BY <1>13 DEF CacheFill, AfterCache
    <2>2. /\ Leaves(r) /\ r \notin waiting /\ req[r].pc = "fill" /\ cacheMu' = Nobody
          /\ UNCHANGED <<reg, stop>>
        BY <1>13 DEF CacheFill, RUnlock, Leaves, At
    <2> QED BY <1>4, <2>1, <2>2 DEF ReqPc, Sections, Borrowing
<1>14. CASE Throw(r)
    BY <1>1, <1>14 DEF Throw, At, ReqPc, Sections
<1>15. CASE ListBegin(r)
    <2>1. /\ req[r].pc = "list" /\ r \in readers
          /\ req' = [req EXCEPT ![r].toPing = listed, ![r].pc = "pings"]
          /\ UNCHANGED <<lockVars, cacheMu, reg, stop>>
        BY <1>15 DEF ListBegin, At
    <2>2. /\ \A q \in Request : q # r => req'[q] = req[q]
          /\ req'[r].pc = "pings" /\ req'[r].conn = req[r].conn
        BY <1>1, <2>1 DEF ReqState
    <2> QED BY <2>1, <2>2 DEF Borrowing
<1>16. CASE ListNext(r)
    <2>1. /\ req[r].pc = "pings" /\ UNCHANGED <<lockVars, cacheMu, reg, stop>>
          /\ \E a \in req[r].toPing :
               \/ req' = [req EXCEPT ![r].toPing = @ \ {a}]
               \/ req' = [req EXCEPT ![r].alias = a, ![r].conn = dbs[a], ![r].pc = "pinging"]
        BY <1>16 DEF ListNext, At
    <2>2. /\ \A q \in Request : q # r => req'[q] = req[q]
          /\ \/ req'[r].pc = "pings" /\ req'[r].conn = req[r].conn
             \/ req'[r].pc = "pinging"
        BY <1>1, <2>1 DEF ReqState
    <2> QED BY <2>1, <2>2 DEF Borrowing
<1>17. CASE Pinged(r)
    <2>1. /\ req[r].pc = "pinging" /\ UNCHANGED <<lockVars, cacheMu, reg, stop>>
          /\ req' = [req EXCEPT ![r].toPing = @ \ {req[r].alias},
                                ![r].report[req[r].alias] = req[r].conn,
                                ![r].alias = Nobody, ![r].conn = 0, ![r].pc = "pings"]
        BY <1>17 DEF Pinged, At
    <2>2. /\ \A q \in Request : q # r => req'[q] = req[q]
          /\ req'[r].pc = "pings" /\ req'[r].conn = 0
        BY <1>1, <2>1 DEF ReqState
    <2> QED BY <2>1, <2>2
<1>18. CASE ListEnd(r)
    <2>1. /\ Finish(r, "answered") /\ Leaves(r) /\ req[r].pc = "pings"
          /\ UNCHANGED <<cacheMu, reg, stop>>
        BY <1>18 DEF ListEnd, Leaves, At
    <2> QED BY <1>3, <1>5, <2>1
<1> QED
    BY <1>6, <1>7, <1>8, <1>9, <1>10, <1>11, <1>12, <1>13, <1>14, <1>15, <1>16, <1>17, <1>18
    DEF RequestNext, Run, Driver, Compete

\* If the step of p leaves what the others have as it was, or lets some of them
\* in, only p is to be looked at.
LEMMA PlaceStep ==
    ASSUME PlaceInv, NEW p \in Proc, Placed(p)',
           \A q \in Proc \ {p} :
              /\ Place(q)' = Place(q)
              /\ q \in readers' => q \in readers \cup waiting
              /\ q \in waiting' => q \in waiting /\ q \notin readers'
              /\ q \in readers \cup waiting => q \in readers' \cup waiting'
              /\ announced' = q <=> announced = q
              /\ writer' = q <=> writer = q
              /\ cacheMu' = q <=> cacheMu = q
    PROVE  \A q \in Proc : Placed(q)'
<1> SUFFICES ASSUME NEW q \in Proc, q # p PROVE Placed(q)'
    OBVIOUS
<1>1. Placed(q)
    BY DEF PlaceInv
<1> QED BY <1>1 DEF Placed, Reading


\* Where each goroutine is.
LEMMA Places ==
    /\ \A r \in Request : r \in Proc /\ r # Nobody /\ Place(r) = req[r].pc /\ Place(r)' = req'[r].pc
    /\ \A w \in Registrar : w \in Proc /\ w # Nobody /\ Place(w) = reg[w].pc /\ Place(w)' = reg'[w].pc
    /\ Stopper \in Proc /\ Stopper # Nobody /\ Place(Stopper) = stop /\ Place(Stopper)' = stop'
    /\ \A p \in Proc : p \in Request \/ p \in Registrar \/ p = Stopper
BY RequestsAssumption, NobodyAssumption DEF Place

\* A request has what its place says after each of its steps.
LEMMA RequestPlace ==
    ASSUME IInv, PlaceInv, NEW r \in Request, RequestNext(r)
    PROVE  PlaceInv'
<1>1. /\ r \in Proc /\ r # Nobody /\ Place(r) = req[r].pc /\ Place(r)' = req'[r].pc
      /\ Placed(r) /\ req[r].pc \in ReqPc
    BY Before, Places DEF PlaceInv, ReqState
<1>2. /\ \A q \in Request : q # r => req'[q] = req[q]
      /\ UNCHANGED <<reg, stop>>
      /\ req'[r].conn # 0 => req'[r].pc \in Borrowing
    BY RequestEffect DEF PlaceInv
<1>3. \A q \in Proc \ {r} : Place(q)' = Place(q) /\ q # Nobody
    BY <1>2, Places
<1>4. /\ req[r].pc \in {"pings", "pinging"} => r \in readers
      /\ writer # Nobody => readers = {} /\ announced = Nobody
    BY Before DEF Local, Listing, IInv, LockInv
<1>5. \A l \in ReqPc : l \notin {"entering", "inside"}
    BY DEF ReqPc
<1>6. announced # r /\ writer # r /\ (cacheMu = r <=> req[r].pc = "fill")
    BY <1>1, <1>5 DEF Placed
<1>7. CASE /\ RLock(r)
           /\ \/ req[r].pc = "idle" /\ req'[r].pc \in {"get", "list"} /\ cacheMu' = cacheMu
              \/ req[r].pc = "cache" /\ req'[r].pc = "fill" /\ cacheMu = Nobody /\ cacheMu' = r
    <2>1. r \notin readers /\ r \notin waiting
        BY <1>1, <1>7 DEF Placed, Reading
    <2>2. Placed(r)'
        BY <1>1, <1>6, <1>7, <2>1 DEF Placed, RLock, Reading
    <2>3. \A q \in Proc \ {r} :
              /\ q \in readers' <=> q \in readers
              /\ q \in waiting' <=> q \in waiting
              /\ announced' = announced /\ writer' = writer
              /\ cacheMu' = q <=> cacheMu = q
        BY <1>3, <1>7 DEF RLock
    <2>4. \A q \in Proc \ {r} : q \in waiting => q \notin readers
        BY DEF PlaceInv, Placed
    <2>5. \A q \in Proc : Placed(q)'
        BY <1>1, <1>3, <2>2, <2>3, <2>4, PlaceStep
    <2>6. waiting' # {} => ~NoWriter'
        BY <1>7 DEF RLock, NoWriter, PlaceInv
    <2> QED BY <1>2, <2>5, <2>6 DEF PlaceInv
<1>8. CASE /\ Leaves(r)
           /\ req'[r].pc \in ReqPc \ Sections
           /\ \/ req[r].pc = "fill" /\ cacheMu' = Nobody
              \/ req[r].pc \in {"get", "pings"} /\ cacheMu' = cacheMu
           /\ r \notin waiting \/ req[r].pc = "pings"
    <2>1. r \notin waiting
        BY <1>1, <1>8 DEF Placed, Reading
    <2>2. Placed(r)'
        BY <1>1, <1>5, <1>6, <1>8, <2>1 DEF Placed, Leaves, Reading, Sections, ReqPc
    <2>3. \A q \in Proc \ {r} :
              /\ q \in readers' <=> q \in readers
              /\ q \in waiting' <=> q \in waiting
              /\ announced' = announced /\ writer' = writer
              /\ cacheMu' = q <=> cacheMu = q
        BY <1>3, <1>6, <1>8 DEF Leaves
    <2>4. \A q \in Proc \ {r} : q \in waiting => q \notin readers
        BY DEF PlaceInv, Placed
    <2>5. \A q \in Proc : Placed(q)'
        BY <1>1, <1>3, <2>2, <2>3, <2>4, PlaceStep
    <2>6. waiting' # {} => ~NoWriter'
        BY <1>8 DEF Leaves, NoWriter, PlaceInv
    <2> QED BY <1>2, <2>5, <2>6 DEF PlaceInv
<1>9. CASE /\ UNCHANGED <<lockVars, cacheMu>>
           /\ \/ req[r].pc \notin Sections /\ req'[r].pc \in ReqPc \ Sections
              \/ req[r].pc = "list" /\ req'[r].pc = "pings" /\ r \in readers
              \/ {req[r].pc, req'[r].pc} \subseteq {"pings", "pinging"}
    <2>1. Placed(r)'
        BY <1>1, <1>4, <1>5, <1>6, <1>9 DEF Placed, Reading, Sections, ReqPc, lockVars
    <2>2. \A q \in Proc \ {r} : q \in waiting => q \notin readers
        BY DEF PlaceInv, Placed
    <2>3. \A q \in Proc : Placed(q)'
        BY <1>1, <1>3, <1>9, <2>1, <2>2, PlaceStep DEF lockVars
    <2> QED BY <1>2, <1>9, <2>3 DEF PlaceInv, NoWriter, lockVars
<1> QED BY <1>7, <1>8, <1>9, RequestEffect DEF PlaceInv

\* A step of a goroutine that serves no request.
LEMMA OtherPlace ==
    ASSUME IInv, PlaceInv, NEW p \in Proc, p # Nobody,
           \A q \in Proc \ {p} : Place(q)' = Place(q) /\ q # Nobody,
           UNCHANGED <<cacheMu, req>>, cacheMu # p,
           \/ Place(p) = "idle" /\ Place(p)' = "aliases" /\ RLock(p)
           \/ Place(p) = "aliases" /\ Place(p)' \in {"idle", "lock"} /\ RUnlock(p)
           \/ Place(p) = "lock" /\ Place(p)' = "entering" /\ Announce(p)
           \/ Place(p) = "entering" /\ Place(p)' = "inside" /\ Enter(p)
           \/ Place(p) = "inside" /\ Place(p)' \in {"idle", "closed"} /\ Unlock(p)
           \/ /\ Place(p) \in {"serving", "draining"} /\ Place(p)' \in {"draining", "lock"}
              /\ UNCHANGED lockVars
    PROVE  PlaceInv'
<1>1. Placed(p) /\ (writer # Nobody => readers = {} /\ announced = Nobody)
    BY DEF PlaceInv, IInv, LockInv
<1>2. \A q \in Proc \ {p} : q \in waiting => q \notin readers
    BY DEF PlaceInv, Placed
<1>3. Placed(p)'
    BY <1>1 DEF Placed, Reading, RLock, RUnlock, Announce, Enter, Unlock, NoWriter, lockVars
<1>4. \A q \in Proc \ {p} :
          /\ q \in readers' => q \in readers \cup waiting
          /\ q \in waiting' => q \in waiting /\ q \notin readers'
          /\ q \in readers \cup waiting => q \in readers' \cup waiting'
          /\ announced' = q <=> announced = q
          /\ writer' = q <=> writer = q
    BY <1>1, <1>2 DEF Placed, RLock, RUnlock, Announce, Enter, Unlock, NoWriter, lockVars
<1>5. \A q \in Proc : Placed(q)'
    BY <1>3, <1>4, PlaceStep
<1>6. waiting' # {} => ~NoWriter'
    BY <1>1 DEF PlaceInv, Placed, RLock, RUnlock, Announce, Enter, Unlock, NoWriter, lockVars
<1> QED BY <1>5, <1>6 DEF PlaceInv

\* So has a registrar,
LEMMA RegistrarPlace ==
    ASSUME IInv, PlaceInv, NEW w \in Registrar, RegistrarNext(w)
    PROVE  PlaceInv'
<1>1. /\ w \in Proc /\ w # Nobody /\ Place(w) = reg[w].pc /\ Place(w)' = reg'[w].pc
      /\ Placed(w) /\ w \notin Request
    BY Places, RequestsAssumption DEF PlaceInv
<1>2. /\ reg \in [Registrar -> [pc : {"idle", "aliases", "lock", "entering", "inside"},
                                alias : Alias \cup {Nobody}]]
      /\ cacheMu \in Request \cup {Nobody}
    BY DEF IInv, TypeOK
<1>3. UNCHANGED <<cacheMu, req, stop>>
    BY DEF RegistrarNext, RegStart, RegAliases, RegLock, RegEnter, RegRegister, cacheVars
<1>4. ASSUME NEW l \in {"aliases", "entering", "inside"}, RegGoto(w, l)
      PROVE  reg'[w].pc = l /\ \A v \in Registrar : v # w => reg'[v] = reg[v]
    BY <1>2, <1>4 DEF RegGoto
<1>5. /\ \A v \in Registrar : v # w => reg'[v] = reg[v]
      /\ \/ reg[w].pc = "idle" /\ reg'[w].pc = "aliases" /\ RLock(w)
         \/ reg[w].pc = "aliases" /\ reg'[w].pc \in {"idle", "lock"} /\ RUnlock(w)
         \/ reg[w].pc = "lock" /\ reg'[w].pc = "entering" /\ Announce(w)
         \/ reg[w].pc = "entering" /\ reg'[w].pc = "inside" /\ Enter(w)
         \/ reg[w].pc = "inside" /\ reg'[w].pc = "idle" /\ Unlock(w)
    <2>1. CASE RegStart(w) \/ RegLock(w) \/ RegEnter(w)
        BY <1>4, <2>1 DEF RegStart, RegLock, RegEnter, RegAt
    <2>2. CASE RegAliases(w)
        <3>1. reg[w].pc = "aliases" /\ RUnlock(w)
            BY <2>2 DEF RegAliases, RegAt
        <3>2. PICK new : /\ reg' = [reg EXCEPT ![w] = new]
                         /\ \/ new = [pc |-> "idle", alias |-> Nobody]
                            \/ \E a \in Alias : new = [pc |-> "lock", alias |-> a]
            BY <2>2 DEF RegAliases
        <3>3. new.pc \in {"idle", "lock"}
            BY <3>2
        <3> QED BY <1>2, <3>1, <3>2, <3>3
    <2>3. CASE RegRegister(w)
        BY <1>2, <2>3 DEF RegRegister, RegAt
    <2> QED BY <2>1, <2>2, <2>3 DEF RegistrarNext
<1>6. \A q \in Proc \ {w} : Place(q)' = Place(q) /\ q # Nobody
    BY <1>3, <1>5, Places
<1> QED BY <1>1, <1>2, <1>3, <1>5, <1>6, OtherPlace

\* and the goroutine of Stop.
LEMMA StopPlace ==
    ASSUME IInv, PlaceInv, StopNext
    PROVE  PlaceInv'
<1>1. /\ Stopper \in Proc /\ Stopper # Nobody /\ Place(Stopper) = stop /\ Place(Stopper)' = stop'
      /\ Stopper \notin Request /\ cacheMu # Stopper
    BY Places, RequestsAssumption DEF IInv, TypeOK
<1>2. UNCHANGED <<cacheMu, req, reg>>
    BY DEF StopNext, Shutdown, Drained, ShutdownTimeout, CloseLock, CloseEnter, Close, cacheVars
<1>3. \/ stop = "lock" /\ stop' = "entering" /\ Announce(Stopper)
      \/ stop = "entering" /\ stop' = "inside" /\ Enter(Stopper)
      \/ stop = "inside" /\ stop' \in {"idle", "closed"} /\ Unlock(Stopper)
      \/ /\ stop \in {"serving", "draining"} /\ stop' \in {"draining", "lock"}
         /\ UNCHANGED lockVars
    BY DEF StopNext, Shutdown, Drained, ShutdownTimeout, CloseLock, CloseEnter, Close
<1>4. \A q \in Proc \ {Stopper} : Place(q)' = Place(q) /\ q # Nobody
    BY <1>2, Places
<1> QED BY <1>1, <1>2, <1>3, <1>4, OtherPlace

\* Every step preserves it.
LEMMA PlaceNext ==
    ASSUME IInv, PlaceInv, [Next]_vars
    PROVE  PlaceInv'
<1>1. CASE UNCHANGED vars
    BY <1>1 DEF vars, lockVars, cacheVars, PlaceInv, Placed, Place, NoWriter
<1> QED BY <1>1, RequestPlace, RegistrarPlace, StopPlace DEF Next

\* It holds at the start.
LEMMA PlaceInit == Init => PlaceInv
<1> SUFFICES ASSUME Init PROVE PlaceInv
    OBVIOUS
<1>1. /\ \A r \in Request : Place(r) = "idle" /\ req[r].conn = 0
      /\ \A w \in Registrar : Place(w) = "idle"
      /\ Place(Stopper) = "serving"
    BY Places DEF Init, Ended
<1>2. readers = {} /\ waiting = {} /\ announced = Nobody /\ writer = Nobody /\ cacheMu = Nobody
    BY DEF Init, LockInit
<1>3. \A p \in Proc : Place(p) \in {"idle", "serving"} /\ p # Nobody
    BY <1>1, Places
<1>4. \A p \in Proc : Placed(p)
    BY <1>2, <1>3 DEF Placed, Reading
<1> QED BY <1>1, <1>2, <1>4 DEF PlaceInv

\* A handle has no free connection only while a request uses one.
LEMMA BusyIsUsed ==
    ASSUME NEW a, NEW h, ~Free(a, h)
    PROVE  Users(a, h) # {}
<1> SUFFICES ASSUME Users(a, h) = {} PROVE FALSE
    OBVIOUS
<1>1. Cardinality(Users(a, h)) = 0
    BY FS_EmptySet
<1> QED BY <1>1, RequestsAssumption DEF Free

\* And whoever uses one waits for nobody.
LEMMA UserRuns ==
    ASSUME IInv, PlaceInv, NEW a, NEW h, h # 0, NEW q \in Users(a, h)
    PROVE  Working(q) /\ Rank(q) = 0
<1>1. q \in Request /\ req[q].pc \in Borrowing
    BY DEF Users, PlaceInv
<1>2. Place(q) \in Borrowing /\ q \notin waiting
    BY <1>1, Places DEF PlaceInv, Placed, Borrowing, Reading
<1> QED BY <1>2 DEF Working, Rank, Borrowing

\* What the goroutines hold orders their waits.
LEMMA WaitsFollow == IInv /\ PlaceInv => WaitsOrdered
<1> SUFFICES ASSUME IInv, PlaceInv, NEW p \in Proc, Working(p), ~Ready(p)
             PROVE  WaitsFor(p) # {} /\ \A q \in WaitsFor(p) : Working(q) /\ Rank(q) < Rank(p)
    BY DEF WaitsOrdered
<1> DEFINE at == Place(p)
<1>1. Placed(p) /\ \A q \in Proc : Placed(q)
    BY DEF PlaceInv
<1>2. LockTypeOK /\ (writer # Nobody => readers = {} /\ announced = Nobody)
    BY DEF IInv, TypeOK, LockInv
\* The writer that waits for the readers, and the one inside.
<1>3. ASSUME NEW q \in {announced, writer} \ {Nobody}
      PROVE  Working(q) /\ Rank(q) \in {0, 2}
    <2>1. q \in Proc /\ Place(q) \in {"entering", "inside"}
        BY <1>1, <1>2, <1>3 DEF LockTypeOK, Placed
    <2>2. q \notin waiting
        BY <1>1, <2>1 DEF Placed, Reading
    <2> QED BY <2>1, <2>2 DEF Working, Rank
\* A reader that is not in another RLock.
<1>4. ASSUME NEW q \in readers
      PROVE  Working(q) /\ Rank(q) \in {0, 1}
    <2>1. q \in Proc /\ q \notin waiting /\ Place(q) \in Reading \cup {"pings", "pinging"}
        BY <1>1, <1>2, <1>4 DEF LockTypeOK, Placed
    <2> QED BY <2>1 DEF Working, Rank, Reading
<1>5. CASE at \in Reading
    <2>1. p \in waiting
        BY <1>1, <1>5 DEF Ready, Placed, Reading
    <2>2. WaitsFor(p) = {announced, writer} \ {Nobody} /\ Rank(p) = 3
        BY <1>5, <2>1 DEF WaitsFor, Rank, Reading
    <2>3. ~NoWriter
        BY <2>1 DEF PlaceInv
    <2> QED BY <1>3, <2>2, <2>3 DEF NoWriter
<1>6. CASE at = "lock"
    <2>1. WaitsFor(p) = {announced, writer} \ {Nobody} /\ Rank(p) = 3 /\ ~NoWriter
        BY <1>6 DEF WaitsFor, Rank, Ready, Reading
    <2> QED BY <1>3, <2>1 DEF NoWriter
<1>7. CASE at = "entering"
    <2>1. p \notin waiting /\ announced = p
        BY <1>1, <1>7 DEF Placed, Reading
    <2>2. WaitsFor(p) = readers /\ Rank(p) = 2 /\ readers # {}
        BY <1>7, <2>1 DEF WaitsFor, Rank, Ready, Reading
    <2> QED BY <1>4, <2>2
<1>8. CASE at = "cache"
    <2>1. p \notin waiting /\ cacheMu # Nobody
        BY <1>1, <1>8 DEF Placed, Ready, Reading
    <2>2. WaitsFor(p) = {cacheMu} /\ Rank(p) = 4
        BY <1>8, <2>1 DEF WaitsFor, Rank
    <2>3. cacheMu \in Proc /\ Place(cacheMu) = "fill"
        BY <1>1, <2>1, RequestsAssumption DEF IInv, TypeOK, Placed
    <2>4. Working(cacheMu) /\ Rank(cacheMu) \in {0, 3}
        BY <2>3 DEF Working, Rank
    <2> QED BY <2>2, <2>4
<1>9. CASE at \in {"describe", "query"}
    <2>1. p \notin waiting
        BY <1>1, <1>9 DEF Placed, Reading
    <2>2. WaitsFor(p) = Users(req[p].alias, Wants(p)) /\ Rank(p) = 1
        BY <1>9, <2>1 DEF WaitsFor, Rank
    <2>3. Open(req[p].alias, Wants(p)) /\ ~Free(req[p].alias, Wants(p))
        BY <1>9 DEF Ready, Reading
    <2> QED BY <2>2, <2>3, BusyIsUsed, UserRuns DEF Open
<1>10. CASE at = "pings"
    <2>1. p \notin waiting
        BY <1>1, <1>10 DEF Placed, Reading
    <2>2. WaitsFor(p) = UNION {Users(a, dbs[a]) : a \in req[p].toPing} /\ Rank(p) = 1
        BY <1>10, <2>1 DEF WaitsFor, Rank
    <2>3. /\ req[p].toPing # {}
          /\ \A a \in req[p].toPing : dbs[a] # 0 /\ ~Free(a, dbs[a])
        BY <1>10 DEF Ready, Reading
    <2>4. \A a \in req[p].toPing :
            /\ Users(a, dbs[a]) # {}
            /\ \A q \in Users(a, dbs[a]) : Working(q) /\ Rank(q) = 0
        BY <2>3, BusyIsUsed, UserRuns
    <2> QED BY <2>2, <2>3, <2>4
<1>11. CASE at = "inside"
    BY <1>1, <1>11 DEF Placed, Ready, Reading
<1> QED BY <1>5, <1>6, <1>7, <1>8, <1>9, <1>10, <1>11 DEF Ready

\* Between two steps of a listing the pool is as it found it.
LEMMA ListingFollows == IInv => ListingCurrent
BY DEF IInv, Local, Listing, ListingCurrent

\* CacheFresh, ListingCurrent and CleanStop (store.go:72-82, pool.go:103-127,
\* service.go:60-75): for any number of requests, registrations and databases,
\* caches stay true to the pool, a listing tells one state of it, and a stop that
\* waited for the requests disturbs none.
THEOREM RequestsSafe == Spec => [](TypeOK /\ CacheFresh /\ ListingCurrent /\ CleanStop)
<1>1. IInv => TypeOK /\ CacheFresh /\ ListingCurrent /\ CleanStop
    BY ListingFollows DEF IInv, CleanStop, Local, Waited
<1>2. IInv /\ [Next]_vars => IInv'
    BY NextInv
<1> QED BY InitInv, <1>1, <1>2, PTL DEF Spec

\* WaitsOrdered (store.go:73, pool.go:81, 103-115, 141, 153; database/sql): any
\* number of requests, registrars and the shutdown never wait for each other in
\* a ring.
THEOREM NoRing == Spec => []WaitsOrdered
<1>1. Init => IInv /\ PlaceInv
    BY InitInv, PlaceInit
<1>2. (IInv /\ PlaceInv) /\ [Next]_vars => (IInv /\ PlaceInv)'
    BY NextInv, PlaceNext
<1>3. IInv /\ PlaceInv => WaitsOrdered
    BY WaitsFollow
<1> QED BY <1>1, <1>2, <1>3, PTL DEF Spec
=============================================================================
