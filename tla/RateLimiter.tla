---------------------------- MODULE RateLimiter ----------------------------
(***************************************************************************)
(* rateLimitMiddleware (internal/api/middleware.go): one token bucket for  *)
(* each client address, made when the client is first seen and forgotten   *)
(* by a background sweep when the client was idle for long.                *)
(*                                                                         *)
(* A request looks its entry up under the mutex and asks the bucket after  *)
(* it released it, so a sweep may come between.  Time is kept as ages: how *)
(* long ago something happened, as far as the code can tell the            *)
(* difference.  The bucket is golang.org/x/time/rate, which is external:   *)
(* it computes lazily what is added here at every Tick.                    *)
(***************************************************************************)
EXTENDS Integers

CONSTANTS
    Client, Request, Rate, Cost, Burst,     \* as in TokenBucket.tla
    IdleLimit,      \* entries idle for longer are swept: 10 minutes
    SweepPeriod,    \* from one sweep to the next: 5 minutes
    MaxPause        \* bound on the time from the mutex to Allow, below the idle limit

ASSUME RateLimiterAssumption ==
    /\ Rate \in Nat \ {0}
    /\ Cost \in Nat \ {0}
    /\ Burst \in Nat \ {0}
    /\ IdleLimit \in Nat
    /\ SweepPeriod \in Nat \ {0}
    /\ MaxPause \in 0..IdleLimit

VARIABLES
    entries,    \* the keys of limiters
    tokens,     \* what the bucket of each entry holds
    idle,       \* the age of lastSeen, up to IdleLimit + 1
    sweepAge,   \* the age of the last sweep, up to SweepPeriod
    req,        \* the request each goroutine serves
    answer      \* what that request was told

limiterVars == <<entries, tokens, idle, sweepAge, req, answer>>

Full == Burst * Cost

\* A request that looked up its entry is at "allow"; age is the time since it
\* released the mutex.
ReqState == [pc : {"idle", "allow"}, client : Client, age : 0..MaxPause]

LimiterTypeOK ==
    /\ entries \in SUBSET Client
    /\ tokens \in [Client -> 0..Full]
    /\ idle \in [Client -> 0..(IdleLimit + 1)]
    /\ sweepAge \in 0..SweepPeriod
    /\ req \in [Request -> ReqState]
    /\ answer \in [Request -> {"none", "admitted", "refused"}]

LimiterInit ==
    /\ entries = {}
    /\ tokens = [c \in Client |-> Full]
    /\ idle = [c \in Client |-> 0]
    /\ sweepAge = 0
    /\ \E c \in Client : req = [r \in Request |-> [pc |-> "idle", client |-> c, age |-> 0]]
    /\ answer = [r \in Request |-> "none"]

-----------------------------------------------------------------------------

\* Mutant: only a new entry gets a time.
Enter_KeepsLastSeen(r, c) ==
    /\ req[r].pc = "idle"
    /\ entries' = entries \cup {c}
    /\ tokens' = IF c \in entries THEN tokens ELSE [tokens EXCEPT ![c] = Full]
    /\ idle' = IF c \in entries THEN idle ELSE [idle EXCEPT ![c] = 0]
    /\ req' = [req EXCEPT ![r] = [pc |-> "allow", client |-> c, age |-> 0]]
    /\ answer' = [answer EXCEPT ![r] = "none"]
    /\ UNCHANGED sweepAge

\* Under the mutex: the client's entry is made if there is none, and marked.
Enter(r, c) ==
    /\ req[r].pc = "idle"
    /\ entries' = entries \cup {c}
    /\ tokens' = IF c \in entries THEN tokens ELSE [tokens EXCEPT ![c] = Full]
    /\ idle' = [idle EXCEPT ![c] = 0]
    /\ req' = [req EXCEPT ![r] = [pc |-> "allow", client |-> c, age |-> 0]]
    /\ answer' = [answer EXCEPT ![r] = "none"]
    /\ UNCHANGED sweepAge

Answer(r, verdict) ==
    /\ answer' = [answer EXCEPT ![r] = verdict]
    /\ req' = [req EXCEPT ![r] = [pc |-> "idle", client |-> req[r].client, age |-> 0]]

\* Allow returns true.
Admit(r) ==
    /\ req[r].pc = "allow"
    /\ tokens[req[r].client] >= Cost
    /\ tokens' = [tokens EXCEPT ![req[r].client] = @ - Cost]
    /\ Answer(r, "admitted")
    /\ UNCHANGED <<entries, idle, sweepAge>>

\* Allow returns false: 429.
Refuse(r) ==
    /\ req[r].pc = "allow"
    /\ tokens[req[r].client] < Cost
    /\ Answer(r, "refused")
    /\ UNCHANGED <<entries, tokens, idle, sweepAge>>

\* Mutant: the comparison of the idle time is reversed.
Stale_Reversed == {c \in entries : idle[c] <= IdleLimit}

Stale == {c \in entries : idle[c] > IdleLimit}

\* Mutant: the entries are deleted from a copy of the map.
Sweep_OfCopy ==
    /\ sweepAge = SweepPeriod
    /\ sweepAge' = 0
    /\ UNCHANGED <<entries, tokens, idle, req, answer>>

\* The background goroutine wakes up and deletes the stale entries.
Sweep ==
    /\ sweepAge = SweepPeriod
    /\ entries' = entries \ Stale
    /\ sweepAge' = 0
    /\ UNCHANGED <<tokens, idle, req, answer>>

Refilled(l) == IF l + Rate > Full THEN Full ELSE l + Rate

\* Time passes, but not past MaxPause for a request between mutex and Allow.
Tick ==
    /\ \A r \in Request : req[r].pc = "allow" => req[r].age < MaxPause
    /\ tokens' = [c \in Client |-> Refilled(tokens[c])]
    /\ idle' = [c \in Client |-> IF idle[c] > IdleLimit THEN idle[c] ELSE idle[c] + 1]
    /\ sweepAge' = IF sweepAge = SweepPeriod THEN sweepAge ELSE sweepAge + 1
    /\ req' = [r \in Request |-> [req[r] EXCEPT !.age = IF req[r].pc = "allow" THEN @ + 1 ELSE @]]
    /\ UNCHANGED <<entries, answer>>

Allow(r) == Admit(r) \/ Refuse(r)

LimiterNext ==
    \/ \E r \in Request : Allow(r) \/ \E c \in Client : Enter(r, c)
    \/ Sweep
    \/ Tick

LimiterSpec == LimiterInit /\ [][LimiterNext]_limiterVars

-----------------------------------------------------------------------------
(* Properties *)

\* The entry a request looked up is still the one of its client when it asks it
\* for a token: a sweep between the mutex and Allow (middleware.go:174-176)
\* never takes it, because looking it up marked it as seen and the pause is
\* shorter than the idle limit.
EntryKept ==
    \A r \in Request : req[r].pc # "idle" => req[r].client \in entries

\* A bucket that is forgotten would be full by then: Burst tokens take no longer
\* than an entry is kept.
FullWhenStale == Full <= Rate * (IdleLimit + 1 - MaxPause)

Bucket == INSTANCE TokenBucket
            WITH level <- [c \in Client |-> IF c \in entries THEN tokens[c] ELSE Full]

\* Forgetting an idle client gives it nothing: the limiter with its map, its
\* mutex and its sweep implements a bucket for each client that is never reset
\* (middleware.go:147-188).
BucketSpec == Bucket!Spec

\* A stale entry is deleted or its client comes back: the sweep never stops
\* looking, so the map does not grow for ever (middleware.go:147-160).
Forgotten ==
    \A c \in Client : c \in Stale ~> c \notin Stale
=============================================================================
