-------------------------- MODULE RateLimiterProofs --------------------------
(***************************************************************************)
(* Proofs about RateLimiter.tla and RateWindow.tla.                        *)
(*                                                                         *)
(* The sweep must only take entries whose bucket is full.  It knows how    *)
(* long ago an entry was looked up; tokens are taken up to MaxPause later. *)
(* The invariant relates the three: a bucket holds at least what it gained *)
(* since MaxPause after its entry was last looked up.                      *)
(***************************************************************************)
EXTENDS RateWindow, TLAPS

\* A request still to ask for its token is not older than its entry's mark.
MarkedSince ==
    \A r \in Request : req[r].pc = "allow" => idle[req[r].client] <= req[r].age

\* What a bucket gained since the last request that could take from it.
Gained ==
    \A c \in entries : tokens[c] = Full \/ tokens[c] >= Rate * (idle[c] - MaxPause)

LimiterInv == LimiterTypeOK /\ EntryKept /\ MarkedSince /\ Gained

-----------------------------------------------------------------------------

\* The capacity of a bucket is at least one token, and both are amounts.
LEMMA FullNat == Full \in Nat /\ Full >= Cost /\ Full >= 1
<1>1. Burst \in Nat /\ Cost \in Nat /\ Burst >= 1 /\ Cost >= 1 /\ Rate \in Nat
    BY RateLimiterAssumption
<1>2. \A x, y \in Nat : x >= 1 => x * y \in Nat /\ x * y >= y
    OBVIOUS
<1> QED BY <1>1, <1>2 DEF Full

\* A product with the rate follows its other factor.
LEMMA RateMonotone ==
    ASSUME NEW x \in Int, NEW y \in Int, x <= y
    PROVE  /\ Rate * x \in Int
           /\ Rate * x <= Rate * y
           /\ Rate * (x + 1) = Rate * x + Rate
           /\ Rate * 0 = 0
<1>1. Rate \in Nat
    BY RateLimiterAssumption
<1>2. PICK d \in Nat : y = x + d
    <2> y - x \in Nat /\ y = x + (y - x)
        OBVIOUS
    <2> QED OBVIOUS
<1>3. Rate * d \in Nat /\ Rate * (x + d) = Rate * x + Rate * d
    BY <1>1
<1> QED BY <1>1, <1>2, <1>3

\* Refilling never loses anything and never passes the capacity.
LEMMA RefilledRange ==
    ASSUME NEW l \in 0..Full
    PROVE  /\ Refilled(l) \in 0..Full
           /\ Refilled(l) = Full \/ Refilled(l) = l + Rate
           /\ Refilled(Full) = Full
BY FullNat, RateLimiterAssumption DEF Refilled

\* The invariant holds at the start.
LEMMA InitInv == LimiterInit => LimiterInv
<1> SUFFICES ASSUME LimiterInit PROVE LimiterInv
    OBVIOUS
<1>1. Full \in 0..Full
    BY FullNat
<1>2. LimiterTypeOK
    <2>2. \A q \in [pc : {"idle"}, client : Client, age : {0}] : q \in ReqState
        BY RateLimiterAssumption DEF ReqState
    <2>3. req \in [Request -> ReqState]
        BY <2>2 DEF LimiterInit
    <2> QED BY <1>1, <2>3, RateLimiterAssumption DEF LimiterInit, LimiterTypeOK
<1> QED BY <1>2 DEF LimiterInit, LimiterInv, EntryKept, MarkedSince, Gained

\* Every step of the limiter preserves the invariant.
LEMMA NextInv ==
    ASSUME LimiterInv, [LimiterNext]_limiterVars
    PROVE  LimiterInv'
<1> USE RateLimiterAssumption, FullNat DEF LimiterInv
<1>1. ASSUME NEW r \in Request, NEW c \in Client, Enter(r, c) PROVE LimiterInv'
    <2>1. LimiterTypeOK'
        BY <1>1 DEF LimiterTypeOK, ReqState, Enter
    <2>2. EntryKept' /\ MarkedSince'
        <3>1. \A q \in Request : \/ q = r /\ req'[q] = [pc |-> "allow", client |-> c, age |-> 0]
                                 \/ q # r /\ req'[q] = req[q]
            <4>1. req \in [Request -> ReqState]
                BY DEF LimiterTypeOK
            <4>2. req' = [req EXCEPT ![r] = [pc |-> "allow", client |-> c, age |-> 0]]
                BY <1>1 DEF Enter
            <4> QED BY <4>1, <4>2
        <3>2. EntryKept'
            BY <1>1, <3>1 DEF Enter, EntryKept
        <3>3. idle'[c] = 0 /\ \A d \in Client : d # c => idle'[d] = idle[d]
            BY <1>1 DEF LimiterTypeOK, Enter
        <3>4. \A q \in Request : req[q].client \in Client /\ req[q].age \in Nat
            BY DEF LimiterTypeOK, ReqState
        <3>5. MarkedSince'
            BY <3>1, <3>3, <3>4 DEF MarkedSince
        <3> QED BY <3>2, <3>5
    <2>3. Rate * (0 - MaxPause) <= 0
        <3>1. Rate * (0 - MaxPause) <= Rate * 0 /\ Rate * 0 = 0
            BY RateMonotone
        <3> QED BY <3>1
    <2>4. Gained'
        <3> SUFFICES ASSUME NEW d \in entries'
                     PROVE  tokens'[d] = Full \/ tokens'[d] >= Rate * (idle'[d] - MaxPause)
            BY DEF Gained
        <3>1. CASE d = c
            <4>1. tokens'[c] \in Nat /\ idle'[c] = 0
                BY <1>1, <2>1 DEF LimiterTypeOK, Enter
            <4>2. Rate * (0 - MaxPause) \in Int
                BY RateMonotone
            <4> QED BY <3>1, <4>1, <4>2, <2>3
        <3>2. CASE d # c
            BY <1>1, <3>2 DEF LimiterTypeOK, Enter, Gained
        <3> QED BY <3>1, <3>2
    <2> QED BY <2>1, <2>2, <2>4
<1>2. ASSUME NEW r \in Request, Admit(r) PROVE LimiterInv'
    <2> DEFINE c == req[r].client
    <2>0. c \in Client /\ c \in entries /\ idle[c] <= MaxPause
        BY <1>2 DEF LimiterTypeOK, ReqState, Admit, EntryKept, MarkedSince
    <2>1. LimiterTypeOK'
        <3>1. tokens' \in [Client -> 0..Full]
            BY <1>2, <2>0 DEF LimiterTypeOK, Admit
        <3>2. req' \in [Request -> ReqState]
            BY <1>2, <2>0 DEF LimiterTypeOK, ReqState, Admit, Answer
        <3> QED BY <1>2, <3>1, <3>2 DEF LimiterTypeOK, Admit, Answer
    <2>2. EntryKept' /\ MarkedSince'
        BY <1>2 DEF LimiterTypeOK, Admit, Answer, EntryKept, MarkedSince
    <2>3. Rate * (idle[c] - MaxPause) <= 0
        <3>1. idle[c] - MaxPause \in Int /\ idle[c] - MaxPause <= 0
            BY <2>0 DEF LimiterTypeOK
        <3>2. Rate * (idle[c] - MaxPause) <= Rate * 0 /\ Rate * 0 = 0
            BY <3>1, RateMonotone
        <3> QED BY <3>2
    <2>4. Gained'
        <3> SUFFICES ASSUME NEW d \in entries'
                     PROVE  tokens'[d] = Full \/ tokens'[d] >= Rate * (idle'[d] - MaxPause)
            BY DEF Gained
        <3>1. CASE d = c
            <4>1. tokens'[c] \in Nat /\ idle' = idle
                BY <1>2, <2>0, <2>1 DEF LimiterTypeOK, Admit
            <4>2. Rate * (idle[c] - MaxPause) \in Int
                BY <2>0, RateMonotone DEF LimiterTypeOK
            <4> QED BY <3>1, <4>1, <4>2, <2>3
        <3>2. CASE d # c
            BY <1>2, <3>2 DEF LimiterTypeOK, Admit, Gained
        <3> QED BY <3>1, <3>2
    <2> QED BY <2>1, <2>2, <2>4
<1>3. ASSUME NEW r \in Request, Refuse(r) PROVE LimiterInv'
    <2>1. LimiterTypeOK'
        <3>1. req' \in [Request -> ReqState]
            BY <1>3 DEF LimiterTypeOK, ReqState, Refuse, Answer
        <3> QED BY <1>3, <3>1 DEF LimiterTypeOK, Refuse, Answer
    <2>2. EntryKept' /\ MarkedSince'
        BY <1>3 DEF LimiterTypeOK, Refuse, Answer, EntryKept, MarkedSince
    <2>3. Gained'
        BY <1>3 DEF Refuse, Gained
    <2> QED BY <2>1, <2>2, <2>3
<1>4. ASSUME Sweep PROVE LimiterInv'
    <2>1. LimiterTypeOK'
        BY <1>4 DEF LimiterTypeOK, Sweep
    <2>2. \A r \in Request : req[r].pc = "allow" => req[r].client \notin Stale
        BY DEF LimiterTypeOK, ReqState, EntryKept, MarkedSince, Stale
    <2>3. EntryKept' /\ MarkedSince'
        <3>1. \A r \in Request : req[r].pc # "idle" => req[r].pc = "allow"
            BY DEF LimiterTypeOK, ReqState
        <3> QED BY <1>4, <2>2, <3>1 DEF Sweep, EntryKept, MarkedSince
    <2>4. Gained'
        BY <1>4 DEF Sweep, Gained
    <2> QED BY <2>1, <2>3, <2>4
<1>5. ASSUME Tick PROVE LimiterInv'
    <2>0. \A c \in Client : tokens'[c] = Refilled(tokens[c]) /\ Refilled(tokens[c]) \in 0..Full
        BY <1>5, RefilledRange DEF Tick, LimiterTypeOK
    <2>1. LimiterTypeOK'
        <3>1. tokens' \in [Client -> 0..Full]
            BY <1>5, <2>0 DEF Tick
        <3>2. idle' \in [Client -> 0..(IdleLimit + 1)]
            <4>1. \A c \in Client : idle[c] \in 0..(IdleLimit + 1)
                BY DEF LimiterTypeOK
            <4>2. \A c \in Client : (IF idle[c] > IdleLimit THEN idle[c] ELSE idle[c] + 1) \in 0..(IdleLimit + 1)
                BY <4>1
            <4> QED BY <1>5, <4>2 DEF Tick
        <3>3. req' \in [Request -> ReqState]
            BY <1>5 DEF Tick, LimiterTypeOK, ReqState
        <3>4. sweepAge' \in 0..SweepPeriod
            <4>1. sweepAge \in 0..SweepPeriod
                BY DEF LimiterTypeOK
            <4>2. sweepAge' = IF sweepAge = SweepPeriod THEN sweepAge ELSE sweepAge + 1
                BY <1>5 DEF Tick
            <4> QED BY <4>1, <4>2
        <3> QED BY <1>5, <3>1, <3>2, <3>3, <3>4 DEF Tick, LimiterTypeOK
    <2>2. EntryKept' /\ MarkedSince'
        <3>1. \A r \in Request : /\ req'[r].pc = req[r].pc
                                 /\ req'[r].client = req[r].client
                                 /\ req[r].pc = "allow" => req'[r].age = req[r].age + 1
            BY <1>5 DEF LimiterTypeOK, ReqState, Tick
        <3>2. EntryKept'
            <4>1. entries' = entries
                BY <1>5 DEF Tick
            <4> QED BY <3>1, <4>1 DEF EntryKept
        <3>3. \A c \in Client : idle'[c] <= idle[c] + 1
            BY <1>5 DEF LimiterTypeOK, Tick
        <3>4. \A r \in Request : req[r].client \in Client /\ req[r].age \in Nat /\ idle[req[r].client] \in Nat
            BY DEF LimiterTypeOK, ReqState
        <3>5. \A c \in Client : idle'[c] \in Nat
            BY <2>1 DEF LimiterTypeOK
        <3>6. MarkedSince'
            <4> SUFFICES ASSUME NEW r \in Request, req'[r].pc = "allow"
                         PROVE  idle'[req'[r].client] <= req'[r].age
                BY DEF MarkedSince
            <4>0. req[r].pc = "allow"
                BY <3>1
            <4>1. idle[req[r].client] <= req[r].age
                BY <4>0 DEF MarkedSince
            <4>2. req'[r].age = req[r].age + 1 /\ req'[r].client = req[r].client
                BY <3>1, <4>0
            <4>3. idle'[req[r].client] <= idle[req[r].client] + 1
                BY <3>3, <3>4
            <4>4. idle'[req[r].client] <= req[r].age + 1
                BY <3>4, <3>5, <4>1, <4>3
            <4> QED BY <4>2, <4>4
        <3> QED BY <3>2, <3>6
    <2>3. Gained'
        <3> SUFFICES ASSUME NEW d \in entries
                     PROVE  tokens'[d] = Full \/ tokens'[d] >= Rate * (idle'[d] - MaxPause)
            BY <1>5 DEF Gained, Tick
        <3> DEFINE x == idle[d] - MaxPause
        <3>1. d \in Client /\ idle[d] \in Nat /\ x \in Int /\ tokens[d] \in 0..Full
            BY DEF LimiterTypeOK
        <3>3. idle'[d] - MaxPause = x \/ idle'[d] - MaxPause = x + 1
            BY <1>5, <3>1 DEF Tick
        <3>4. tokens'[d] = Full \/ tokens'[d] = tokens[d] + Rate
            BY <2>0, <3>1, RefilledRange
        <3>5. tokens[d] = Full \/ tokens[d] >= Rate * x
            BY DEF Gained
        <3>6. tokens'[d] \in 0..Full
            BY <2>0, <3>1
        <3> HIDE DEF x
        <3>2. Rate * x \in Int /\ Rate * (x + 1) = Rate * x + Rate
            BY <3>1, RateMonotone
        <3> QED BY <3>1, <3>2, <3>3, <3>4, <3>5, <3>6
    <2> QED BY <2>1, <2>2, <2>3
<1>6. CASE UNCHANGED limiterVars
    BY <1>6 DEF limiterVars, LimiterTypeOK, EntryKept, MarkedSince, Gained
<1> QED BY <1>1, <1>2, <1>3, <1>4, <1>5, <1>6 DEF LimiterNext, Allow

\* The type invariant and EntryKept (middleware.go:165-176): when a request asks
\* for its token, the entry it looked up is in the map.
THEOREM LimiterSafe == LimiterSpec => [](LimiterTypeOK /\ EntryKept)
<1>1. LimiterInv /\ [LimiterNext]_limiterVars => LimiterInv'
    BY NextInv
<1>2. LimiterInv => LimiterTypeOK /\ EntryKept
    BY DEF LimiterInv
<1> QED BY InitInv, <1>1, <1>2, PTL DEF LimiterSpec

\* What a sweep deletes is full: its bucket earned all it can hold since the
\* entry was looked up.
LEMMA StaleIsFull ==
    ASSUME FullWhenStale, LimiterInv, NEW c \in Stale
    PROVE  tokens[c] = Full
<1> USE RateLimiterAssumption, FullNat DEF LimiterInv
<1>1. c \in entries /\ idle[c] = IdleLimit + 1 /\ tokens[c] \in 0..Full
    BY DEF Stale, LimiterTypeOK
<1>2. tokens[c] = Full \/ tokens[c] >= Rate * (IdleLimit + 1 - MaxPause)
    BY <1>1 DEF Gained
<1>3. Rate * (IdleLimit + 1 - MaxPause) \in Int
    BY RateMonotone
<1> QED BY <1>1, <1>2, <1>3 DEF FullWhenStale

-----------------------------------------------------------------------------
(* The refinement *)

\* The initial states are those of the buckets.
LEMMA InitRefines == LimiterInit => Bucket!Init
BY DEF LimiterInit, Bucket!Init, Full, Bucket!Full

\* A step of the limiter is a step of the buckets or changes none.
LEMMA NextRefines ==
    ASSUME FullWhenStale, LimiterInv, [LimiterNext]_limiterVars
    PROVE  [Bucket!Next]_(Bucket!vars)
<1> USE RateLimiterAssumption, FullNat DEF LimiterInv
<1> DEFINE level == [c \in Client |-> IF c \in entries THEN tokens[c] ELSE Full]
<1>1. ASSUME NEW r \in Request, NEW c \in Client, Enter(r, c) PROVE Bucket!Ask(r)
    <2>1. level' = level
        BY <1>1 DEF Enter, LimiterTypeOK
    <2> QED BY <1>1, <2>1 DEF Enter, Bucket!Ask
<1>2. ASSUME NEW r \in Request, Admit(r) PROVE \E c \in Client : Bucket!Admit(r, c)
    <2>1. PICK own \in entries : own = req[r].client /\ own \in Client
        BY <1>2 DEF Admit, EntryKept, LimiterTypeOK, ReqState
    <2>2. level[own] = tokens[own] /\ tokens[own] >= Cost
        BY <1>2, <2>1 DEF Admit
    <2>3. level' = [level EXCEPT ![own] = @ - Cost]
        BY <1>2, <2>1 DEF Admit, LimiterTypeOK
    <2>4. Bucket!Admit(r, own)
        BY <1>2, <2>2, <2>3 DEF Admit, Answer, Bucket!Admit
    <2> QED BY <2>1, <2>4
<1>3. ASSUME NEW r \in Request, Refuse(r) PROVE \E c \in Client : Bucket!Refuse(r, c)
    <2>1. PICK own \in entries : own = req[r].client /\ own \in Client
        BY <1>3 DEF Refuse, EntryKept, LimiterTypeOK, ReqState
    <2>2. Bucket!Refuse(r, own)
        BY <1>3, <2>1 DEF Refuse, Answer, Bucket!Refuse, LimiterTypeOK
    <2> QED BY <2>1, <2>2
<1>4. ASSUME Sweep PROVE UNCHANGED Bucket!vars
    <2>1. \A c \in Stale : tokens[c] = Full
        BY StaleIsFull
    <2>2. level' = level
        BY <1>4, <2>1 DEF Sweep, Stale, LimiterTypeOK
    <2> QED BY <1>4, <2>2 DEF Sweep, Bucket!vars
<1>5. ASSUME Tick PROVE Bucket!Tick
    <2>1. \A l : Bucket!Refilled(l) = Refilled(l)
        BY DEF Bucket!Refilled, Refilled, Bucket!Full, Full
    <2>2. Refilled(Full) = Full
        BY RefilledRange
    <2>3. level' = [c \in Client |-> Refilled(level[c])]
        BY <1>5, <2>2 DEF Tick, LimiterTypeOK
    <2>4. answer' = answer
        BY <1>5 DEF Tick
    <2> QED BY <2>1, <2>3, <2>4 DEF Bucket!Tick
<1>6. CASE UNCHANGED limiterVars
    BY <1>6 DEF limiterVars, Bucket!vars
<1> QED BY <1>1, <1>2, <1>3, <1>4, <1>5, <1>6 DEF LimiterNext, Allow, Bucket!Next

\* BucketSpec (middleware.go:147-188): if Burst tokens take no longer than an
\* entry is kept, forgetting idle clients gives them nothing.
THEOREM LimiterIsBucket ==
    ASSUME FullWhenStale
    PROVE  LimiterSpec => BucketSpec
<1>1. LimiterInv /\ [LimiterNext]_limiterVars => LimiterInv'
    BY NextInv
<1>2. LimiterInv /\ [LimiterNext]_limiterVars => [Bucket!Next]_(Bucket!vars)
    BY NextRefines
<1> QED BY InitInv, InitRefines, <1>1, <1>2, PTL DEF LimiterSpec, BucketSpec, Bucket!Spec

-----------------------------------------------------------------------------
(* Any window of time *)

\* What a client could take at once: a client without an entry gets a full bucket.
Level(c) == IF c \in entries THEN tokens[c] ELSE Full

\* What was taken in the window and what is left were there or earned in it.
WindowInv ==
    /\ taken \in [Client -> Nat]
    /\ elapsed \in Nat
    /\ \A c \in Client : Cost * taken[c] + Level(c) <= Full + Rate * elapsed

\* Amounts of one more token, and of one more unit of time.
LEMMA OneMore ==
    ASSUME NEW n \in Nat
    PROVE  /\ Cost * n \in Nat /\ Cost * (n + 1) = Cost * n + Cost /\ Cost * 0 = 0
           /\ Rate * n \in Nat /\ Rate * (n + 1) = Rate * n + Rate /\ Rate * 0 = 0
<1>1. \A x, y \in Nat : x * y \in Nat /\ x * (y + 1) = x * y + x /\ x * 0 = 0
    OBVIOUS
<1> QED BY <1>1, RateLimiterAssumption

\* What a client could take is never more than the capacity.
LEMMA LevelRange ==
    ASSUME LimiterTypeOK, NEW c \in Client
    PROVE  Level(c) \in 0..Full
BY FullNat DEF LimiterTypeOK, Level

\* A window that begins has all of it before it.
LEMMA WindowBegins ==
    ASSUME LimiterTypeOK, taken = [c \in Client |-> 0], elapsed = 0
    PROVE  WindowInv
<1>1. \A c \in Client : Cost * taken[c] = 0 /\ Level(c) \in 0..Full
    BY OneMore, LevelRange
<1>2. Rate * elapsed = 0
    BY OneMore
<1> QED BY <1>1, <1>2, FullNat DEF WindowInv

\* Every step of the window is one of the limiter, or none.
LEMMA WindowLimits == [WindowNext]_windowVars => [LimiterNext]_limiterVars
BY DEF WindowNext, windowVars, Begin, CountedAdmit, CountedTick, Uncounted, LimiterNext, Allow

\* What is taken leaves the bucket, what is gained needs its time, and whoever is
\* forgotten had a full bucket.
LEMMA WindowStep ==
    ASSUME FullWhenStale, LimiterInv, LimiterInv', WindowInv, [WindowNext]_windowVars
    PROVE  WindowInv'
<1> USE FullNat, RateLimiterAssumption
<1>1. /\ taken \in [Client -> Nat] /\ elapsed \in Nat /\ LimiterTypeOK
      /\ \A c \in Client : Level(c) \in 0..Full /\ Level(c)' \in 0..Full
    BY LevelRange DEF WindowInv, LimiterInv, Level, LimiterTypeOK
<1>2. /\ Rate * elapsed \in Nat
      /\ \A c \in Client : /\ Cost * taken[c] \in Nat
                            /\ Cost * taken[c] + Level(c) <= Full + Rate * elapsed
    BY <1>1, OneMore DEF WindowInv
<1>3. CASE Begin
    <2>1. taken' = [c \in Client |-> 0] /\ elapsed' = 0
        BY <1>3 DEF Begin
    <2>2. \A c \in Client : Cost * taken'[c] = 0
        BY <2>1, OneMore
    <2>3. Rate * elapsed' = 0
        BY <2>1, OneMore
    <2> QED BY <1>1, <2>1, <2>2, <2>3 DEF WindowInv
<1>4. ASSUME NEW r \in Request, CountedAdmit(r) PROVE WindowInv'
    <2>1. PICK own \in entries : own = req[r].client /\ own \in Client
        BY <1>4 DEF CountedAdmit, Admit, LimiterInv, EntryKept, LimiterTypeOK, ReqState
    <2>2. /\ taken' = [taken EXCEPT ![own] = @ + 1] /\ elapsed' = elapsed /\ entries' = entries
          /\ tokens' = [tokens EXCEPT ![own] = @ - Cost]
        BY <1>4, <2>1 DEF CountedAdmit, Admit
    <2>3. taken' \in [Client -> Nat]
        <3>1. taken[own] + 1 \in Nat
            BY <1>1, <2>1
        <3> QED BY <1>1, <2>2, <3>1
    <2>4. Cost * taken'[own] = Cost * taken[own] + Cost /\ Level(own)' = Level(own) - Cost
        <3>1. Cost * (taken[own] + 1) = Cost * taken[own] + Cost
            BY <1>1, <2>1, OneMore
        <3> QED BY <1>1, <2>1, <2>2, <3>1 DEF Level, LimiterTypeOK
    <2>5. \A c \in Client \ {own} : taken'[c] = taken[c] /\ Level(c)' = Level(c)
        BY <1>1, <2>2 DEF Level, LimiterTypeOK
    <2>6. ASSUME NEW c \in Client PROVE Cost * taken'[c] + Level(c)' <= Full + Rate * elapsed
        <3>1. CASE c = own
            BY <1>1, <1>2, <2>4, <3>1
        <3>2. CASE c # own
            BY <1>2, <2>5, <3>2
        <3> QED BY <3>1, <3>2
    <2> QED BY <1>1, <2>2, <2>3, <2>6 DEF WindowInv
<1>5. CASE CountedTick
    <2>1. taken' = taken /\ elapsed' = elapsed + 1
        BY <1>5 DEF CountedTick
    <2>2. Rate * elapsed' = Rate * elapsed + Rate
        BY <1>1, <2>1, OneMore
    <2>3. \A c \in Client : Level(c)' <= Level(c) + Rate
        <3> SUFFICES ASSUME NEW c \in Client PROVE Level(c)' <= Level(c) + Rate
            OBVIOUS
        <3>1. entries' = entries /\ tokens'[c] = Refilled(tokens[c]) /\ tokens[c] \in 0..Full
            BY <1>1, <1>5 DEF CountedTick, Tick, LimiterTypeOK
        <3> QED BY <3>1 DEF Level, Refilled
    <2> QED BY <1>1, <1>2, <2>1, <2>2, <2>3 DEF WindowInv
<1>6. CASE Uncounted
    <2>1. taken' = taken /\ elapsed' = elapsed
        BY <1>6 DEF Uncounted
    <2>2. \A c \in Client : Level(c)' = Level(c)
        <3>1. ASSUME NEW r \in Request, Refuse(r) PROVE \A c \in Client : Level(c)' = Level(c)
            BY <3>1 DEF Refuse, Level
        <3>2. ASSUME NEW r \in Request, NEW d \in Client, Enter(r, d)
              PROVE  \A c \in Client : Level(c)' = Level(c)
            BY <1>1, <3>2 DEF Enter, Level, LimiterTypeOK
        <3>3. ASSUME Sweep PROVE \A c \in Client : Level(c)' = Level(c)
            <4>1. \A c \in Stale : tokens[c] = Full
                BY StaleIsFull
            <4> QED BY <3>3, <4>1 DEF Sweep, Level
        <3> QED BY <1>6, <3>1, <3>2, <3>3 DEF Uncounted
    <2> QED BY <1>1, <2>1, <2>2 DEF WindowInv
<1>7. CASE UNCHANGED windowVars
    BY <1>7 DEF windowVars, limiterVars, WindowInv, Level
<1> QED BY <1>3, <1>4, <1>5, <1>6, <1>7 DEF WindowNext

\* The rate (middleware.go:142-188): in any window of time no client is admitted
\* more often than its burst and its rate allow, whatever the sweep forgets
\* meanwhile, for any number of clients and requests and any window.
THEOREM RateKept ==
    ASSUME FullWhenStale
    PROVE  WindowSpec => []WithinRate
<1> DEFINE Inv == LimiterInv /\ WindowInv
<1>1. WindowInit => Inv
    BY InitInv, WindowBegins DEF WindowInit, LimiterInv
<1>2. Inv /\ [WindowNext]_windowVars => Inv'
    BY NextInv, WindowLimits, WindowStep
<1>3. Inv => WithinRate
    <2> SUFFICES ASSUME Inv, NEW c \in Client PROVE Cost * taken[c] <= Full + Rate * elapsed
        BY DEF WithinRate
    <2>1. /\ Level(c) \in Nat /\ Cost * taken[c] \in Nat /\ Rate * elapsed \in Nat
          /\ Cost * taken[c] + Level(c) <= Full + Rate * elapsed
        BY LevelRange, OneMore DEF LimiterInv, WindowInv
    <2> QED BY <2>1, FullNat
<1> QED BY <1>1, <1>2, <1>3, PTL DEF WindowSpec
=============================================================================
