---------------------------- MODULE TokenBucket ----------------------------
(***************************************************************************)
(* What per-client rate limiting promises: every client has a token bucket *)
(* of its own that is never reset.  It holds up to Burst tokens and gains  *)
(* Rate/Cost tokens for each unit of time; a request takes one token or is *)
(* refused.  Amounts are counted in parts of which Cost make a token.      *)
(* RateLimiter.tla implements this.                                        *)
(***************************************************************************)
EXTENDS Integers

CONSTANTS
    Client,     \* client addresses
    Request,    \* goroutines that serve requests, one after another
    Rate, Cost, Burst

VARIABLES
    level,      \* what is in the bucket of each client
    answer      \* what the request under way was told

vars == <<level, answer>>

Full == Burst * Cost

\* What the bucket holds one unit of time later.
Refilled(l) == IF l + Rate > Full THEN Full ELSE l + Rate

Init ==
    /\ level = [c \in Client |-> Full]
    /\ answer = [r \in Request |-> "none"]

Tick ==
    /\ level' = [c \in Client |-> Refilled(level[c])]
    /\ UNCHANGED answer

Ask(r) ==
    /\ answer' = [answer EXCEPT ![r] = "none"]
    /\ UNCHANGED level

Admit(r, c) ==
    /\ level[c] >= Cost
    /\ level' = [level EXCEPT ![c] = @ - Cost]
    /\ answer' = [answer EXCEPT ![r] = "admitted"]

Refuse(r, c) ==
    /\ level[c] < Cost
    /\ answer' = [answer EXCEPT ![r] = "refused"]
    /\ UNCHANGED level

Next ==
    \/ Tick
    \/ \E r \in Request : Ask(r) \/ \E c \in Client : Admit(r, c) \/ Refuse(r, c)

Spec == Init /\ [][Next]_vars
=============================================================================
