----------------------------- MODULE RateWindow -----------------------------
(***************************************************************************)
(* What a limit per client means to somebody who counts requests: within   *)
(* any window of time a client is admitted as often as its bucket allows   *)
(* that is full at the start, and no more.  The limiter of RateLimiter.tla *)
(* takes its steps with a window beside it, that begins at any moment and  *)
(* remembers what was admitted since.                                      *)
(***************************************************************************)
EXTENDS RateLimiter

VARIABLES
    taken,      \* how many requests of each client were admitted in the window
    elapsed     \* how much time passed in it

windowVars == <<limiterVars, taken, elapsed>>

WindowInit ==
    /\ LimiterInit
    /\ taken = [c \in Client |-> 0]
    /\ elapsed = 0

\* Another window begins.
Begin ==
    /\ taken' = [c \in Client |-> 0]
    /\ elapsed' = 0
    /\ UNCHANGED limiterVars

CountedAdmit(r) ==
    /\ Admit(r)
    /\ taken' = [taken EXCEPT ![req[r].client] = @ + 1]
    /\ UNCHANGED elapsed

CountedTick ==
    /\ Tick
    /\ elapsed' = elapsed + 1
    /\ UNCHANGED taken

Uncounted ==
    /\ \/ \E r \in Request : Refuse(r) \/ \E c \in Client : Enter(r, c)
       \/ Sweep
    /\ UNCHANGED <<taken, elapsed>>

WindowNext ==
    \/ Begin
    \/ \E r \in Request : CountedAdmit(r)
    \/ CountedTick
    \/ Uncounted

WindowSpec == WindowInit /\ [][WindowNext]_windowVars

\* Within any window a client gets the burst and what its rate earned in the
\* meantime (middleware.go:142-188), also when its entry was deleted and made
\* anew within the window.
WithinRate ==
    \A c \in Client : Cost * taken[c] <= Full + Rate * elapsed
=============================================================================
