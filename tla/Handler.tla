------------------------------ MODULE Handler ------------------------------
(***************************************************************************)
(* The chain every request takes (internal/api/router.go, middleware.go):  *)
(* recovery, headers, logging, the list of allowed addresses, the limiter  *)
(* (RateLimiter.tla), the deadline and the body limit, the outer mux with  *)
(* its public routes, authentication, the inner mux and a handler.         *)
(*                                                                         *)
(* Middlewares that neither answer a request nor change a state others see *)
(* are passed without a step: headers, the deadline and the body limit     *)
(* appear in what a handler may answer.  What happens in the store is in   *)
(* Requests.tla.                                                           *)
(***************************************************************************)
EXTENDS RateLimiter

CONSTANTS
    Allowed,    \* the clients of auth.allowed_ips, all if there are none
    Route       \* the routes that are asked for, "other" for none of the server's

Public == {"health", "openapi"}

ASSUME HandlerAssumption ==
    /\ Allowed \subseteq Client
    /\ Route \subseteq Public \cup {"version", "databases", "tables", "table", "sql", "other"}
    /\ Route # {}

VARIABLE call   \* the request of each goroutine: how far it is, and its answer

vars == <<limiterVars, call>>

\* by is what lets a request pass to its handler: a public route or a key;
\* wrote counts the calls of WriteHeader, whose first is the status; logged is
\* the status of the log line, if there was one.
Call == [at : {"off", "allow", "limit", "bucket", "mux", "auth", "delay", "handler", "panic", "done"},
         peer : Client, by : {"none", "public", "key"}, wrote : 0..2, status : Nat, logged : Nat]

TypeOK ==
    /\ LimiterTypeOK
    /\ call \in [Request -> Call]

Init ==
    /\ LimiterInit
    /\ \E c \in Client :
          call = [r \in Request |-> [at |-> "off", peer |-> c, by |-> "none",
                                     wrote |-> 0, status |-> 0, logged |-> 0]]

-----------------------------------------------------------------------------

\* Mutant: the limiter is outside of the list of allowed addresses.
Chain_LimitFirst == [logging |-> "limit", limit |-> "allow", allow |-> "mux"]

\* What each middleware wraps (Server.Handler).
Chain == [logging |-> "allow", allow |-> "limit", limit |-> "mux"]

At(r, where) == call[r].at = where

Goes(r, where) == call' = [call EXCEPT ![r].at = where]

\* One WriteHeader more, of which the first counts, and the return: the log line
\* tells what was last asked for.
Ended(c, status, logged) ==
    [c EXCEPT !.at = "done", !.wrote = @ + 1,
              !.status = IF c.wrote = 0 THEN status ELSE @, !.logged = logged]

\* writeJSON or writeError and the return through the logging middleware.
Answers(r, status) == call' = [call EXCEPT ![r] = Ended(@, status, status)]

Arrive(r, c) ==
    /\ At(r, "off") \/ At(r, "done")
    /\ call' = [call EXCEPT ![r] = [at |-> Chain.logging, peer |-> c, by |-> "none",
                                    wrote |-> 0, status |-> 0, logged |-> 0]]
    /\ UNCHANGED limiterVars

PassAddress(r) ==
    /\ At(r, "allow")
    /\ call[r].peer \in Allowed
    /\ Goes(r, Chain.allow)
    /\ UNCHANGED limiterVars

RejectAddress(r) ==
    /\ At(r, "allow")
    /\ call[r].peer \notin Allowed
    /\ Answers(r, 403)
    /\ UNCHANGED limiterVars

EnterLimiter(r) ==
    /\ At(r, "limit")
    /\ Enter(r, call[r].peer)
    /\ Goes(r, "bucket")

LeaveLimiter(r) ==
    /\ At(r, "bucket")
    /\ \/ Admit(r) /\ Goes(r, Chain.limit)
       \/ Refuse(r) /\ Answers(r, 429)

Passes(r, by) == call' = [call EXCEPT ![r].at = "handler", ![r].by = by]

\* Mutant: the outer mux hands over to the chain it is part of.
Dispatch_Recurses(r) ==
    /\ At(r, "mux")
    /\ \/ Route \cap Public # {} /\ Passes(r, "public")
       \/ Route \ Public # {} /\ Goes(r, Chain.logging)
    /\ UNCHANGED limiterVars

\* The outer mux: public routes are not authenticated.
Dispatch(r) ==
    /\ At(r, "mux")
    /\ \/ Route \cap Public # {} /\ Passes(r, "public")
       \/ Route \ Public # {} /\ Goes(r, "auth")
    /\ UNCHANGED limiterVars

\* Or the outer mux answers itself, by the address as it should be written.
Redirect(r) ==
    /\ At(r, "mux")
    /\ \E status \in {301, 307} : Answers(r, status)
    /\ UNCHANGED limiterVars

\* The key is one of auth.keys.
Authenticated(r) ==
    /\ At(r, "auth")
    /\ Passes(r, "key")
    /\ UNCHANGED limiterVars

\* A wrong key or none: the answer comes after a delay.
AuthFails(r) ==
    /\ At(r, "auth")
    /\ Goes(r, "delay")
    /\ UNCHANGED limiterVars

\* Mutant: no return after the answer.
Unauthorized_NoReturn(r) ==
    /\ At(r, "delay")
    /\ call' = [call EXCEPT ![r] = [Ended(@, 401, 401) EXCEPT !.at = "handler"]]
    /\ UNCHANGED limiterVars

Unauthorized(r) ==
    /\ At(r, "delay")
    /\ Answers(r, 401)
    /\ UNCHANGED limiterVars

\* What a handler may answer: an unknown alias is 404, a failed store 500, a
\* statement that is refused 403, a body that cannot be read 400; the inner mux
\* answers what it does not know.
Statuses(route) ==
    CASE route \in Public \cup {"version", "databases"} -> {200}
      [] route \in {"tables", "table"} -> {200, 404, 500}
      [] route = "sql" -> {200, 400, 403, 404, 500}
      [] route = "other" -> {301, 307, 404, 405}

Handled(r) == IF call[r].by = "public" THEN Route \cap Public ELSE Route \ Public

Handle(r) ==
    /\ At(r, "handler")
    /\ \E route \in Handled(r) : \E status \in Statuses(route) : Answers(r, status)
    /\ UNCHANGED limiterVars

\* The store panics; no handler has written anything by then.
Panic(r) ==
    /\ At(r, "handler")
    /\ Handled(r) \cap {"health", "databases", "tables", "table", "sql"} # {}
    /\ Goes(r, "panic")
    /\ UNCHANGED limiterVars

\* The recovery middleware, outside of the one that logs.
Recover(r) ==
    /\ At(r, "panic")
    /\ call' = [call EXCEPT ![r] = Ended(@, 500, @.logged)]
    /\ UNCHANGED limiterVars

Serve(r) ==
    \/ PassAddress(r) \/ RejectAddress(r) \/ EnterLimiter(r) \/ LeaveLimiter(r)
    \/ Dispatch(r) \/ Redirect(r) \/ Authenticated(r) \/ AuthFails(r) \/ Unauthorized(r)
    \/ Handle(r) \/ Panic(r) \/ Recover(r)

Next ==
    \/ \E r \in Request : \/ Serve(r)
                          \/ \E c \in Client : Arrive(r, c)
    \/ (Sweep \/ Tick) /\ UNCHANGED call

Spec == Init /\ [][Next]_vars

\* Time passes and the goroutines run; that a handler ends is Answered of
\* Requests.tla.
FairSpec ==
    /\ Spec
    /\ WF_vars(Tick /\ UNCHANGED call) /\ WF_vars(Sweep /\ UNCHANGED call)
    /\ \A r \in Request : WF_vars(Serve(r))

-----------------------------------------------------------------------------
(* Properties *)

\* Every request that ended was answered by one WriteHeader, and its log line,
\* which only a panic prevents, tells the status that was sent: no branch goes
\* on after its answer, and recovery does not answer a second time
\* (router.go:94-101, middleware.go:48-58, 181-184 and 227-241).
AnsweredOnce ==
    \A r \in Request : At(r, "done") =>
        /\ call[r].wrote = 1
        /\ call[r].logged = call[r].status \/ (call[r].logged = 0 /\ call[r].status = 500)

\* No address takes a place in the limiter's map unless it is allowed, and what
\* is behind the limiter is reached by requests that paid a token only: so is
\* every try of a key, and every handler but the public ones is reached with a
\* key (router.go:79-101).
Guarded ==
    /\ entries \subseteq Allowed
    /\ \A r \in Request : call[r].at \in {"auth", "delay", "handler", "panic"} =>
          /\ call[r].peer \in Allowed
          /\ answer[r] = "admitted" /\ req[r].client = call[r].peer
          /\ call[r].at \in {"handler", "panic"} => call[r].by # "none"

\* Every request is answered, whatever others do to the limiter's map.
Served == \A r \in Request : ~At(r, "off") ~> At(r, "done")

=============================================================================
