---------------------------- MODULE HandlerProofs ----------------------------
(***************************************************************************)
(* Proofs about Handler.tla.                                               *)
(*                                                                         *)
(* The chain of middlewares only uses the limiter through its operations,  *)
(* so that what RateLimiterProofs.tla proves of the limiter holds in it.   *)
(* What it promises itself depends on the order of the middlewares: the    *)
(* invariant says what a request went through where it is.                 *)
(***************************************************************************)
EXTENDS Handler, RateLimiterProofs

\* A request in the chain has no answer, and what is behind the list of
\* addresses is reached by the allowed ones.
Unanswered ==
    \A r \in Request : call[r].at \notin {"off", "done"} =>
        call[r].wrote = 0 /\ call[r].logged = 0

BehindList ==
    \A r \in Request : call[r].at \in {"limit", "bucket", "mux", "auth", "delay", "handler", "panic"} =>
        call[r].peer \in Allowed

\* The limiter is asked for the address the request came from.
AskedFor ==
    \A r \in Request : call[r].at \in {"bucket", "mux", "auth", "delay", "handler", "panic"} =>
        req[r].client = call[r].peer

\* What is behind the limiter was admitted by it.
BehindLimiter ==
    \A r \in Request : call[r].at \in {"mux", "auth", "delay", "handler", "panic"} =>
        answer[r] = "admitted"

LetBy ==
    \A r \in Request : call[r].at \in {"handler", "panic"} => call[r].by # "none"

ChainInv ==
    /\ TypeOK
    /\ entries \subseteq Allowed
    /\ Unanswered /\ AnsweredOnce
    /\ BehindList /\ AskedFor /\ BehindLimiter /\ LetBy

-----------------------------------------------------------------------------

\* A step of a request touches the limiter by an operation of it, or not.
LEMMA StepLimits ==
    ASSUME TypeOK, [Next]_vars
    PROVE  [LimiterNext]_limiterVars
<1>1. ASSUME NEW r \in Request, Serve(r) PROVE [LimiterNext]_limiterVars
    <2>1. CASE EnterLimiter(r)
        <3>1. call[r].peer \in Client
            BY DEF TypeOK, Call
        <3> QED BY <3>1, <2>1 DEF EnterLimiter, LimiterNext
    <2>2. CASE LeaveLimiter(r)
        BY <2>2 DEF LeaveLimiter, LimiterNext, Allow
    <2>3. CASE ~EnterLimiter(r) /\ ~LeaveLimiter(r)
        BY <1>1, <2>3 DEF Serve, PassAddress, RejectAddress, Dispatch, Redirect, Authenticated,
                          AuthFails, Unauthorized, Handle, Panic, Recover
    <2> QED BY <2>1, <2>2, <2>3
<1>2. ASSUME NEW r \in Request, NEW c \in Client, Arrive(r, c) PROVE [LimiterNext]_limiterVars
    BY <1>2 DEF Arrive
<1>3. CASE Sweep \/ Tick
    BY <1>3 DEF LimiterNext
<1>4. CASE UNCHANGED vars
    BY <1>4 DEF vars
<1> QED BY <1>1, <1>2, <1>3, <1>4 DEF Next

-----------------------------------------------------------------------------

\* The invariant holds at the start.
LEMMA InitChain == Init => ChainInv
<1> SUFFICES ASSUME Init PROVE ChainInv
    OBVIOUS
<1>1. LimiterTypeOK
    BY InitInv DEF Init, LimiterInv
<1>2. PICK c \in Client :
          call = [r \in Request |-> [at |-> "off", peer |-> c, by |-> "none",
                                     wrote |-> 0, status |-> 0, logged |-> 0]]
    BY DEF Init
<1>3. call \in [Request -> Call]
    BY <1>2 DEF Call
<1>4. \A r \in Request : call[r].at = "off"
    BY <1>2
<1>5. entries = {}
    BY DEF Init, LimiterInit
<1> QED BY <1>1, <1>3, <1>4, <1>5
        DEF ChainInv, TypeOK, Unanswered, AnsweredOnce, At, BehindList, AskedFor,
            BehindLimiter, LetBy

\* What one step of a request does to the record of its call.
LEMMA CallStep ==
    ASSUME NEW r \in Request, call \in [Request -> Call], NEW new, new \in Call,
           call' = [call EXCEPT ![r] = new]
    PROVE  /\ call' \in [Request -> Call]
           /\ call'[r] = new
           /\ \A q \in Request : q # r => call'[q] = call[q]
OBVIOUS

\* A step that leaves the limiter alone preserves the invariant if the new
\* record of the call is as the invariant wants it.
LEMMA OutsideLimiter ==
    ASSUME ChainInv, UNCHANGED limiterVars,
           NEW r \in Request, NEW new, new \in Call, call' = [call EXCEPT ![r] = new],
           new.at \notin {"off", "done"} => new.wrote = 0 /\ new.logged = 0,
           new.at = "done" => /\ new.wrote = 1
                              /\ new.logged = new.status \/ (new.logged = 0 /\ new.status = 500),
           new.at \in {"limit", "bucket", "mux", "auth", "delay", "handler", "panic"} => new.peer \in Allowed,
           new.at \in {"bucket", "mux", "auth", "delay", "handler", "panic"} => req[r].client = new.peer,
           new.at \in {"mux", "auth", "delay", "handler", "panic"} => answer[r] = "admitted",
           new.at \in {"handler", "panic"} => new.by # "none"
    PROVE  ChainInv'
<1>1. /\ call' \in [Request -> Call]
      /\ call'[r] = new
      /\ \A q \in Request : q # r => call'[q] = call[q]
    BY CallStep DEF ChainInv, TypeOK
<1>2. entries' = entries /\ req' = req /\ answer' = answer /\ LimiterTypeOK'
    BY DEF limiterVars, ChainInv, TypeOK, LimiterTypeOK
<1>3. Unanswered' /\ AnsweredOnce'
    BY <1>1 DEF ChainInv, Unanswered, AnsweredOnce, At
<1>4. BehindList' /\ AskedFor' /\ BehindLimiter' /\ LetBy'
    BY <1>1, <1>2 DEF ChainInv, BehindList, AskedFor, BehindLimiter, LetBy
<1> QED BY <1>1, <1>2, <1>3, <1>4 DEF ChainInv, TypeOK

-----------------------------------------------------------------------------


\* What a handler answers is a status.
LEMMA StatusNat ==
    ASSUME NEW r \in Request, NEW route \in Handled(r), NEW status \in Statuses(route)
    PROVE  status \in Nat
<1>1. route \in Public \cup {"version", "databases", "tables", "table", "sql", "other"}
    BY HandlerAssumption DEF Handled
<1> QED BY <1>1 DEF Statuses, Public

\* The record of a call that had no answer and ends with one.
LEMMA EndedOnce ==
    ASSUME NEW c \in Call, c.wrote = 0, NEW status \in Nat, NEW logged \in Nat
    PROVE  /\ Ended(c, status, logged) \in Call
           /\ Ended(c, status, logged).at = "done"
           /\ Ended(c, status, logged).wrote = 1
           /\ Ended(c, status, logged).status = status
           /\ Ended(c, status, logged).logged = logged
           /\ Ended(c, status, logged).peer = c.peer
<1> DEFINE end == Ended(c, status, logged)
<1>1. end = [c EXCEPT !.at = "done", !.wrote = 1, !.status = status, !.logged = logged]
    BY DEF Ended, Call
<1>2. end.at = "done" /\ end.wrote = 1
    BY <1>1 DEF Call
<1>3. end.status = status /\ end.logged = logged /\ end.peer = c.peer
    BY <1>1 DEF Call
<1>4. end \in Call
    <2>1. c.peer \in Client /\ c.by \in {"none", "public", "key"}
        BY DEF Call
    <2>2. end = [at |-> "done", peer |-> c.peer, by |-> c.by,
                 wrote |-> 1, status |-> status, logged |-> logged]
        BY <1>1, <1>2, <1>3 DEF Call
    <2> QED BY <2>1, <2>2 DEF Call
<1> QED BY <1>2, <1>3, <1>4

\* A request that is refused where it stands is answered once.
LEMMA AnswerPreserves ==
    ASSUME ChainInv, UNCHANGED limiterVars, NEW r \in Request, NEW status \in Nat,
           call[r].at \notin {"off", "done"}, Answers(r, status)
    PROVE  ChainInv'
<1> DEFINE new == Ended(call[r], status, status)
<1>1. call[r] \in Call /\ call[r].wrote = 0
    BY DEF ChainInv, TypeOK, Unanswered
<1>2. /\ new \in Call /\ new.at = "done" /\ new.wrote = 1
      /\ new.logged = status /\ new.status = status
    BY <1>1, EndedOnce
<1>3. call' = [call EXCEPT ![r] = new]
    BY DEF Answers
<1> HIDE DEF new
<1> QED BY <1>2, <1>3, OutsideLimiter

\* Every step of the chain preserves the invariant.
LEMMA NextChain ==
    ASSUME ChainInv, [Next]_vars, LimiterInv, LimiterInv'
    PROVE  ChainInv'
<1>0. /\ call \in [Request -> Call] /\ LimiterTypeOK /\ LimiterTypeOK'
      /\ \A r \in Request : call[r] \in Call
    BY DEF ChainInv, TypeOK, LimiterInv
<1>1. ASSUME NEW r \in Request, NEW c \in Client, Arrive(r, c) PROVE ChainInv'
    <2> DEFINE new == [at |-> "allow", peer |-> c, by |-> "none",
                       wrote |-> 0, status |-> 0, logged |-> 0]
    <2>1. new \in Call
        BY DEF Call
    <2>2. call' = [call EXCEPT ![r] = new] /\ UNCHANGED limiterVars
        BY <1>1 DEF Arrive, Chain
    <2> QED BY <2>1, <2>2, OutsideLimiter
<1>2. ASSUME NEW r \in Request, PassAddress(r) PROVE ChainInv'
    <2> DEFINE new == [call[r] EXCEPT !.at = "limit"]
    <2>1. /\ new \in Call /\ new.at = "limit" /\ new.wrote = 0 /\ new.logged = 0
          /\ new.peer \in Allowed
        BY <1>0, <1>2 DEF Call, PassAddress, At, ChainInv, Unanswered
    <2>2. call' = [call EXCEPT ![r] = new] /\ UNCHANGED limiterVars
        BY <1>2 DEF PassAddress, Goes, Chain
    <2> HIDE DEF new
    <2> QED BY <2>1, <2>2, OutsideLimiter
<1>3. ASSUME NEW r \in Request, RejectAddress(r) \/ Redirect(r) \/ Unauthorized(r) \/ Handle(r) PROVE ChainInv'
    <2>1. PICK status \in Nat : Answers(r, status)
        BY <1>3, StatusNat DEF RejectAddress, Redirect, Unauthorized, Handle
    <2>2. UNCHANGED limiterVars /\ call[r].at \notin {"off", "done"}
        BY <1>3 DEF RejectAddress, Redirect, Unauthorized, Handle, At
    <2> QED BY <2>1, <2>2, AnswerPreserves
<1>4. ASSUME NEW r \in Request, EnterLimiter(r) PROVE ChainInv'
    <2> DEFINE c == call[r].peer
    <2>1. /\ c \in Client /\ c \in Allowed
          /\ call' = [call EXCEPT ![r] = [call[r] EXCEPT !.at = "bucket"]]
        BY <1>0, <1>4 DEF EnterLimiter, At, Goes, Call, ChainInv, BehindList
    <2>2. PICK new \in Call : /\ call' = [call EXCEPT ![r] = new]
                              /\ new.at = "bucket" /\ new.peer = c
                              /\ new.wrote = 0 /\ new.logged = 0
        <3>1. /\ [call[r] EXCEPT !.at = "bucket"] \in Call
              /\ [call[r] EXCEPT !.at = "bucket"].at = "bucket"
              /\ [call[r] EXCEPT !.at = "bucket"].peer = c
              /\ [call[r] EXCEPT !.at = "bucket"].wrote = 0
              /\ [call[r] EXCEPT !.at = "bucket"].logged = 0
            BY <1>0, <1>4 DEF Call, EnterLimiter, At, ChainInv, Unanswered
        <3> QED BY <2>1, <3>1
    <2>3. /\ call' \in [Request -> Call]
          /\ call'[r] = new
          /\ \A q \in Request : q # r => call'[q] = call[q]
        BY <1>0, <2>2, CallStep
    <2>5. /\ req'[r].client = c
          /\ \A q \in Request : q # r => req'[q] = req[q] /\ answer'[q] = answer[q]
        <3>1. req' = [req EXCEPT ![r] = [pc |-> "allow", client |-> c, age |-> 0]]
            BY <1>4 DEF EnterLimiter, Enter
        <3>2. answer' = [answer EXCEPT ![r] = "none"]
            BY <1>4 DEF EnterLimiter, Enter
        <3> QED BY <1>0, <3>1, <3>2 DEF LimiterTypeOK
    <2>6. (entries \subseteq Allowed)'
        BY <1>4, <2>1 DEF EnterLimiter, Enter, ChainInv
    <2>7. Unanswered' /\ AnsweredOnce'
        BY <2>2, <2>3 DEF ChainInv, Unanswered, AnsweredOnce, At
    <2>8. BehindList' /\ AskedFor' /\ BehindLimiter' /\ LetBy'
        BY <2>1, <2>2, <2>3, <2>5 DEF ChainInv, BehindList, AskedFor, BehindLimiter, LetBy
    <2> QED BY <1>0, <2>3, <2>6, <2>7, <2>8 DEF ChainInv, TypeOK
<1>5. ASSUME NEW r \in Request, LeaveLimiter(r) PROVE ChainInv'
    <2>0. At(r, "bucket") /\ call[r].wrote = 0 /\ call[r].logged = 0
        BY <1>5 DEF LeaveLimiter, At, ChainInv, Unanswered
    <2>1. PICK new \in Call :
            /\ call' = [call EXCEPT ![r] = new] /\ new.peer = call[r].peer
            /\ \/ /\ new.at = "mux" /\ new.wrote = 0 /\ new.logged = 0
                  /\ answer' = [answer EXCEPT ![r] = "admitted"]
               \/ new.at = "done" /\ new.wrote = 1 /\ new.logged = new.status
        <3>1. CASE Admit(r) /\ Goes(r, "mux")
            <4>1. [call[r] EXCEPT !.at = "mux"] \in Call
                BY <1>0 DEF Call
            <4>2. call' = [call EXCEPT ![r] = [call[r] EXCEPT !.at = "mux"]]
                BY <3>1 DEF Goes
            <4>3. /\ [call[r] EXCEPT !.at = "mux"].at = "mux"
                  /\ [call[r] EXCEPT !.at = "mux"].peer = call[r].peer
                  /\ [call[r] EXCEPT !.at = "mux"].wrote = 0
                  /\ [call[r] EXCEPT !.at = "mux"].logged = 0
                BY <1>0, <2>0 DEF Call
            <4>4. answer' = [answer EXCEPT ![r] = "admitted"]
                BY <3>1 DEF Admit, Answer
            <4> QED BY <4>1, <4>2, <4>3, <4>4
        <3>2. CASE Refuse(r) /\ Answers(r, 429)
            <4> DEFINE new == Ended(call[r], 429, 429)
            <4>1. /\ new \in Call /\ new.at = "done" /\ new.wrote = 1
                  /\ new.logged = new.status /\ new.peer = call[r].peer
                BY <1>0, <2>0, EndedOnce
            <4>2. call' = [call EXCEPT ![r] = new]
                BY <3>2 DEF Answers
            <4> HIDE DEF new
            <4> QED BY <4>1, <4>2
        <3> QED BY <1>5, <3>1, <3>2 DEF LeaveLimiter, Chain
    <2>2. /\ call' \in [Request -> Call]
          /\ call'[r] = new
          /\ \A q \in Request : q # r => call'[q] = call[q]
        BY <1>0, <2>1, CallStep
    <2>3. /\ \A q \in Request : req'[q].client = req[q].client
          /\ \A q \in Request : q # r => answer'[q] = answer[q]
          /\ entries' = entries
        BY <1>0, <1>5 DEF LeaveLimiter, Admit, Refuse, Answer, LimiterTypeOK
    <2>4. new.at = "mux" => answer'[r] = "admitted"
        BY <1>0, <2>1 DEF LimiterTypeOK
    <2>5. call[r].peer \in Allowed /\ req[r].client = call[r].peer
        BY <2>0 DEF At, ChainInv, BehindList, AskedFor
    <2>6. Unanswered' /\ AnsweredOnce'
        BY <2>1, <2>2 DEF ChainInv, Unanswered, AnsweredOnce, At
    <2>7. BehindList' /\ AskedFor' /\ BehindLimiter' /\ LetBy'
        BY <2>1, <2>2, <2>3, <2>4, <2>5 DEF ChainInv, BehindList, AskedFor, BehindLimiter, LetBy
    <2> QED BY <1>0, <2>2, <2>3, <2>6, <2>7 DEF ChainInv, TypeOK
<1>6. ASSUME NEW r \in Request, Dispatch(r) \/ Authenticated(r) \/ AuthFails(r) \/ Panic(r)
      PROVE ChainInv'
    <2>1. PICK new \in Call :
            /\ call' = [call EXCEPT ![r] = new] /\ new.peer = call[r].peer
            /\ new.at \in {"auth", "delay", "handler", "panic"}
            /\ new.wrote = call[r].wrote /\ new.logged = call[r].logged
            /\ new.at \in {"handler", "panic"} => new.by # "none"
        <3>1. CASE \E by \in {"public", "key"} : Passes(r, by)
            <4>1. PICK by \in {"public", "key"} : Passes(r, by)
                BY <3>1
            <4> DEFINE new == [call[r] EXCEPT !.at = "handler", !.by = by]
            <4>2. /\ new \in Call /\ new.at = "handler" /\ new.by # "none"
                  /\ new.peer = call[r].peer
                  /\ new.wrote = call[r].wrote /\ new.logged = call[r].logged
                BY <1>0 DEF Call
            <4>3. call' = [call EXCEPT ![r] = new]
                BY <1>0, <4>1 DEF Passes
            <4> HIDE DEF new
            <4> QED BY <4>2, <4>3
        <3>2. CASE \E where \in {"auth", "delay"} : Goes(r, where)
            <4>1. PICK where \in {"auth", "delay"} : Goes(r, where)
                BY <3>2
            <4> DEFINE new == [call[r] EXCEPT !.at = where]
            <4>2. /\ new \in Call /\ new.at \in {"auth", "delay"}
                  /\ new.peer = call[r].peer
                  /\ new.wrote = call[r].wrote /\ new.logged = call[r].logged
                BY <1>0 DEF Call
            <4>3. call' = [call EXCEPT ![r] = new]
                BY <4>1 DEF Goes
            <4> HIDE DEF new
            <4> QED BY <4>2, <4>3
        <3>3. CASE Panic(r)
            <4> DEFINE new == [call[r] EXCEPT !.at = "panic"]
            <4>1. call[r].by # "none"
                BY <3>3 DEF Panic, At, ChainInv, LetBy
            <4>2. /\ new \in Call /\ new.at = "panic" /\ new.by # "none"
                  /\ new.peer = call[r].peer
                  /\ new.wrote = call[r].wrote /\ new.logged = call[r].logged
                BY <1>0, <4>1 DEF Call
            <4>3. call' = [call EXCEPT ![r] = new]
                BY <3>3 DEF Panic, Goes
            <4> HIDE DEF new
            <4> QED BY <4>2, <4>3
        <3> QED BY <1>6, <3>1, <3>2, <3>3 DEF Dispatch, Authenticated, AuthFails
    <2>2. UNCHANGED limiterVars /\ call[r].at \in {"mux", "auth", "handler"}
        BY <1>6 DEF Dispatch, Authenticated, AuthFails, Panic, At
    <2>3. /\ call[r].wrote = 0 /\ call[r].logged = 0 /\ call[r].peer \in Allowed
          /\ req[r].client = call[r].peer /\ answer[r] = "admitted"
        BY <2>2 DEF ChainInv, Unanswered, BehindList, AskedFor, BehindLimiter
    <2> QED BY <2>1, <2>2, <2>3, OutsideLimiter
<1>7. ASSUME NEW r \in Request, Recover(r) PROVE ChainInv'
    <2> DEFINE new == Ended(call[r], 500, call[r].logged)
    <2>1. call[r].wrote = 0 /\ call[r].logged = 0
        BY <1>7 DEF Recover, At, ChainInv, Unanswered
    <2>2. /\ new \in Call /\ new.at = "done" /\ new.wrote = 1
          /\ new.logged = 0 /\ new.status = 500
        BY <1>0, <2>1, EndedOnce
    <2>3. call' = [call EXCEPT ![r] = new] /\ UNCHANGED limiterVars
        BY <1>7 DEF Recover
    <2> HIDE DEF new
    <2> QED BY <2>2, <2>3, OutsideLimiter
<1>8. CASE (Sweep \/ Tick) /\ UNCHANGED call
    <2>1. /\ entries' \subseteq entries /\ answer' = answer
          /\ \A r \in Request : req'[r].client = req[r].client
        BY <1>0, <1>8 DEF Sweep, Tick, LimiterTypeOK, ReqState
    <2>2. Unanswered' /\ AnsweredOnce'
        BY <1>8 DEF ChainInv, Unanswered, AnsweredOnce, At
    <2>3. BehindList' /\ AskedFor' /\ BehindLimiter' /\ LetBy'
        BY <1>8, <2>1 DEF ChainInv, BehindList, AskedFor, BehindLimiter, LetBy
    <2> QED BY <1>0, <1>8, <2>1, <2>2, <2>3 DEF ChainInv, TypeOK
<1>9. CASE UNCHANGED vars
    BY <1>0, <1>9 DEF vars, limiterVars, ChainInv, TypeOK, Unanswered, AnsweredOnce, At,
                      BehindList, AskedFor, BehindLimiter, LetBy
<1> QED BY <1>1, <1>2, <1>3, <1>4, <1>5, <1>6, <1>7, <1>8, <1>9 DEF Next, Serve

\* TypeOK, AnsweredOnce and Guarded (router.go:79-101, middleware.go): every
\* request is answered once, and what is behind a middleware is reached through
\* it only.
THEOREM ChainSafe == Spec => [](TypeOK /\ AnsweredOnce /\ Guarded)
<1>1. Init => ChainInv /\ LimiterInv
    BY InitChain, InitInv DEF Init
<1>2. ChainInv /\ LimiterInv /\ [Next]_vars => ChainInv' /\ LimiterInv'
    <2>1. ChainInv /\ [Next]_vars => [LimiterNext]_limiterVars
        BY StepLimits DEF ChainInv
    <2> QED BY <2>1, NextChain, NextInv
<1>3. ChainInv => TypeOK /\ AnsweredOnce /\ Guarded
    BY DEF ChainInv, Guarded, BehindList, AskedFor, BehindLimiter, LetBy
<1> QED BY <1>1, <1>2, <1>3, PTL DEF Spec

\* The server's chain of middlewares uses the limiter as it is meant to be.
THEOREM ChainLimits == Spec => LimiterSpec
<1>1. Init => LimiterInit
    BY DEF Init
<1>2. TypeOK /\ AnsweredOnce /\ Guarded /\ [Next]_vars => [LimiterNext]_limiterVars
    BY StepLimits
<1> QED BY <1>1, <1>2, ChainSafe, PTL DEF Spec, LimiterSpec

\* EntryKept in the chain: when a request of the server asks for its token, the
\* entry it looked up is in the map (middleware.go:165-176).
THEOREM ChainKeepsEntries == Spec => []EntryKept
<1>1. LimiterTypeOK /\ EntryKept => EntryKept
    OBVIOUS
<1> QED BY <1>1, ChainLimits, LimiterSafe, PTL

\* BucketSpec in the chain: forgetting an idle client gives it nothing.
THEOREM ChainIsBucket ==
    ASSUME FullWhenStale
    PROVE  Spec => BucketSpec
BY ChainLimits, LimiterIsBucket

-----------------------------------------------------------------------------
(* Every request is answered *)

\* When the goroutine of a request can take a step.
CanServe(r) ==
    \/ call[r].at \in {"allow", "mux", "auth", "delay", "panic"}
    \/ At(r, "limit") /\ req[r].pc = "idle"
    \/ At(r, "bucket") /\ req[r].pc = "allow"
    \/ At(r, "handler") /\ Handled(r) # {}

\* The fairness of FairSpec for the goroutines, with that condition spelled out.
Fairness == \A r \in Request : []<>~CanServe(r) \/ []<><<Serve(r)>>_vars

\* A request is with its bucket where the chain says so, and a handler that was
\* chosen has a route to serve.
InStep ==
    /\ \A r \in Request : req[r].pc = "allow" <=> At(r, "bucket")
    /\ \A r \in Request : At(r, "auth") => Route \ Public # {}
    /\ \A r \in Request : At(r, "handler") => Handled(r) # {}

\* It holds at the start.
LEMMA InitInStep == Init => InStep
BY DEF Init, LimiterInit, InStep, At

\* Where a goroutine may be next, and that nobody else moves it.
Onward(where) ==
    CASE where = "allow"   -> {"limit", "done"}
      [] where = "limit"   -> {"bucket"}
      [] where = "bucket"  -> {"mux", "done"}
      [] where = "mux"     -> {"auth", "handler", "done"}
      [] where = "auth"    -> {"delay", "handler"}
      [] where = "delay"   -> {"done"}
      [] where = "handler" -> {"panic", "done"}
      [] where = "panic"   -> {"done"}

\* What the three kinds of steps do to the call.
LEMMA GoesTo ==
    ASSUME TypeOK, NEW r \in Request, NEW where, Goes(r, where)
    PROVE  /\ call'[r].at = where /\ call'[r].by = call[r].by
           /\ \A s \in Request \ {r} : call'[s] = call[s]
<1>1. call[r] \in Call /\ call \in [Request -> Call]
    BY DEF TypeOK
<1>2. PICK new : new = [call[r] EXCEPT !.at = where]
    OBVIOUS
<1>3. new.at = where /\ new.by = call[r].by
    BY <1>1, <1>2 DEF Call
<1>4. call' = [call EXCEPT ![r] = new]
    BY <1>2 DEF Goes
<1> QED BY <1>1, <1>3, <1>4

\* A call that passes a check is with its handler.
LEMMA PassesTo ==
    ASSUME TypeOK, NEW r \in Request, NEW by, Passes(r, by)
    PROVE  /\ call'[r].at = "handler" /\ call'[r].by = by
           /\ \A s \in Request \ {r} : call'[s] = call[s]
<1>1. call[r] \in Call /\ call \in [Request -> Call]
    BY DEF TypeOK
<1>2. PICK new : new = [call[r] EXCEPT !.at = "handler", !.by = by]
    OBVIOUS
<1>3. new.at = "handler" /\ new.by = by
    BY <1>1, <1>2 DEF Call
<1>4. call' = [call EXCEPT ![r] = new]
    BY <1>1, <1>2 DEF Passes, Call
<1> QED BY <1>1, <1>3, <1>4

\* A call that is answered is done.
LEMMA EndsAt ==
    ASSUME TypeOK, NEW r \in Request, NEW status, NEW logged,
           call' = [call EXCEPT ![r] = Ended(call[r], status, logged)]
    PROVE  /\ call'[r].at = "done"
           /\ \A s \in Request \ {r} : call'[s] = call[s]
<1>1. call[r] \in Call /\ call \in [Request -> Call]
    BY DEF TypeOK
<1>2. Ended(call[r], status, logged).at = "done"
    BY <1>1 DEF Ended, Call
<1> QED BY <1>1, <1>2

\* The order of the chain; a handler that is chosen has a route.
LEMMA ServeMoves ==
    ASSUME TypeOK, InStep, NEW r \in Request, Serve(r)
    PROVE  /\ call[r].at \notin {"off", "done"}
           /\ call'[r].at \in Onward(call[r].at)
           /\ call'[r].at = "handler" => Handled(r)' # {}
           /\ call'[r].at = "auth" => Route \ Public # {}
           /\ \A s \in Request \ {r} : call'[s] = call[s]
<1>1. CASE PassAddress(r)
    BY <1>1, GoesTo DEF PassAddress, At, Onward, Chain
<1>2. CASE EnterLimiter(r)
    BY <1>2, GoesTo DEF EnterLimiter, At, Onward
<1>3. CASE LeaveLimiter(r)
    <2>1. CASE Goes(r, "mux")
        BY <1>3, <2>1, GoesTo DEF LeaveLimiter, At, Onward
    <2>2. CASE Answers(r, 429)
        <3>1. PICK status : call' = [call EXCEPT ![r] = Ended(call[r], status, status)]
            BY <2>2 DEF Answers
        <3>2. call'[r].at = "done" /\ \A s \in Request \ {r} : call'[s] = call[s]
            BY <3>1, EndsAt
        <3> QED BY <1>3, <3>2 DEF LeaveLimiter, At, Onward
    <2> QED BY <1>3, <2>1, <2>2 DEF LeaveLimiter, Chain
<1>4. CASE Dispatch(r)
    <2>1. CASE Route \cap Public # {} /\ Passes(r, "public")
        BY <1>4, <2>1, PassesTo DEF Dispatch, At, Onward, Handled
    <2>2. CASE Route \ Public # {} /\ Goes(r, "auth")
        BY <1>4, <2>2, GoesTo DEF Dispatch, At, Onward
    <2> QED BY <1>4, <2>1, <2>2 DEF Dispatch
<1>5. CASE AuthFails(r) \/ Panic(r)
    <2>1. CASE AuthFails(r)
        BY <2>1, GoesTo DEF AuthFails, At, Onward
    <2>2. CASE Panic(r)
        BY <2>2, GoesTo DEF Panic, At, Onward
    <2> QED BY <1>5, <2>1, <2>2
<1>6. CASE Authenticated(r)
    BY <1>6, PassesTo DEF Authenticated, At, Onward, Handled, InStep, Public
<1>7. CASE RejectAddress(r) \/ Redirect(r) \/ Unauthorized(r) \/ Handle(r) \/ Recover(r)
    <2>1. call[r].at \in {"allow", "mux", "delay", "handler", "panic"}
        BY <1>7 DEF RejectAddress, Redirect, Unauthorized, Handle, Recover, At
    <2>2. PICK status, logged : call' = [call EXCEPT ![r] = Ended(call[r], status, logged)]
        BY <1>7 DEF RejectAddress, Redirect, Unauthorized, Handle, Recover, Answers
    <2>3. /\ call'[r].at = "done"
          /\ \A s \in Request \ {r} : call'[s] = call[s]
        BY <2>2, EndsAt
    <2> QED BY <2>1, <2>3 DEF Onward
<1> QED BY <1>1, <1>2, <1>3, <1>4, <1>5, <1>6, <1>7 DEF Serve

\* Every step keeps the place of a request and its bucket together.
LEMMA InStepStep ==
    ASSUME TypeOK, InStep, [Next]_vars
    PROVE  InStep'
<1>1. call \in [Request -> Call] /\ req \in [Request -> ReqState]
    BY DEF TypeOK, LimiterTypeOK
<1>2. ASSUME NEW r \in Request, Serve(r) PROVE InStep'
    <2>1. /\ call[r].at \notin {"off", "done"}
          /\ call'[r].at \in Onward(call[r].at)
          /\ call'[r].at = "handler" => Handled(r)' # {}
          /\ call'[r].at = "auth" => Route \ Public # {}
          /\ \A s \in Request \ {r} : call'[s] = call[s]
        BY <1>2, ServeMoves
    <2>2. /\ req'[r].pc = "allow" <=> call'[r].at = "bucket"
          /\ \A s \in Request \ {r} : req'[s] = req[s]
        <3>1. CASE EnterLimiter(r)
            <4>1. req' = [req EXCEPT ![r] = [pc |-> "allow", client |-> call[r].peer, age |-> 0]]
                BY <3>1 DEF EnterLimiter, Enter
            <4>2. call'[r].at = "bucket"
                BY <3>1, GoesTo DEF EnterLimiter
            <4> QED BY <1>1, <4>1, <4>2
        <3>2. CASE LeaveLimiter(r)
            <4>1. req' = [req EXCEPT ![r] = [pc |-> "idle", client |-> req[r].client, age |-> 0]]
                BY <3>2 DEF LeaveLimiter, Admit, Refuse, Answer
            <4>2. call'[r].at # "bucket"
                BY <2>1, <3>2 DEF LeaveLimiter, At, Onward
            <4> QED BY <1>1, <4>1, <4>2
        <3>3. CASE ~EnterLimiter(r) /\ ~LeaveLimiter(r)
            <4>1. UNCHANGED limiterVars /\ call[r].at \notin {"limit", "bucket"}
                BY <1>2, <3>3 DEF Serve, PassAddress, RejectAddress, Dispatch, Redirect, Authenticated,
                                  AuthFails, Unauthorized, Handle, Panic, Recover, At
            <4>2. call[r].at \in {"allow", "mux", "auth", "delay", "handler", "panic"}
                BY <1>1, <2>1, <4>1 DEF Call
            <4>3. call'[r].at # "bucket"
                BY <2>1, <4>2 DEF Onward
            <4> QED BY <4>1, <4>3 DEF limiterVars, InStep, At
        <3> QED BY <3>1, <3>2, <3>3
    <2>3. \A s \in Request \ {r} : Handled(s)' = Handled(s)
        BY <2>1 DEF Handled
    <2> QED BY <2>1, <2>2, <2>3 DEF InStep, At
<1>3. ASSUME NEW r \in Request, NEW c \in Client, Arrive(r, c) PROVE InStep'
    <2>1. /\ UNCHANGED req /\ call[r].at \in {"off", "done"}
          /\ call' = [call EXCEPT ![r] = [at |-> "allow", peer |-> c, by |-> "none",
                                          wrote |-> 0, status |-> 0, logged |-> 0]]
        BY <1>3 DEF Arrive, At, Chain, limiterVars
    <2>2. call'[r].at = "allow" /\ \A s \in Request \ {r} : call'[s] = call[s]
        BY <1>1, <2>1
    <2>3. \A s \in Request \ {r} : Handled(s)' = Handled(s)
        BY <2>2 DEF Handled
    <2> QED BY <2>1, <2>2, <2>3 DEF InStep, At
<1>4. CASE (Sweep \/ Tick) /\ UNCHANGED call
    <2>1. \A r \in Request : req'[r].pc = req[r].pc
        BY <1>1, <1>4 DEF Sweep, Tick, ReqState
    <2> QED BY <1>4, <2>1 DEF InStep, At, Handled
<1>5. CASE UNCHANGED vars
    BY <1>5 DEF vars, limiterVars, InStep, At, Handled
<1> QED BY <1>2, <1>3, <1>4, <1>5 DEF Next

\* A request in the chain can go on, and stays where it is until it does.
LEMMA NeverStuck ==
    ASSUME TypeOK, InStep, NEW r \in Request, call[r].at \notin {"off", "done"}
    PROVE  CanServe(r)
<1>1. /\ call[r].at \in {"allow", "limit", "bucket", "mux", "auth", "delay", "handler", "panic"}
      /\ req[r].pc \in {"idle", "allow"}
    BY DEF TypeOK, LimiterTypeOK, Call, ReqState
<1> QED BY <1>1, HandlerAssumption DEF CanServe, InStep, At

\* Nobody else moves a request that is in the chain.
LEMMA OthersLeave ==
    ASSUME TypeOK, InStep, NEW r \in Request, call[r].at \notin {"off", "done"}, [Next]_vars
    PROVE  call'[r].at = call[r].at \/ Serve(r)
<1>1. ASSUME NEW s \in Request, s # r, Serve(s) PROVE call'[r].at = call[r].at
    BY <1>1, ServeMoves
<1>2. ASSUME NEW s \in Request, NEW c \in Client, Arrive(s, c) PROVE call'[r].at = call[r].at
    BY <1>2 DEF Arrive, At, TypeOK
<1> QED BY <1>1, <1>2 DEF Next, vars

\* One request, from place to place.
LEMMA Answered ==
    ASSUME NEW r \in Request
    PROVE  Spec /\ ([]<>~CanServe(r) \/ []<><<Serve(r)>>_vars) => (~At(r, "off") ~> At(r, "done"))
<1> DEFINE Inv == TypeOK /\ InStep
           In == call[r].at \notin {"off", "done"}
           P(where) == call[r].at = where
           Done == call[r].at = "done"
<1>1. Init => InStep
    BY InitInStep
<1>2. TypeOK /\ InStep /\ [Next]_vars => InStep'
    BY InStepStep
<1>3. TypeOK /\ AnsweredOnce /\ Guarded => TypeOK
    OBVIOUS
<1>4. \A where : Inv /\ In /\ P(where) /\ [Next]_vars => P(where)' \/ call'[r].at \in Onward(where)
    BY OthersLeave, ServeMoves
<1>5. \A where : Inv /\ In /\ P(where) /\ <<Serve(r)>>_vars => call'[r].at \in Onward(where)
    BY ServeMoves
<1>6. Inv /\ In => CanServe(r)
    BY NeverStuck
<1>7. Inv /\ ~At(r, "off") =>
          \/ P("allow") \/ P("limit") \/ P("bucket") \/ P("mux")
          \/ P("auth") \/ P("delay") \/ P("handler") \/ P("panic") \/ Done
    BY DEF TypeOK, Call, At
<1> DEFINE N == [Next]_vars
           A == <<Serve(r)>>_vars
<1>8. /\ Inv /\ P("panic") /\ N => P("panic")' \/ Done'
      /\ Inv /\ P("panic") /\ A => Done'
    BY <1>4, <1>5 DEF Onward
<1>9. /\ Inv /\ P("handler") /\ N => P("handler")' \/ P("panic")' \/ Done'
      /\ Inv /\ P("handler") /\ A => P("panic")' \/ Done'
    BY <1>4, <1>5 DEF Onward
<1>10. /\ Inv /\ P("delay") /\ N => P("delay")' \/ Done'
       /\ Inv /\ P("delay") /\ A => Done'
    BY <1>4, <1>5 DEF Onward
<1>11. /\ Inv /\ P("auth") /\ N => P("auth")' \/ P("delay")' \/ P("handler")'
       /\ Inv /\ P("auth") /\ A => P("delay")' \/ P("handler")'
    BY <1>4, <1>5 DEF Onward
<1>12. /\ Inv /\ P("mux") /\ N => P("mux")' \/ P("auth")' \/ P("handler")' \/ Done'
       /\ Inv /\ P("mux") /\ A => P("auth")' \/ P("handler")' \/ Done'
    BY <1>4, <1>5 DEF Onward
<1>13. /\ Inv /\ P("bucket") /\ N => P("bucket")' \/ P("mux")' \/ Done'
       /\ Inv /\ P("bucket") /\ A => P("mux")' \/ Done'
    BY <1>4, <1>5 DEF Onward
<1>14. /\ Inv /\ P("limit") /\ N => P("limit")' \/ P("bucket")'
       /\ Inv /\ P("limit") /\ A => P("bucket")'
    BY <1>4, <1>5 DEF Onward
<1>15. /\ Inv /\ P("allow") /\ N => P("allow")' \/ P("limit")' \/ Done'
       /\ Inv /\ P("allow") /\ A => P("limit")' \/ Done'
    BY <1>4, <1>5 DEF Onward
<1>16. /\ (P("allow") \/ P("limit") \/ P("bucket") \/ P("mux")) => In
       /\ (P("auth") \/ P("delay") \/ P("handler") \/ P("panic")) => In
    OBVIOUS
<1>17. Done <=> At(r, "done")
    BY DEF At
<1> HIDE DEF In, P, Done
<1> QED BY <1>1, <1>2, <1>3, <1>6, <1>7, <1>8, <1>9, <1>10, <1>11, <1>12, <1>13, <1>14, <1>15, <1>16,
           <1>17, ChainSafe, PTL DEF Spec

\* Served (router.go:79-101, middleware.go): if the goroutine of every request runs
\* when it can, every request is answered, for any number of requests and clients,
\* whatever the others do to the limiter.
THEOREM EveryoneServed == Spec /\ Fairness => Served
<1>1. ASSUME NEW r \in Request
      PROVE  Spec /\ Fairness => (~At(r, "off") ~> At(r, "done"))
    <2>1. Fairness => ([]<>~CanServe(r) \/ []<><<Serve(r)>>_vars)
        BY DEF Fairness
    <2> QED BY <2>1, Answered
<1> QED BY <1>1 DEF Served
=============================================================================
