------------------------------ MODULE Registry ------------------------------
(***************************************************************************)
(* What the service promises about its databases, without threads, locks,  *)
(* files or connections.                                                   *)
(*                                                                         *)
(* While the service is up, an alias that names a file goes on naming that *)
(* file, no two aliases differ only in case, and the only change a client  *)
(* can see is a new alias.  Only a stop of the service takes names away,   *)
(* and the next start may choose others.  Watcher.tla implements this.     *)
(***************************************************************************)
EXTENDS Names

VARIABLES
    up,         \* the service is serving
    bound       \* bound[a]: the file that alias a names, or None

vars == <<up, bound>>

\* At most one alias of each case-folded class is bound.
CaseUnique(b) ==
    \A a1, a2 \in Alias :
        b[a1] # None /\ b[a2] # None /\ Fold[a1] = Fold[a2] => a1 = a2

Bindings == {b \in PartialMap : CaseUnique(b)}

Init ==
    /\ up = TRUE
    /\ bound \in Bindings

\* A database is discovered: a free name gets a file, all others keep theirs.
Discover(a, p) ==
    /\ up
    /\ bound[a] = None
    /\ bound' = [bound EXCEPT ![a] = p]
    /\ CaseUnique(bound')
    /\ UNCHANGED up

Down ==
    /\ up
    /\ up' = FALSE
    /\ bound' = EmptyMap

Up ==
    /\ ~up
    /\ up' = TRUE
    /\ bound' \in Bindings

Next ==
    \/ \E a \in Alias, p \in Path : Discover(a, p)
    \/ Down
    \/ Up

Spec == Init /\ [][Next]_vars
=============================================================================
