------------------------------- MODULE RWLock -------------------------------
(***************************************************************************)
(* Go's sync.RWMutex, as the pool uses it: a writer announces itself and   *)
(* waits for the readers of that moment; readers that come later wait for  *)
(* the writer, and all of them are let in when it leaves.  A goroutine     *)
(* that holds the read lock and asks for it again therefore waits for a    *)
(* writer that waits for it.                                               *)
(***************************************************************************)

CONSTANTS
    Proc,       \* the goroutines that use the lock
    Nobody

ASSUME NobodyAssumption == Nobody \notin Proc

VARIABLES
    readers,    \* goroutines inside a read section
    waiting,    \* goroutines blocked in RLock
    announced,  \* the writer waiting for the readers to leave, or Nobody
    writer      \* the writer inside, or Nobody

lockVars == <<readers, waiting, announced, writer>>

LockTypeOK ==
    /\ readers \in SUBSET Proc
    /\ waiting \in SUBSET Proc
    /\ announced \in Proc \cup {Nobody}
    /\ writer \in Proc \cup {Nobody}

LockInit ==
    /\ readers = {}
    /\ waiting = {}
    /\ announced = Nobody
    /\ writer = Nobody

NoWriter == announced = Nobody /\ writer = Nobody

\* Goroutine p calls RLock; it is inside once p \in readers.
RLock(p) ==
    /\ readers' = IF NoWriter THEN readers \cup {p} ELSE readers
    /\ waiting' = IF NoWriter THEN waiting ELSE waiting \cup {p}
    /\ UNCHANGED <<announced, writer>>

\* It leaves the section, unless it is blocked in a second RLock.
RUnlock(p) ==
    /\ p \in readers /\ p \notin waiting
    /\ readers' = readers \ {p}
    /\ UNCHANGED <<waiting, announced, writer>>

\* The first part of Lock: no other writer, and from now on no new reader.
Announce(p) ==
    /\ NoWriter
    /\ announced' = p
    /\ UNCHANGED <<readers, waiting, writer>>

\* The second part of Lock: the last reader has left.
Enter(p) ==
    /\ announced = p
    /\ readers = {}
    /\ announced' = Nobody
    /\ writer' = p
    /\ UNCHANGED <<readers, waiting>>

Unlock(p) ==
    /\ writer = p
    /\ writer' = Nobody
    /\ readers' = waiting
    /\ waiting' = {}
    /\ UNCHANGED announced
=============================================================================
