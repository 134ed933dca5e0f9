------------------------------ MODULE Catalog ------------------------------
(***************************************************************************)
(* ListTables of the store (internal/mdb/catalog_windows.go): a connection *)
(* of its own for each call, past database/sql, with the handles of ODBC   *)
(* allocated one below the other and released by deferred calls, the last  *)
(* one first.                                                              *)
(*                                                                         *)
(* odbc32.dll is external.  What the call relies on: a statement is freed  *)
(* with its connection, and an environment or a connection that still has  *)
(* something below it is not freed at all.  Any call but a release may     *)
(* fail.  A name has at most 64 characters, so it fits the buffer.         *)
(***************************************************************************)
EXTENDS Integers, Sequences, SequencesExt

CONSTANTS
    Name,       \* names of tables
    Catalogues  \* the lists of tables a database may have

ASSUME CatalogAssumption == Catalogues \subseteq Seq(Name) /\ <<>> \in Catalogues

VARIABLES
    existing,   \* the tables of the database
    step,       \* the next call
    allocated,  \* the handles that exist
    connected,  \* SQLDriverConnect succeeded
    deferred,   \* the deferred calls, the next one last
    row,        \* how many rows the driver has handed out
    tables,     \* the names collected
    ctxDone,    \* the deadline of the request is over
    lost,       \* the driver failed to hand out a row or a name
    listing     \* what the call returns

Handle == {"env", "dbc", "stmt"}

progress == <<row, tables, lost>>
catalogVars == <<existing, step, allocated, connected, deferred, progress, ctxDone, listing>>

CatalogTypeOK ==
    /\ existing \in Catalogues
    /\ step \in {"off", "env", "version", "dbc", "connect", "stmt", "tables", "fetch", "data",
                 "return", "end"}
    /\ allocated \subseteq Handle
    /\ connected \in BOOLEAN
    /\ deferred \in Seq(Handle)
    /\ row \in 0..Len(existing)
    /\ tables \in Seq(Name)
    /\ ctxDone \in BOOLEAN
    /\ lost \in BOOLEAN
    /\ listing \in {"none", "ok", "error"}

\* Before the first call of the driver.
CatalogAt(s) ==
    /\ existing \in Catalogues
    /\ step = s
    /\ allocated = {} /\ connected = FALSE /\ deferred = <<>>
    /\ row = 0 /\ tables = <<>> /\ lost = FALSE
    /\ ctxDone = FALSE
    /\ listing = "none"

-----------------------------------------------------------------------------

Returns(l) ==
    /\ listing' = l
    /\ step' = "return"

\* SQLAllocHandle, and the deferred call that undoes it.
Alloc(h, next) ==
    /\ step = h
    /\ allocated' = allocated \cup {h}
    /\ deferred' = Append(deferred, h)
    /\ step' = next
    /\ UNCHANGED <<existing, connected, progress, ctxDone, listing>>

\* SQLSetEnvAttr and SQLTablesW.
Call(here, next) ==
    /\ step = here
    /\ step' = next
    /\ UNCHANGED <<existing, allocated, connected, deferred, progress, ctxDone, listing>>

Connect ==
    /\ step = "connect"
    /\ connected' = TRUE
    /\ step' = "stmt"
    /\ UNCHANGED <<existing, allocated, deferred, progress, ctxDone, listing>>

\* A call before the loop fails.
CallFails ==
    /\ step \in {"env", "version", "dbc", "connect", "stmt", "tables"}
    /\ Returns("error")
    /\ UNCHANGED <<existing, allocated, connected, deferred, progress, ctxDone>>

Expires ==
    /\ step \notin {"off", "return", "end"} /\ ~ctxDone
    /\ ctxDone' = TRUE
    /\ UNCHANGED <<existing, step, allocated, connected, deferred, progress, listing>>

\* The loop looks at the context before each row.
Cancelled ==
    /\ step = "fetch" /\ ctxDone
    /\ Returns("error")
    /\ UNCHANGED <<existing, allocated, connected, deferred, progress, ctxDone>>

FetchRow ==
    /\ step = "fetch" /\ ~ctxDone
    /\ row < Len(existing)
    /\ row' = row + 1
    /\ step' = "data"
    /\ UNCHANGED <<existing, allocated, connected, deferred, tables, lost, ctxDone, listing>>

NoMoreRows ==
    /\ step = "fetch" /\ ~ctxDone
    /\ row = Len(existing)
    /\ Returns("ok")
    /\ UNCHANGED <<existing, allocated, connected, deferred, progress, ctxDone>>

\* Any other answer of SQLFetch ends the loop in the same way.
FetchError ==
    /\ step = "fetch" /\ ~ctxDone
    /\ lost' = TRUE
    /\ Returns("ok")
    /\ UNCHANGED <<existing, allocated, connected, deferred, row, tables, ctxDone>>

\* Mutant: the name is appended without a look at what SQLGetData returned.
GetData_Unchecked ==
    /\ step = "data"
    /\ \E name \in {existing[row], IF tables = <<>> THEN "" ELSE tables[Len(tables)]} :
          tables' = Append(tables, name)
    /\ UNCHANGED lost
    /\ step' = "fetch"
    /\ UNCHANGED <<existing, allocated, connected, deferred, row, ctxDone, listing>>

\* SQLGetData hands out the name, or fails and the row is skipped.
GetData ==
    /\ step = "data"
    /\ \/ /\ tables' = Append(tables, existing[row])
          /\ UNCHANGED lost
       \/ /\ lost' = TRUE
          /\ UNCHANGED tables
    /\ step' = "fetch"
    /\ UNCHANGED <<existing, allocated, connected, deferred, row, ctxDone, listing>>

-----------------------------------------------------------------------------

\* What SQLFreeHandle of h leaves allocated.
Freed(h, open) ==
    IF (h = "env" /\ "dbc" \in allocated) \/ (h = "dbc" /\ open)
    THEN allocated
    ELSE allocated \ {h}

\* Mutant: the connection is freed without SQLDisconnect.
RunDeferred_NoDisconnect ==
    /\ step = "return" /\ deferred # <<>>
    /\ allocated' = Freed(Last(deferred), connected)
    /\ deferred' = Front(deferred)
    /\ UNCHANGED <<existing, step, connected, progress, ctxDone, listing>>

\* The next deferred call; that of the connection disconnects first, which frees
\* its statements, and is an error without effect on one never connected.
RunDeferred ==
    /\ step = "return" /\ deferred # <<>>
    /\ connected' = (connected /\ Last(deferred) # "dbc")
    /\ allocated' = Freed(Last(deferred), connected')
    /\ deferred' = Front(deferred)
    /\ UNCHANGED <<existing, step, progress, ctxDone, listing>>

Returned ==
    /\ step = "return" /\ deferred = <<>>
    /\ step' = "end"
    /\ UNCHANGED <<existing, allocated, connected, deferred, progress, ctxDone, listing>>

CatalogNext ==
    \/ Alloc("env", "version") \/ Call("version", "dbc") \/ Alloc("dbc", "connect") \/ Connect
    \/ Alloc("stmt", "tables") \/ Call("tables", "fetch") \/ CallFails
    \/ Expires \/ Cancelled \/ FetchRow \/ NoMoreRows \/ FetchError \/ GetData
    \/ RunDeferred \/ Returned

-----------------------------------------------------------------------------
(* Properties *)

\* Whichever call fails, and wherever the deadline passes, nothing of the
\* driver's stays behind (catalog_windows.go:63, 73 and 94 defer the releases in
\* the order of the allocations, which run in the opposite one).
AllReleased == step = "end" => allocated = {} /\ ~connected

\* One buffer takes all names, a failure of the driver skips a row or ends the
\* loop, and the deadline may pass anywhere: still, without a failure a list is
\* that of the database, and no list has a name of no table, or one name for
\* more rows than were handed out (catalog_windows.go:112-143).
ListingWhole ==
    /\ listing = "ok" /\ ~lost => tables = existing
    /\ Len(tables) <= row
    /\ \A i \in 1..Len(tables) : \E j \in 1..row : tables[i] = existing[j]

\* handlers.go:23: all user tables in the given database are returned.
AllTables == listing = "ok" => tables = existing
=============================================================================
