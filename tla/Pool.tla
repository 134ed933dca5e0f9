-------------------------------- MODULE Pool --------------------------------
(***************************************************************************)
(* mdb.Pool (internal/mdb/pool.go): the table of open databases.           *)
(*                                                                         *)
(* Three maps keyed by alias are updated together under one RWMutex.  Each *)
(* method below is one step because it holds that mutex from its first     *)
(* read to its last write, opening the database included (Requests.tla     *)
(* models the mutex itself).  A database connection is named by the file   *)
(* it was opened on; handles[a] counts the connections opened for alias a  *)
(* and not closed, which no variable of the program holds.                 *)
(***************************************************************************)
EXTENDS Names, Naturals

VARIABLES
    paths,      \* alias -> file: what listings show
    dbs,        \* alias -> open connection
    connStrs,   \* alias -> connection string, which names the file
    handles     \* alias -> number of connections open at the driver

poolVars == <<paths, dbs, connStrs, handles>>

PoolTypeOK ==
    /\ paths \in PartialMap
    /\ dbs \in PartialMap
    /\ connStrs \in PartialMap
    /\ handles \in [Alias -> Nat]

-----------------------------------------------------------------------------
(* The methods *)

\* Mutant: lists only what is open, not what failed to open.
Aliases_OpenOnly == {a \in Alias : dbs[a] # None}

\* Pool.Aliases: every listed alias, the ones that failed to open included.
Aliases == {a \in Alias : paths[a] # None}

\* NewPool: what each map holds once every configured database was tried.
\* cfg is the configuration (alias -> file), openable the files that open.
OpenedOf(cfg, openable) ==
    [a \in Alias |-> IF cfg[a] \in openable THEN cfg[a] ELSE None]

NewPoolInit(cfg, openable) ==
    /\ paths = cfg
    /\ dbs = OpenedOf(cfg, openable)
    /\ connStrs = OpenedOf(cfg, openable)
    /\ handles = [a \in Alias |-> IF cfg[a] \in openable THEN 1 ELSE 0]

NewPool(cfg, openable) ==
    /\ paths' = cfg
    /\ dbs' = OpenedOf(cfg, openable)
    /\ connStrs' = OpenedOf(cfg, openable)
    /\ handles' = [a \in Alias |-> IF cfg[a] \in openable THEN 1 ELSE 0]

\* Register, first return: the alias has a connection, nothing is done and the
\* caller is told nil.
RegisterExisting(a) ==
    /\ dbs[a] # None
    /\ UNCHANGED poolVars

\* Mutant: opens without looking at dbs again under the lock.
RegisterOpened_NoCheck(a, p) ==
    /\ dbs' = [dbs EXCEPT ![a] = p]
    /\ paths' = [paths EXCEPT ![a] = p]
    /\ connStrs' = [connStrs EXCEPT ![a] = p]
    /\ handles' = [handles EXCEPT ![a] = @ + 1]

\* Mutant: forgets the connection string.
RegisterOpened_NoConnStr(a, p) ==
    /\ dbs[a] = None
    /\ dbs' = [dbs EXCEPT ![a] = p]
    /\ paths' = [paths EXCEPT ![a] = p]
    /\ handles' = [handles EXCEPT ![a] = @ + 1]
    /\ UNCHANGED connStrs

\* Register: the file opens.
RegisterOpened(a, p) ==
    /\ dbs[a] = None
    /\ dbs' = [dbs EXCEPT ![a] = p]
    /\ paths' = [paths EXCEPT ![a] = p]
    /\ connStrs' = [connStrs EXCEPT ![a] = p]
    /\ handles' = [handles EXCEPT ![a] = @ + 1]

\* Register: the file does not open, the caller gets the error and no map is
\* touched: the alias is not even listed.
RegisterFailed(a) ==
    /\ dbs[a] = None
    /\ UNCHANGED poolVars

\* Mutant: closes the aliases that never opened as well.
Close_All ==
    /\ handles' = [a \in Alias |-> handles[a] - 1]
    /\ dbs' = EmptyMap
    /\ UNCHANGED <<paths, connStrs>>

\* Pool.Close: every connection is closed and forgotten; the file names and
\* the connection strings stay.
Close ==
    /\ handles' = [a \in Alias |-> IF dbs[a] # None THEN handles[a] - 1 ELSE handles[a]]
    /\ dbs' = EmptyMap
    /\ UNCHANGED <<paths, connStrs>>

\* The process ends: its memory is gone and the system closes its connections.
PoolGone ==
    /\ paths' = EmptyMap
    /\ dbs' = EmptyMap
    /\ connStrs' = EmptyMap
    /\ handles' = [a \in Alias |-> 0]

-----------------------------------------------------------------------------
(* Properties *)

\* No connection is leaked and none is opened twice: exactly the connections
\* that dbs holds are open (Register re-checks dbs under the lock, and Close
\* forgets what it closes).
OneHandle == \A a \in Alias : handles[a] = IF dbs[a] # None THEN 1 ELSE 0

\* A request that finds a connection for an alias talks to the file the listing
\* shows; and ListTables, which goes by the connection string and never looks at
\* dbs, reads the catalogue of that same file.
MapsAgree ==
    \A a \in Alias :
        /\ dbs[a] # None => dbs[a] = connStrs[a]
        /\ connStrs[a] # None => connStrs[a] = paths[a]
=============================================================================
