# Verification of mdbapi

`mdbapi` is a Windows service that publishes Microsoft Access files over a
read-only HTTP API. This directory holds TLA+ modules translated from its Go
source, TLC configurations that check them on small instances, and theorems
about them that TLAPS checks for every value of the constants. `PROJECT.json`
ties every definition to its source lines.

## 1. The system: inventory

| component | source | state it keeps | operations | who calls it |
|---|---|---|---|---|
| configuration | `internal/config/config.go` | none after `Load` | `Load`, `expandEnv`, `applyDefaults`, `validate` | process start |
| glob expansion | `internal/config/glob.go` | none | `expandGlobs`, `MatchGlob`, `PathMatchesGlob`, `GlobBase`, `AliasFromPath` | `Load`; the watcher |
| pool | `internal/mdb/pool.go`, `driver_windows.go` | maps `dbs`, `paths`, `connStrs`, one RWMutex | `NewPool`, `Get`, `Aliases`, `ConnStrFor`, `Databases`, `Register`, `Close` | requests, watcher, service |
| watcher | `internal/watcher/watcher.go` | poll interval, debounce buffer, two timers | `Run` and `poll`, `fsnotifyLoop`, `tryRegister` | its own two goroutines |
| store and schema cache | `internal/mdb/store.go`, `schema.go` | `caches`, one mutex; per cache a table map without one | `ListTables`, `QueryTable`, `ExecuteSQL`, `cache`, `Columns` | requests |
| query building | `internal/mdb/query.go`, `types.go` | none | `ParseQueryOpts`, `QueryTable`, `validateReadOnlySQL`, `enforceTopN`, `scanRows` | the store |
| table catalogue | `internal/mdb/catalog_windows.go` | ODBC handles of one call | `listTables` | the store, past `database/sql` |
| HTTP layer | `internal/api` | the rate limiter's map | the middleware chain, the handlers | `net/http`, one goroutine per request |
| updater | `internal/updater` | the executable and its `.old` backup on disk | `checkRelease`, `checkDevelop`, `downloadAndVerify` | its own goroutine |
| service | `internal/winservice/service.go` | the fields of `Program`, shared without a lock | `Start`, `run`, `Stop`, `cleanupOldBinary`, `Install`, `Uninstall`, `configureRecovery` | the Windows service manager, an operator |
| tunnel | `internal/tunnel` | a listener | `New`, `Listen`, `Close` | the service |
| tools | `cmd/*`, `internal/mdb/probe.go`, `internal/winservice/acl.go` | none | command line, diagnostics, file permissions | an operator |

How they interact: `service.run` loads nothing itself (the configuration was
read before), opens the pool, builds the HTTP handler on a `PoolStore`, and
starts the updater and the watcher as goroutines under one context.
Requests and the watcher meet in the pool; the updater meets the service
through `restartSignal`; the process meets its next incarnation through the
executable file and the service manager's recovery actions.

What is hard: the watcher's check of an alias and its registration are two
critical sections that two goroutines run; files come and go, are half written
and are announced by notifications that can be lost; `Stop` waits for nobody but
the HTTP server; a pool lock is held while databases are opened and pinged; the
schema cache is read and written without a lock; an update replaces the
running executable and may be interrupted anywhere. `PROJECT.json` lists each
of these under `hazards`, at the line where it bites.

What makes each component correct:

* glob expansion: the first entry of every alias wins, and no two aliases differ
  only in case; what a walk lists is recognised again, under the same alias, when
  it is notified;
* pool: no connection is leaked or opened twice, the three maps agree, nothing
  is open after `Close`;
* watcher: an alias, once listed, keeps naming its file; every batch is flushed;
  every file that stays openable is discovered; both goroutines stop;
* store: requests do not deadlock with the pool's writers and finish; a cache
  describes the database it is used for;
* query building: a page holds the rows at the places `offset + 1` to `offset + limit`,
  as far as there are such places, or is an error; a statement is refused or sent as
  what the database reads begins, and one `SELECT` without a `TOP` is capped;
* table catalogue: every handle is released wherever the call fails, and a list
  names tables of the database only, all of them unless the driver fails;
* rate limiter: forgetting an idle client does not give it tokens;
* HTTP layer: a request is answered once, what is logged of it is true, and what is
  behind a check is reached through it only; a failure in a handler does not end
  the process;
* updater: a failed update leaves the running build where the next start looks
  for it; a build that runs is left beside the service at every moment; the
  restart is signalled once;
* service: an installed update takes effect, whoever stops or kills the process
  in between; a stop disturbs no request that it waited for;
* configuration: what the service starts with is sound, no key of it is short or
  the mere trace of a variable that is not set, and a refused file is refused with
  everything that is wrong with it.

## 2. The modules

In the order in which they were written: the registry of databases first, since
everything else reads it, then the requests on it, then the process around them,
and last what is in front of the store and below it.

| module | extends | models | proofs |
|---|---|---|---|
| `Names` | | aliases, files, partial maps, case folding | |
| `Registry` | `Names` | abstract: what the service promises about aliases | |
| `Pool` | `Names` | the pool's methods as operators | `WatcherProofs` |
| `GlobEntries` | `Names` | abstract: the entries a configuration stands for | |
| `ExpandGlobs` | `GlobEntries` | the loops of `expandGlobs` | `ConfigProofs` |
| `Config` | `ExpandGlobs` | `Load` around these loops | `ConfigProofs` |
| `GlobPaths` | | `MatchGlob`, `PathMatchesGlob`, `AliasFromPath` | `GlobPathsProofs` |
| `Watcher` | `Pool`, `GlobEntries` | the two goroutines, timers, files, process; implements `Registry` | `WatcherProofs` |
| `RWLock` | | Go's `sync.RWMutex` with writer preference | `RequestsProofs` |
| `Requests` | `RWLock` | requests, schema caches, connections, shutdown | `RequestsProofs` |
| `TokenBucket` | | abstract: one bucket per client, never reset | |
| `RateLimiter` | | the limiter; implements `TokenBucket` | `RateLimiterProofs` |
| `RateWindow` | `RateLimiter` | the limiter with a window of time beside it that counts what is admitted | `RateLimiterProofs` |
| `Handler` | `RateLimiter` | the middleware chain around the limiter, the routes, the answers | `HandlerProofs` |
| `Deployment` | | abstract: which build is deployed, for whoever runs the service | |
| `Updater` | | the swap of the executable | `ServiceProofs` |
| `Service` | `Updater` | the process, the service manager, installation and restart; implements `Deployment` | `ServiceProofs` |
| `Query` | | paging, statements, `scanRows` | `StoreProofs` |
| `Catalog` | | the ODBC calls of `catalog_windows.go` and their releases | `StoreProofs` |
| `Store` | `Query`, `Catalog` | one call of the store | `StoreProofs` |

The compositions are those of the code: `Watcher` takes the operations of `Pool`
into its steps as `tryRegister` calls them, `Handler` those of `RateLimiter` as the
chain does, `Service` those of `Updater` as `Start` does, `Config` those of
`ExpandGlobs`, and `Store` is either a query or a listing. A composed module has
one run, in which the properties of its parts are checked in place.

There is one run for the safety of each composition and, where that run cannot
carry liveness too, one more for liveness.

## 3. The modules and the code

**Pool, Registry, Watcher.** `Pool` keeps the three maps of `mdb.Pool` and, as
`handles`, the connections open at the driver, which no variable of the program
holds. Each method is one step, because it holds the mutex from its first read to
its last write (`Register` also while it opens the file); that the mutex itself
lets everybody in is the subject of `Requests`. `Watcher` has the two goroutines:
`poll` goes through `select`, `glob`, `next`, `register`, and `notify` through
`select`, `next`, `register`. `tryRegister` is two steps, `CheckPath` (it reads
`Aliases`) and `Registered`/`NotRegistered` (it calls `Register`); the other
goroutine, the disk and the shutdown move in between. Files are `absent`, `locked`
(there, but they do not open) or `ready`, and change at any time. A
notification may be lost (`FileCreated` need not queue one) and fsnotify may be
missing altogether. The order in which a poll or a flush takes its paths is
nondeterministic. `Cancel`, `ClosePool`, `Exit` and `Boot` are the shutdown, the
death and the restart of the process; loading the configuration and opening the
pool is the one step `Boot`. `MatchGlob` cannot fail here: its patterns were used
once by `Load`. `Registry` is what clients may rely on: while the service is up,
names are only added. It lets a restart choose other names, because the code
keeps nothing across restarts: at run time the first file to arrive wins an
alias, at start the first in configuration order.

**GlobEntries, ExpandGlobs, Config.** `Config` is `Load` step by step: `Read`
(substitution of the environment), `Parse`, `ApplyDefaults`, one `Validate` step
for each check, `Verdict`, one `KeepGlobs` step for each entry, and the call of
`expandGlobs`: its outer loop takes up one entry of the file after the other
(`ExpandNext`), its inner one (`ExpandGlobs`) meets what the entry stands for. The
YAML text is left out: a file is a record of values, of which only the kind
matters: without references, one reference, or a text around references that is or
is not long enough for a key by itself; and of what is put in their place, whether it
is, begins and ends like, or only contains what an unset variable leaves. The disk is read once for a whole expansion. `GlobEntries` says without a
loop which entries are kept; `Watcher`'s `Boot` uses that.

**GlobPaths.** Paths are sequences of names and names sequences of words, because
`AliasFromPath` joins words by underscores and the separators of a path with them.
`MatchGlob` is a walk in which any unreadable directory may drop out with all below
it. `PathMatchesGlob` and `AliasOf` are operators. Wildcards within the
directories of a pattern are left out.

**RWLock, Requests.** A request is at one of the places where it can wait or be
overtaken: the pool's lock, `cacheMu`, a connection of a handle, the two halves of
an access to the unsynchronised map. A registrar is a goroutine of the watcher
reduced to its effect on the pool. A handle is a number counting openings, so a
cache that kept an old one can be told from a fresh one. One table of each
database, and one column to validate, are enough: caches keep tables apart, and a
second column finds the table known. The driver may answer, fail, or let the
request's deadline pass.

**TokenBucket, RateLimiter.** Time is kept as ages, which is all the code can
tell. `MaxPause` bounds the time a goroutine may be kept from running between the
mutex and `Allow`; it is assumed to be at most the idle limit (ten minutes). The
bucket of `golang.org/x/time/rate` is external and modelled as one that gains
`Rate` parts of a token at every tick. `RateWindow` takes the limiter's steps and
counts, from a moment of its choice on, the requests admitted and the time passed: it
is what the limit means to a client, stated for the proofs only.

**Handler.** A request is a goroutine that goes through the chain: the allow list,
the limiter (its steps are those of `RateLimiter`, for the address of the
request), the outer mux with the public routes, authentication with its delay, and
a handler, which answers or panics. The outer mux may answer by itself: for a path
that is not clean `net/http` redirects before any handler (`Redirect`). Recovery and
logging are what happens at the end. Middlewares that neither answer
nor change a state others see are passed without a step. `wrote` counts the calls
of `WriteHeader`, so that a branch that goes on after its answer can be told.

**Deployment, Updater, Service.** A file is absent, broken, or a build. The model relies on one
fact of Windows: the file a process was started from can be renamed, but neither
removed nor replaced. Every step of `downloadAndVerify` may fail and has the
failure's branch of the code; the process may die between any two. `UpdateTo` of
the release channel is a library and one step. The service control manager
starts, stops, and recovers a service that failed (`os.Exit(1)`, a crash), as far as
it was told to: `Install` sets the recovery in two calls, of which each may fail,
so that a service is installed that is recovered after a crash only, or not at all;
it is left in place, and a second `Install` is refused. The comment at
`service.go:286` says which ends the two calls are about. The updater is enabled.
`Deployment` knows neither files nor processes: one build is deployed, and it changes
in one step, to a build that was published. `Service` implements it: the build is the
one under the executable's name, if it runs, and otherwise the one in the backup.

**Query, Catalog, Store.** One call of the store. In `Query` a row is its value in
the sorted column, a statement a sequence of tokens: words, white space, and the
marks that begin and end comments, in any order. `StripBlocks` and `StripLines` are
the two loops of `stripSQLComments`; `Reading` is how SQL finds comments, from left to
right, and says what the database reads. The database is external: `TOP n` also returns
the rows that are equal to the `n`-th in a sorted result, and the one `TOP` that
`enforceTopN` writes binds the first `SELECT` only: of a union, `rows` are those the
database returns with it, however many. Go's `int` is a number of `IntMax` that wraps around.
In `Catalog` every call of `odbc32.dll` is a step that may fail, and the deferred
releases are a stack that is run when the call returns. The library is external:
a handle with something below it is not freed, and freeing a connection frees its
statement. A deadline is looked at between rows only, as in the code.

Definitions marked as mutants in the modules are what a plausible slip in the code
would make of the definition after them; every property is violated when
its mutant takes that definition's place.

## 4. The runs

| run | properties | states | bounds and why they are enough |
|---|---|---|---|
| `load` | `TypeOK`, `LoadedIsSound`, `GlobsReachWatcher`, `AllReported`, `FirstEntryWins`, `NoCaseDuplicate` | 128,804 | up to three database entries and four entries met by the loop, explicit ones in two cases, globs that list a file twice or one without a name; two keys, of a text of every kind; two addresses; environment unset, empty, short or long. A shadowed duplicate of a missing file needs three entries |
| `glob_walk` | `WalkExact`, `NotifiedAlike` | 152,424 | directories up to two deep, names in both cases, three extensions; twelve patterns. One level below, at and above the base all occur |
| `watcher` | `TypeOK`, `OneHandle`, `MapsAgree`, `NoCaseClash`, `ClaimHolds`, `BatchHasDeadline`, `RegistrySpec` | 649,917 | three files, two globs, two aliases and a third that differs in case; `BasePoll` 1 and `MaxBackoff` 3, so that doubling passes the maximum |
| `watcher_live` | `BatchFlushed`, `ThreadsStop`, `Discovered` | 35,343 | two files of two globs with one alias, one of them notified |
| `requests` | `CacheFresh`, `ListingCurrent`, `CleanStop`, `Answered`, `WritersEnter`, `WaitsOrdered` | 29,448 | one database, registered while it runs, two requests, one registrar, one connection. A cycle of waiting needs two requests and a writer; the safety properties are proved for any number of each, so the run only has to show them alive |
| `http` | `EntryKept`, `BucketSpec`, `Forgotten`, `AnsweredOnce`, `Guarded`, `Served` | 50,407 | two clients, one of them allowed, two requests, a public and a guarded route; an entry is kept just long enough for its bucket to fill |
| `service` | `NoDoubleClose`, `FailedUpdateUndone`, `SomethingLeft`, `UpdateTakesEffect`, `DeploymentSpec` | 50,790 | three builds: one running, one installed, one that could be installed after it; both channels, a token for the fallback; three kinds of recovery |
| `store` | `PageRight`, `VerdictRight`, `PlainIsCapped`, `AllReleased`, `ListingWhole` | 999,694 | all limits and offsets of four bits, tables of up to four rows with two values, a maximum of two rows; statements with up to three marks, words or line ends before the first word, or up to four tokens behind `SELECT`, which is enough for a comment within another of either kind, a `TOP` with anything around it, and a union; lists of up to three tables |
| `requests_throw` | `NoThrow` | violated | the unsynchronised map |
| `statement_kept` | `StatementKept` | violated | white space before `SELECT` |
| `listing_partial` | `AllTables` | violated | a fetch that fails |
| `glob_root` | `PolledIsRecognised` | violated | a recursive glob at the root of a volume |

Deadlock is checked in the runs of the watcher and of the HTTP layer, which never
stop. It is not in `load`, `glob_walk` and `store`, which are calls that return;
in `requests`, which ends when the pool is closed or the process is dead; and in
`service`, which ends when the service was removed and its executable is gone.
That nobody waits for ever in `requests` is `Answered` and `WritersEnter`, and that
nobody waits in a ring is `WaitsOrdered`. The types of `http` and of `service` are
proved (`ChainSafe`, `UpdateSafe`) and not checked by a run.

### Fairness

* Watcher: a goroutine that can run does, the ticker ticks, and the maximum
  timer, which nothing restarts, fires: weak fairness. The quiet timer gets none,
  since every event restarts it. `PollStop`, `FlushOnDone` and `NotifyClosed` are
  cases of a Go `select` in which other cases keep being ready; Go chooses at
  random, so no ready case is passed over for ever: strong fairness. Nothing is assumed of the
  disk, of fsnotify or of the operator; `Discovered` says "if the file can be
  opened from some time on and the service stays up".
* Requests: weak fairness of steps that need no lock, strong fairness of steps
  that take a mutex or a connection (Go's mutex in starvation mode and
  `database/sql` hand over to the first in line). The driver answers in the end;
  nobody needs to start a request, register or stop.
* HTTP layer: time passes, the sweeper's ticker fires, the goroutine of a request
  runs. That a handler ends, which `Served` needs, is what `Answered` of `Requests`
  shows.
* Service: the service control manager carries out the recovery action it was
  given, the restarter runs, `Stop` ends. The last is an assumption: `Pool.Close` may wait
  behind a listing that pings a database that does not answer.

## 5. The proofs

* `ConfigProofs`: `LoadSafe`, `ExpansionSafe` and `GlobsKept`. For every file, environment and
  disk: a configuration that is loaded is sound, one that is refused is refused with all its
  faults, the expansion keeps the first entry of every alias and never two that
  differ in case. `Reported` says which checks are in `errs` at each point, `LoopInv`
  that `seen` holds the folded aliases of *all* entries met so far, kept or not, and
  `result` the kept ones, and `Taken` that without globs the first thing the loop
  meets is an entry it keeps, so that something is loaded. `TypeOK` carries that no
  reference of the file survives. `GlobsKept`, that the watcher is given the globs of
  the file, each once and in order, says of the entry at each position of the list how
  many globs there are up to it: `GlobInv` counts positions of the file as far as
  `KeepGlobs` came, and `Copied` that reading the file keeps what is a glob. The keys in
  `LoadSafe` are those of the file: `Copied` ties them to what `validate` sees, and
  `FitsUnlessBad` says which texts of the file pass its test.
* `GlobPathsProofs`: `WalkCorrect`, a finished walk has found exactly what it
  should, for every pattern and disk; and `RecognisedAlike`, `PathMatchesGlob` accepts
  what the walk found and a notification of the same file in another case, under the
  same alias. It assumes that no recursive glob begins at the root of a volume, which
  `glob_root` shows to be needed. `WalkInv` ties what is found, hidden and still to be
  visited to the disk.
* `WatcherProofs`: the inductive invariant is `TypeOK`, `OneHandle`, `MapsAgree`,
  `NoCaseClash`, `ClaimHolds`, `BatchHasDeadline` with "the maximum timer is never
  left stopped", and `IntervalBounded`. `NoCaseClash` alone is not inductive,
  since `Register` compares aliases exactly: what makes it so is `ClaimHolds`, that a thread past
  its check either still finds its alias free or finds it taken, with a
  connection, by the very same alias. That needs `AliasFromPath` to lower-case and
  the configuration to have no two aliases that differ in case (`ConfiguredMap`
  proves the latter from `GlobEntries`). From the invariant follow `TypeCorrect`,
  `PoolSafe`, `CaseSafe`, `TimersSafe`, and `Refinement`: the watcher implements
  `Registry`.
* `RequestsProofs`: `RequestsSafe` and `NoRing`. `LockInv` says of every goroutine whether its
  place in the code is one where it holds, or waits for, the lock; from it follows
  that a listing, which pings inside its read section, sees no registration. A
  handle changes from none to an open one once and then stays until `Close`: hence
  what a request holds (`Held`) and what a cache keeps agree with the pool.
  `NoRing` proves `WaitsOrdered`: a goroutine either can take a step (`Ready`) or waits
  for goroutines that are under way and of a lower `Rank`: `cacheMu` is waited for by the
  highest, then comes who waits to get at the pool's lock, the writer that waits for its readers,
  and who waits for a connection; all the others can move. `PlaceInv` says that whoever is counted at the lock is at a place
  where it is, so that what is waited for is somebody who will leave.
* `RateLimiterProofs`: `LimiterSafe`, `LimiterIsBucket` and `RateKept`. `MarkedSince` relates
  the age of a request to that of its entry's mark, so a sweep never takes an entry
  in use; `Gained` says how much a bucket must hold by the age of the mark.
  `LimiterIsBucket` assumes `FullWhenStale`: a full bucket takes no longer to earn
  than an entry is kept. Under the same assumption `RateKept` bounds what a client
  gets in any window of time by its burst and its rate (`WindowInv`: what was taken
  and what is left were there at the start or were earned since).
* `HandlerProofs`: `ChainSafe` (`AnsweredOnce`, `Guarded`) from an invariant that
  says what a request went through where it is, and `ChainLimits`: every behaviour of
  the chain is one of the limiter. With it `ChainKeepsEntries` and `ChainIsBucket` are
  the limiter's own theorems; nothing of the limiter is proved twice. `EveryoneServed`
  is a liveness theorem, see below: `Onward` gives the order of the places, `NeverStuck`
  says that a request in the chain always has a step, and nobody else moves it.
* `ServiceProofs`: `UpdateSafe`, `SwapIsAtomic` and `UpdateArrives`. `ImageKept` says that the file the process was
  started from still holds its build, `Moved` where that file is at each point of
  the swap, `ProcessParts` that nothing is left of a process that ended. `SwapIsAtomic`
  is the refinement of `Deployment`; it needs `Away`, that while the executable is moved
  away nothing that starts is in its place, and that what is copied there was published.
  `UpdateArrives` is a liveness theorem: `Attended` says that only a stop cancels the
  context and sends the restarter away, so that an update goes from the restarter that
  waits over the one that stops the process to a service that fell, and from there to
  its recovery.
* `StoreProofs`: `PagesRight` (`PageRight`, for every table, limit, offset, negative
  ones included, and width of `int`; `PlainIsCapped`, for every statement), and
  `ListingsWhole`, for every list of tables. For a page, `Collected` says that
  what `scanRows` has is the part of the rows between the offset, if it is positive, and
  the rows read, and `PageFetched` that the sum of limit and offset, which may wrap
  around, either is the sum or makes the database refuse the call. `TopsOnly` says
  that what the database may return does not change once the statement is written. For a listing, `HandlesAt` says
  which handles exist at each call and that the deferred releases are theirs, in
  the order that frees them.

Liveness. The provers have no rule for `ENABLED`, and so none for `WF`. `UpdateArrives`
and `EveryoneServed` therefore take as their hypothesis what weak fairness says
when the condition of a step is written out: infinitely often it cannot be taken, or
infinitely often it is. That these conditions are those under which the steps are
enabled was compared on the instances of the runs; there every behaviour
of `FairSpec` is one of `Spec /\ Fairness`. The proofs
are chains of one-step arguments (from a place, a step leads on or stays; the fair step
leads on) that the temporal prover puts together; without the fairness they fail.

Only model-checked: `BatchFlushed`, `ThreadsStop`, `Discovered`, `Answered`,
`WritersEnter` and `Forgotten`. Each of them needs an induction over time that goes
down a set or a counter (the paths of a batch, the goroutines ahead in a queue, the age of
the sweep), and induction is out of the provers' reach. For two of them the safety part is
proved: `NoRing` for `Answered` and `WritersEnter`, and `TimersSafe` for `BatchFlushed`.
`VerdictRight` is model-checked too: it compares two readings of a text from its beginning
to its end, which needs an induction over the text.

The assumptions on constants are named in the modules (`NamesAssumption`,
`WatcherAssumption`, `RateLimiterAssumption`, `UpdaterAssumption`,
`PathsAssumption`, ...); TLC evaluates them in every run.

## 6. Where the code and its documents disagree

Shown by a run:

* `requests_throw`: two requests with a filter on one database use the map of a
  `ColumnCache` without a lock (`schema.go:54` and `61`); the Go runtime may end the process, which no
  recovery catches.
* `statement_kept`: `enforceTopN` tests the trimmed statement and cuts the one that
  is not (`query.go:235-241`): white space before `SELECT` damages it.
* `listing_partial`: a fetch that fails ends the list of tables like its end, and a
  name that cannot be read is skipped (`catalog_windows.go:126-137`); the client gets
  200 with part of the tables (`handlers.go:23`: "returns all user tables").
* `glob_root`: for a glob like `Z:\**\*.mdb`, `PathMatchesGlob` (`glob.go:156`) is
  false for every file, and `tryRegister` asks it for polled files too: such
  files are found at start only.

Met while modelling, in the model as the code does it, without a run of their own:

* `tryRegister` logs "database added" and returns true when the other goroutine
  registered the alias, possibly for another file (`watcher.go:249`; the comment at
  line 221 says "Returns true if a new database was registered").
* A `tryRegister` under way registers after `Pool.Close` and opens a connection
  that nobody closes (`pool.go:152`; line 140: "Close closes all database
  connections").
* A file `A.MDB` under `*.mdb` is accepted when notified and never listed by a poll
  where the disk's listing compares case (`glob.go:82`).
* A recursive glob leaves out the files of its base (`glob.go:116`, as line 99
  says; `config.go:71` says "anywhere under").
* `Databases` pings without the request's context inside the read section
  (`pool.go:115`): a database that does not answer keeps a listing beyond
  `request_timeout`, and every other request too once a registration waits.
* The sweep deletes entries whose bucket is not full (`middleware.go:154`): with a
  burst above 600 times the rate a client exceeds the sustained rate.
* A downloaded build whose version command cannot be run is installed
  (`updater.go:265`; line 237 says it is verified first).
* A crash between the rename and the end of the copy leaves nothing to restart
  (`updater.go:284`).
* When `run` returns an error the service stops itself, which is no failure for
  the service control manager (`service.go:53`; line 263 says "on any failure").
* A negative offset is accepted and lowers the number of rows fetched
  (`query.go:77` and `139`): `limit=10&offset=-5` is answered with 200 and five rows at
  most, `limit=10&offset=-10` with an error (`openapi.yaml:150` says "Number of rows to
  skip" and names no minimum). `PageRight` describes these pages as they are.
* `max_rows` is called a "hard cap on rows returned per request"
  (`configs/config.example.yaml:83`) and is none: a sorted result may exceed it by ties
  (`query.go:91`). The `TOP` that `enforceTopN` writes binds the first `SELECT` of a
  union only (`query.go:241`), and nothing is written into a statement that begins with
  WITH or with a comment, or that has a TOP already, be it larger, in a literal or in a
  subquery (`query.go:237`; `openapi.yaml:192`: "A TOP N limit is enforced automatically
  if not present"). `SELECT TOPIC ...` is taken for a TOP; a TOP after a tab or a new line
  is not seen and gets a second one. `PlainIsCapped` is about the statements that are left.
* Block comments are removed before line comments (`query.go:209-229`), SQL reads from
  left to right: when a block comment begins within a line comment, the text that is
  validated is another than the one the database reads, so that a `SELECT` on the next
  line may be refused (line 198: "Comments and leading whitespace are stripped before
  checking"). `VerdictRight` holds for all others, and not without its `~Mixed`. For
  the code `/*/` is a whole comment.
* Any statement that begins with SELECT or WITH passes, `SELECT ... INTO`
  too, which writes a table (`query.go:202`; `openapi.yaml:4` and `191` and `README.md:100`
  call the API read-only). Connections are opened without a read-only mode
  (`driver_windows.go:97`; `pool.go:46` says "All connections use ReadOnly=1"), so that the
  permissions of the files decide; what the driver makes of such a statement is outside
  the models.
* A variable that is not set is noticed in `auth.keys` only, and only where its trace
  is at the beginning and at the end of a key or leaves it too short (`config.go:235`
  and `239`; line 142 says "Fails loudly", line 154 "a sentinel that validation will
  catch"): a long key with a reference in it, a path or a glob is loaded with the trace.
  `LoadedIsSound` says of keys what the code does find.
* An alias whose database did not open at start is listed, and its tables are
  answered with 404, "unknown database" (`pool.go:60`, `store.go:48`).
* `rate_limit: 0` becomes the default of 10 (`config.go:192`; line 50 says "0 =
  unlimited"). A negative `max_rows` or `check_interval` passes validation
  (`config.go:201` and `210`); with the latter `time.NewTicker` panics.
* A file named `.mdb` gets the empty alias (`glob.go:204`; `config.go:260`: "alias is
  required"), under which no route finds it. `LoadedIsSound` says that only a glob
  can bring it in.
* When `configureRecovery` fails half way the service stays installed with part of
  its recovery, and a second `install` fails because it exists
  (`service.go:252-291`; `README.md:177`).
* No log line is written for a request whose handler panics
  (`middleware.go:218`), since logging is inside recovery.
* A table of an unknown name is answered with 500 (`openapi.yaml:319` promises 404
  for "Database or table"), and a table named `tables` cannot be queried, since its
  route is the one of the list.
* An infinite or undefined number passes `NormalizeValue` (`types.go:13` calls its
  results JSON-safe), and `writeJSON` drops the error of the encoder
  (`response.go:24`): the answer is 200 without a body. A result without rows is
  `"rows": null`. The text of a hyperlink is taken out of a `string` only, not of
  the bytes a driver may deliver.
* The length of the connection string is counted in runes where the driver expects
  UTF-16 units (`catalog_windows.go:55`); it matters for paths with characters
  outside the basic plane.
* `write_timeout` and `request_timeout` have the same default, so that the answer
  of a request that took all its time may not be written any more.

## 7. What is not modelled

* `NormalizeValue` (`types.go`): a conversion of one value at a time, by its type.
* The choice of the ODBC driver (`driver_windows.go`): a fixed order of names, read
  once from the registry. That a file opens or does not is in the actions of
  `Pool` that open one.
* The driver probe (`probe.go`) and the file permissions (`acl.go`): one command
  each and the reading of its answer.
* The tunnel: a listener of a library; its failure is `RunFails` of `Service`.
* The command line (`cmd/mdbapi`): sequential commands for an operator. Those that
  install and remove the service are in `Service`; removing it while it runs is
  not, the service manager keeps it until it has stopped. `cmd/probe` and
  `cmd/integration` are tools that test a running service by hand.
* The text of JSON, YAML and OpenAPI documents, logging, and the comparison of
  addresses and keys: conversions without shared state. Of the settings one of
  each kind is in `Config`.
* Wildcards within the directories of a glob, and, in `Query`, quoted texts (in which a
  mark begins no comment for the database, and does for the code), marks that share a
  character, tabs, and words that only begin with SELECT or WITH, which the code takes for
  them and the database refuses.
