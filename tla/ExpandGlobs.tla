----------------------------- MODULE ExpandGlobs -----------------------------
(***************************************************************************)
(* expandGlobs (internal/config/glob.go) as the loops they are: the outer  *)
(* one takes up what the configuration lists, an entry or the files of a   *)
(* glob, and the inner one goes once over these, remembers in `seen' the   *)
(* lower-cased aliases, and appends to `result' what it keeps.  The list   *)
(* it returns is modelled by the set of its elements; the order is that of *)
(* the entries.  Config.tla is the rest of Load, which calls it.           *)
(***************************************************************************)
EXTENDS GlobEntries

VARIABLES
    entries,        \* what the outer loop has taken up so far
    files,          \* the files on the disk when the globs are expanded
    next,           \* the entry the loop is at
    seen,           \* lower-cased aliases kept so far
    result          \* what the function will return

loopVars == <<entries, files, next, seen, result>>

LoopTypeOK ==
    /\ entries \in Seq(Entry)
    /\ files \in SUBSET Path
    /\ next \in 1..(Len(entries) + 1)
    /\ seen \in SUBSET Alias
    /\ result \in SUBSET [alias : Alias, path : Path]

LoopInit ==
    /\ entries = <<>>
    /\ files = {}
    /\ next = 1
    /\ seen = {}
    /\ result = {}

Running == next \in 1..Len(entries)
Done == next = Len(entries) + 1

\* The outer loop goes on: list is an explicit entry, or what a glob can match.
TakeUp(list) ==
    /\ Done
    /\ entries' = entries \o list
    /\ UNCHANGED <<files, next, seen, result>>

\* Mutant: an alias counts as taken although its file does not exist.
Unmatched_MarksSeen ==
    /\ Running
    /\ ~Met(entries[next], files)
    /\ seen' = seen \cup {Fold[entries[next].alias]}
    /\ next' = next + 1
    /\ UNCHANGED <<entries, files, result>>

\* The glob of this entry does not list the file: it does not exist.
Unmatched ==
    /\ Running
    /\ ~Met(entries[next], files)
    /\ next' = next + 1
    /\ UNCHANGED <<entries, files, seen, result>>

\* "collision ... skipping": the alias was seen.
Collision ==
    /\ Running
    /\ Met(entries[next], files)
    /\ Fold[entries[next].alias] \in seen
    /\ next' = next + 1
    /\ UNCHANGED <<entries, files, seen, result>>

\* Mutant: remembers the alias as it is written.
Append1_ExactCase ==
    /\ Running
    /\ Met(entries[next], files)
    /\ Fold[entries[next].alias] \notin seen
    /\ seen' = seen \cup {entries[next].alias}
    /\ result' = result \cup {[alias |-> entries[next].alias, path |-> entries[next].path]}
    /\ next' = next + 1
    /\ UNCHANGED <<entries, files>>

\* The alias is new: remember it and keep the entry.
Append1 ==
    /\ Running
    /\ Met(entries[next], files)
    /\ Fold[entries[next].alias] \notin seen
    /\ seen' = seen \cup {Fold[entries[next].alias]}
    /\ result' = result \cup {[alias |-> entries[next].alias, path |-> entries[next].path]}
    /\ next' = next + 1
    /\ UNCHANGED <<entries, files>>

LoopNext == Unmatched \/ Collision \/ Append1

-----------------------------------------------------------------------------

\* What the function returns is the first entry of every alias, and nothing
\* else: an entry shadowed by a file that does not exist is not lost, and an
\* entry shadowed by a skipped duplicate is not revived.
FirstEntryWins == Done => result = FirstEntries(entries, files)

\* No two databases of the configuration differ only in the case of their
\* alias, at any point of the loop: what the pool and the case-insensitive
\* comparison of the watcher rely on.
NoCaseDuplicate ==
    \A r1, r2 \in result : Fold[r1.alias] = Fold[r2.alias] => r1 = r2
=============================================================================
