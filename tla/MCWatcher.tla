------------------------------ MODULE MCWatcher ------------------------------
(***************************************************************************)
(* Instances of Watcher.tla for TLC.                                       *)
(***************************************************************************)
EXTENDS Watcher, TLC

File(a, p) == [alias |-> a, path |-> p, glob |-> TRUE]
Explicit(a, p) == [alias |-> a, path |-> p, glob |-> FALSE]

(* Two files of two globs claim one alias: C:\data\a.mdb and C:\data\a.accdb,
   with C:\data\*.mdb and C:\data\*.accdb configured. *)
TwinAlias == {"a"}
TwinPath == {"a.mdb", "a.accdb"}
TwinFold == [a \in TwinAlias |-> a]
TwinEntries == <<File("a", "a.mdb"), File("a", "a.accdb")>>
TwinMatchGlob == <<{"a.mdb"}, {"a.accdb"}>>
TwinAliasOf == [p \in TwinPath |-> "a"]

(* The same, next to an explicit database whose alias is in mixed case and whose
   file a glob lists as well, under an alias that clashes with it. *)
BothAlias == {"S", "s", "a"}
BothPath == {"s.mdb", "a.mdb", "a.accdb"}
BothFold == [a \in BothAlias |-> IF a = "S" THEN "s" ELSE a]
BothEntries == <<Explicit("S", "s.mdb"), File("a", "a.mdb"), File("s", "s.mdb"), File("a", "a.accdb")>>
BothMatchGlob == <<{"s.mdb", "a.mdb"}, {"a.accdb"}>>
BothAliasOf == [p \in BothPath |-> IF p = "s.mdb" THEN "s" ELSE "a"]
=============================================================================
