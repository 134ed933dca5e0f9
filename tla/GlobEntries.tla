----------------------------- MODULE GlobEntries -----------------------------
(***************************************************************************)
(* The databases of the configuration file (internal/config): which of     *)
(* them expandGlobs keeps, stated without the loop that computes it.       *)
(* ExpandGlobs.tla is the loop.                                            *)
(*                                                                         *)
(* The configuration is flattened to one sequence of entries in the order  *)
(* expandGlobs meets them: an explicit entry, or one entry for each file   *)
(* that a glob can match, in the order the glob lists them.  A glob's file *)
(* is met only if it exists.                                               *)
(***************************************************************************)
EXTENDS Names, Naturals, Sequences

Entry == [alias : Alias, path : Path, glob : BOOLEAN]

\* The loop meets entry e when files is what the disk holds.
Met(e, files) == e.glob => e.path \in files

\* Entry i is kept: no entry met before it has its alias, whatever the case.
Kept(entries, files, i) ==
    /\ Met(entries[i], files)
    /\ \A j \in 1..(i - 1) :
            Met(entries[j], files) => Fold[entries[j].alias] # Fold[entries[i].alias]

\* The first entry of every alias wins.
FirstEntries(entries, files) ==
    {[alias |-> entries[i].alias, path |-> entries[i].path] :
        i \in {k \in 1..Len(entries) : Kept(entries, files, k)}}

\* The list of kept entries as the map NewPool builds from it.
AsMap(kept) ==
    [a \in Alias |-> IF \E r \in kept : r.alias = a
                     THEN (CHOOSE r \in kept : r.alias = a).path
                     ELSE None]
=============================================================================
