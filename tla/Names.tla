-------------------------------- MODULE Names --------------------------------
(***************************************************************************)
(* The names every module about databases speaks of.                       *)
(***************************************************************************)

CONSTANTS
    Alias,      \* names a database can be exposed under
    Path,       \* database files, by their path
    None,       \* "no file": a key that is not in a map
    Fold        \* Fold[a] is strings.ToLower(a): EqualFold compares it

ASSUME NamesAssumption ==
    /\ None \notin Path
    /\ Fold \in [Alias -> Alias]
    /\ \A a \in Alias : Fold[Fold[a]] = Fold[a]

\* A map from aliases to files; None is the absent key.
PartialMap == [Alias -> Path \cup {None}]
EmptyMap == [a \in Alias |-> None]
=============================================================================
