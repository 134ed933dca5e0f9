---------------------------- MODULE MCGlobPaths ----------------------------
(* Instances of GlobPaths.tla for TLC: the words a and b, a in both cases. *)
EXTENDS GlobPaths

MCName == {<<"a">>, <<"A">>, <<"b">>, <<"a", "b">>}
MCExt == {"mdb", "MDB", "txt"}
MCLowerWord == [w \in {"a", "A", "b"} |-> IF w = "A" THEN "a" ELSE w]
MCLowerExt == [e \in MCExt |-> IF e = "MDB" THEN "mdb" ELSE e]

MCFile ==
    {[dir |-> d, stem |-> s, ext |-> e] :
        d \in {<<>>, <<<<"a">>>>, <<<<"A">>>>, <<<<"a">>, <<"b">>>>, <<<<"a", "b">>>>},
        s \in {<<"a">>, <<"A">>, <<"b">>}, e \in MCExt}

\* Files in and around the bases, in both cases, and some of another extension.
Sample ==
    {f \in MCFile : \/ f.stem = <<"a">> /\ f.ext = "mdb"
                    \/ f.stem = <<"A">> /\ f.ext = "MDB" /\ f.dir # <<>>
                    \/ f.stem = <<"b">> /\ f.ext = "txt" /\ Len(f.dir) = 2
                    \/ f.stem = <<"b">> /\ f.ext = "MDB" /\ Len(f.dir) = 1}

MCPattern ==
    {[base |-> b, recursive |-> r, ext |-> e] :
        b \in {<<<<"a">>>>, <<<<"A">>>>, <<<<"a">>, <<"b">>>>}, r \in BOOLEAN, e \in {"mdb", "MDB"}}

RootPattern == {[base |-> <<>>, recursive |-> TRUE, ext |-> "mdb"]} \cup MCPattern
=============================================================================
