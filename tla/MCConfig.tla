------------------------------ MODULE MCConfig ------------------------------
(***************************************************************************)
(* Instances of Config.tla for TLC: files in which one part takes all its  *)
(* values while the others take a few, explicit aliases in two cases, and  *)
(* globs that list a file twice, under one alias or under two.             *)
(***************************************************************************)
EXTENDS Config

MCWord == {"db", "DB", "key"}
MCAlias == Given \cup {"", "b"}
MCPath == Given \cup {"p1", "p2"}
MCFold == [a \in MCAlias |-> IF a = "DB" THEN "db" ELSE a]

Found(a, p) == [alias |-> a, path |-> p, glob |-> TRUE]
MCListed ==
    [g \in Given |-> CASE g = "db"  -> <<Found("db", "p1"), Found("b", "p2")>>
                       [] g = "key" -> <<Found("b", "p1"), Found("b", "p2")>>
                       [] g \in {"joined", "longJoined"} -> <<Found("", "p1")>>
                       [] OTHER     -> <<>>]

Entries == [alias : {""}, path : {"", "key"}, glob : {"db", "key", "ref", "within"}] \cup
           [alias : {"", "db", "DB", "ref"}, path : {"", "key"}, glob : {""}]
Recursive == [alias |-> "", path |-> "", glob |-> "db"]
Explicit == [alias |-> "DB", path |-> "key", glob |-> ""]

Base == [keys |-> <<"key">>, dbs |-> <<Explicit, Recursive>>, allowed |-> <<>>,
         tunnel |-> "", rate |-> "absent", typed |-> "db"]

MCFile ==
    {[Base EXCEPT !.keys = k, !.allowed = a] :
        k \in SeqOf({"", "db", "key"} \cup Reference, 2), a \in SeqOf({"ip", "bad"}, 2)} \cup
    {[Base EXCEPT !.dbs = d, !.keys = k] : d \in SeqOf(Entries, 2), k \in {<<>>, <<"ref">>}} \cup
    {[Base EXCEPT !.dbs = <<d, Recursive, Explicit>>] : d \in Entries} \cup
    {[Base EXCEPT !.tunnel = t, !.rate = r, !.typed = v, !.allowed = a, !.dbs = d] :
        t \in {"", "none", "tsnet", "other"}, r \in {"absent", "zero", "positive", "negative"},
        v \in {"", "db", "ref", "within", "longWithin"}, a \in {<<>>, <<"cidr">>, <<"bad">>},
        d \in {<<>>, <<Recursive, Explicit>>}}
=============================================================================
