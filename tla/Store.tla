------------------------------- MODULE Store -------------------------------
(***************************************************************************)
(* One call of the store (internal/mdb/store.go) on an open database: a    *)
(* query (Query.tla), which goes through database/sql, or a listing        *)
(* (Catalog.tla), which does not.                                          *)
(***************************************************************************)
EXTENDS Query, Catalog

vars == <<queryVars, catalogVars>>

Init ==
    \/ QueryInit /\ CatalogAt("off") /\ existing = <<>>
    \/ NoQuery /\ CatalogAt("env")

Next ==
    \/ QueryNext /\ UNCHANGED catalogVars
    \/ CatalogNext /\ UNCHANGED queryVars

Spec == Init /\ [][Next]_vars

TypeOK == QueryTypeOK /\ CatalogTypeOK
=============================================================================
