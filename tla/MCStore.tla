------------------------------ MODULE MCStore ------------------------------
(***************************************************************************)
(* Instances of Store.tla for TLC: all numbers an int of four bits can be  *)
(* may be sent.  Statements have either a beginning of all sorts, with     *)
(* comments that are closed, nested, mixed or left open, and little behind *)
(* the first word, or little before SELECT and all sorts of words and      *)
(* white space behind it.                                                  *)
(***************************************************************************)
EXTENDS Store

MCAsked == (-IntMax - 1)..IntMax

UpTo(n, S) == UNION {[1..m -> S] : m \in 0..n}

Separated(s) == \A i \in 2..Len(s) : ~({s[i - 1], s[i]} \subseteq Word)

Opened == {b \o <<first>> \o r :
    b \in UpTo(3, {"--", "/*", "*/", "newline", "word"}), first \in {"select", "with", "word"},
    r \in {<<>>, <<"--", "*/">>, <<"newline", "select">>}}

Worded == {b \o <<"select">> \o r :
    b \in {<<>>, <<"space">>, <<"newline">>, <<"/*", "*/">>},
    r \in UpTo(4, {"space", "newline", "top", "topic", "union", "--"})}

MCStatement == {s \in Opened \cup Worded : Separated(s)}

MCCatalogues == {s \in UNION {[1..n -> Name] : n \in 0..Cardinality(Name)} : IsInjective(s)}
=============================================================================
