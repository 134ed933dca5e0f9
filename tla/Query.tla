------------------------------- MODULE Query -------------------------------
(***************************************************************************)
(* The two queries of a database (internal/mdb/query.go): QueryTable, one  *)
(* page of a table, and ExecuteSQL, a statement of the client, which is    *)
(* checked and given a row cap.  Both end in scanRows.                     *)
(*                                                                         *)
(* Access has no OFFSET: for a page limit + offset rows are fetched and    *)
(* the first ones skipped.  The rows are those the filters or the          *)
(* statement select, in the order of the result; all that matters of a row *)
(* is its value in the column it is sorted by.  The database is external:  *)
(* TOP n returns n rows and, of a sorted result, all rows that are equal   *)
(* to the n-th as well; a TOP that is not positive is an error.            *)
(*                                                                         *)
(* A statement is a sequence of tokens: words, the marks of comments, and  *)
(* white space, where "space" is one blank and "newline" the end of a      *)
(* line.  "topic" stands for a word that begins with TOP, "word" for any   *)
(* other.  It makes no difference to the code whether a word stands in a   *)
(* quoted text.                                                            *)
(***************************************************************************)
EXTENDS Integers, Sequences, SequencesExt

CONSTANTS
    MaxRows,    \* api.max_rows
    IntMax,     \* the largest int
    Asked,      \* the numbers a client may send for limit and offset
    Value,      \* values of the sort column
    MaxTable,   \* bound on the rows that are selected
    Statement   \* the statements a client may send

White == {"space", "newline"}
Word == {"select", "with", "union", "top", "topic", "word"}
Token == Word \cup White \cup {"--", "/*", "*/"}

\* A blank text is refused before it comes here, and two words are separated.
ASSUME QueryAssumption ==
    /\ IntMax \in Nat
    /\ MaxRows \in 1..IntMax
    /\ Asked \subseteq (-IntMax - 1)..IntMax
    /\ Value \subseteq Nat
    /\ MaxTable \in Nat
    /\ Statement \subseteq Seq(Token) \ {<<>>}
    /\ \A s \in Statement : \A i \in 2..Len(s) : ~({s[i - 1], s[i]} \subseteq Word)

VARIABLES
    call,           \* QueryTable or ExecuteSQL, if any
    query,          \* the statement of the client
    wrapped,        \* what is sent in its place
    rows, sorted,   \* what is selected, and whether its order is asked for; of a union
                    \* the rows that are selected with the cap in its first SELECT
    limit, offset,  \* QueryOpts
    fetched,        \* how many rows the database returns
    rowIdx, result, \* scanRows
    pc

request == <<call, query, rows, sorted>>
page == <<limit, offset>>
scan == <<fetched, rowIdx, result>>
queryVars == <<request, wrapped, page, scan, pc>>

InOrder(s) == \A i, j \in 1..Len(s) : i <= j => s[i] <= s[j]

\* enforceTopN adds a row cap and may damage the word after it.
QueryTypeOK ==
    /\ call \in {"QueryTable", "ExecuteSQL", "none"}
    /\ query \in Seq(Token)
    /\ wrapped \in Seq(Token \cup {"cap", "damaged"})
    /\ rows \in Seq(Value) /\ Len(rows) <= MaxTable
    /\ sorted \in BOOLEAN
    /\ limit \in Int /\ (pc \in {"fetch", "scan", "done"} /\ call = "QueryTable" => limit \in 1..MaxRows)
    /\ offset \in (-IntMax - 1)..IntMax
    /\ fetched \in 0..Len(rows)
    /\ rowIdx \in 0..fetched
    /\ result \in Seq(Value)
    /\ pc \in {"clamp", "validate", "wrap", "fetch", "scan", "done", "error", "forbidden", "off"}

NothingRead == fetched = 0 /\ rowIdx = 0 /\ result = <<>> /\ wrapped = <<>>

\* limit and offset are 0 when they are absent or not numbers; ExecuteSQL has
\* none and skips nothing.
QueryInit ==
    /\ sorted \in BOOLEAN
    /\ \E n \in 0..MaxTable : rows \in [1..n -> Value]
    /\ sorted => InOrder(rows)
    /\ NothingRead
    /\ \/ /\ call = "QueryTable" /\ query = <<>>
          /\ limit \in Asked \cup {0} /\ offset \in Asked \cup {0}
          /\ pc = "clamp"
       \/ /\ call = "ExecuteSQL" /\ query \in Statement
          /\ limit = 0 /\ offset = 0
          /\ pc = "validate"

NoQuery ==
    /\ call = "none" /\ query = <<>> /\ rows = <<>> /\ sorted = FALSE
    /\ limit = 0 /\ offset = 0
    /\ NothingRead
    /\ pc = "off"

-----------------------------------------------------------------------------
(* QueryTable *)

Clamp ==
    /\ pc = "clamp"
    /\ limit' = IF limit <= 0 \/ limit > MaxRows THEN MaxRows ELSE limit
    /\ pc' = "fetch"
    /\ UNCHANGED <<request, wrapped, offset, scan>>

\* int addition.
IntSum(n) == IF n > IntMax THEN n - 2 * (IntMax + 1) ELSE n

\* Mutant: the rows to be skipped are not fetched.
FetchN_NoOffset == limit

FetchN == IntSum(limit + offset)

-----------------------------------------------------------------------------
(* ExecuteSQL *)

\* The first token of s, white space aside, is one of T.
Begins(s, T) == \E i \in 1..Len(s) : s[i] \in T /\ \A j \in 1..(i - 1) : s[j] \in White

\* stripSQLComments, block comments: one that is not closed stays.
StripBlocks(s) ==
    LET Step(a, t) ==
          IF a.comment = <<>>
          THEN IF t = "/*" THEN [a EXCEPT !.comment = <<t>>] ELSE [a EXCEPT !.text = Append(@, t)]
          ELSE IF t = "*/" THEN [text |-> Append(a.text, "space"), comment |-> <<>>]
               ELSE [a EXCEPT !.comment = Append(@, t)]
        end == FoldLeft(Step, [text |-> <<>>, comment |-> <<>>], s)
    IN  end.text \o end.comment

\* stripSQLComments, the rest of each line.
StripLines(s) ==
    LET Step(a, t) ==
          IF t = "newline" THEN [text |-> Append(a.text, t), in |-> FALSE]
          ELSE IF a.in \/ t = "--" THEN [a EXCEPT !.in = TRUE]
          ELSE [a EXCEPT !.text = Append(@, t)]
    IN  FoldLeft(Step, [text |-> <<>>, in |-> FALSE], s).text

\* Mutant: line comments are removed before block comments.
ReadOnly_LinesFirst == Begins(StripBlocks(StripLines(query)), {"select", "with"})

\* validateReadOnlySQL looks at the statement without its comments.
ReadOnly == Begins(StripLines(StripBlocks(query)), {"select", "with"})

Beside(I) == \E i \in I : query[i] \notin White

\* The trimmed text contains TOP between two blanks, wherever that is, or begins with
\* SELECT, one blank and TOP, be that a word or a part of one.
MentionsTop ==
    \E i \in 2..Len(query) :
        /\ query[i - 1] = "space"
        /\ \/ /\ query[i] = "top" /\ i < Len(query) /\ query[i + 1] = "space"
              /\ Beside(1..(i - 1)) /\ Beside((i + 1)..Len(query))
           \/ /\ query[i] \in {"top", "topic"}
              /\ i > 2 /\ query[i - 2] = "select" /\ ~Beside(1..(i - 3))

\* What comes after the SELECT the trimmed text begins with.
AfterSelect ==
    LET i == CHOOSE i \in 1..Len(query) : query[i] = "select" /\ ~Beside(1..(i - 1))
    IN  SubSeq(query, i + 1, Len(query))

\* Mutant: the cap is not written.
Wrapped_NoCap == query

\* enforceTopN looks at the trimmed statement and cuts six characters off the
\* one that is not: of white space and SELECT something else remains.
Wrapped ==
    IF MentionsTop \/ ~Begins(query, {"select"}) THEN query
    ELSE IF query[1] = "select" THEN <<"select", "cap">> \o Tail(query)
    ELSE <<"select", "cap", "damaged">> \o AfterSelect

Forbid ==
    /\ pc = "validate"
    /\ ~ReadOnly
    /\ pc' = "forbidden"
    /\ UNCHANGED <<request, wrapped, page, scan>>

Allow ==
    /\ pc = "validate"
    /\ ReadOnly
    /\ pc' = "wrap"
    /\ UNCHANGED <<request, wrapped, page, scan>>

Wrap ==
    /\ pc = "wrap"
    /\ wrapped' = Wrapped
    /\ pc' = "fetch"
    /\ UNCHANGED <<request, page, scan>>

-----------------------------------------------------------------------------
(* The database, and scanRows *)

\* A statement as SQL has it, where a comment begins with the first mark outside of
\* another one: its text, and whether it ends within a comment.  A driver that knows
\* no comments refuses it.
Reading(s) ==
    LET Mode(in, t) ==
          CASE in = "text" /\ t = "--"      -> "line"
            [] in = "text" /\ t = "/*"      -> "block"
            [] in = "line" /\ t = "newline" -> "text"
            [] in = "block" /\ t = "*/"     -> "text"
            [] OTHER                        -> in
        Step(a, t) ==
          [text |-> IF a.in = "text" /\ Mode(a.in, t) = "text" THEN Append(a.text, t) ELSE a.text,
           in   |-> Mode(a.in, t)]
    IN  FoldLeft(Step, [text |-> <<>>, in |-> "text"], s)

\* TOP n of a result, of which ties are also returned.
Tops(n) ==
    {m \in 0..Len(rows) :
        IF n >= Len(rows) THEN m = Len(rows)
        ELSE /\ n <= m /\ (m = n \/ sorted)
             /\ \A i \in n..m : rows[i] = rows[n]
             /\ sorted /\ m < Len(rows) => rows[m + 1] # rows[n]}

Capped == Len(wrapped) > 1 /\ wrapped[2] = "cap"

\* The cap is a TOP of the first SELECT, which others follow.
Unioned == "union" \in ToSet(Reading(wrapped).text)

Damaged == \E i \in 1..Len(wrapped) : wrapped[i] = "damaged"

Fetch ==
    /\ pc = "fetch"
    /\ \/ /\ call = "QueryTable"
          /\ FetchN > 0
          /\ fetched' \in Tops(FetchN)
       \/ /\ call = "ExecuteSQL"
          /\ ~Damaged
          /\ fetched' \in IF Capped /\ ~Unioned THEN Tops(MaxRows) ELSE {Len(rows)}
    /\ pc' = "scan"
    /\ UNCHANGED <<request, wrapped, page, rowIdx, result>>

\* The database refuses the statement, or fails.
FetchFails ==
    /\ pc = "fetch"
    /\ pc' = "error"
    /\ UNCHANGED <<request, wrapped, page, scan>>

\* A row is counted, and kept unless it is to be skipped.
ScanRow ==
    /\ pc = "scan" /\ rowIdx < fetched
    /\ rowIdx' = rowIdx + 1
    /\ result' = IF rowIdx' <= offset THEN result ELSE Append(result, rows[rowIdx'])
    /\ UNCHANGED <<request, wrapped, page, fetched, pc>>

ScanDone ==
    /\ pc = "scan" /\ rowIdx = fetched
    /\ pc' = "done"
    /\ UNCHANGED <<request, wrapped, page, scan>>

ScanFails ==
    /\ pc = "scan"
    /\ pc' = "error"
    /\ UNCHANGED <<request, wrapped, page, scan>>

QueryNext ==
    \/ Clamp
    \/ Forbid \/ Allow \/ Wrap
    \/ Fetch \/ FetchFails \/ ScanRow \/ ScanDone \/ ScanFails

-----------------------------------------------------------------------------
(* Properties *)

\* The smaller of two numbers.
Least(m, n) == IF m < n THEN m ELSE n

\* The rows at the places offset + 1 to offset + limit, as far as there are such
\* places: a negative offset skips nothing and shortens the page.
Page == SubSeq(rows, IF offset < 0 THEN 1 ELSE offset + 1, Least(offset + limit, Len(rows)))

PageDone == call = "QueryTable" /\ pc = "done"

\* For every limit and offset a client may send, a page begins with the rows at
\* these places and, without ties at its end, has no others, whatever the sum of
\* limit and offset does to an int: pages that follow each other show the whole
\* table (query.go:77 and 177).
PageRight == PageDone => IsPrefix(Page, result) /\ (~sorted => result = Page)

Sent == call = "ExecuteSQL" /\ pc \in {"fetch", "scan", "done"}

\* A block comment begins within a line comment.
Mixed ==
    \E i, j \in 1..Len(query) :
        /\ i < j /\ query[i] = "/*" /\ query[j] = "*/"
        /\ Reading(SubSeq(query, 1, i - 1)).in = "line"

\* The comments are removed kind by kind, and the text that is validated is not the
\* one that is sent: still, a statement is refused, or sent, as it does not, or does,
\* begin with SELECT or WITH in SQL's reading, and so does what is sent; but for
\* statements in which a block comment begins within a line comment (query.go:104-111
\* and 209-230).
VerdictRight ==
    LET Reads(s) == Begins(Reading(s).text, {"select", "with"})
    IN  /\ pc = "forbidden" /\ ~Mixed => ~Reads(query)
        /\ Sent /\ ~Mixed => Reads(query) /\ Reads(wrapped)

\* A statement that begins with SELECT, without a TOP, is sent with the cap and
\* otherwise as the client wrote it.  If it is one SELECT only it is answered by its
\* first MaxRows rows, but for the ties of a sorted result (query.go:234-244).
PlainIsCapped ==
    Sent /\ query[1] = "select" /\ ToSet(query) \cap {"top", "topic"} = {} =>
        /\ wrapped = <<"select", "cap">> \o Tail(query)
        /\ pc = "done" /\ ~Unioned =>
              /\ IsPrefix(SubSeq(rows, 1, Least(MaxRows, Len(rows))), result)
              /\ ~sorted => Len(result) <= MaxRows

\* query.go:198: leading white space does not matter, so the statement arrives
\* as it was written, but for the cap.
StatementKept ==
    LET Words(s) == SelectSeq(s, LAMBDA t : t \notin White \cup {"cap"})
    IN  Sent => Words(wrapped) = Words(query)
=============================================================================
