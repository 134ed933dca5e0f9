---------------------------- MODULE StoreProofs ----------------------------
(***************************************************************************)
(* Proofs about one call of the store (Store.tla).                         *)
(*                                                                         *)
(* For a page the invariant says that what scanRows has collected is the   *)
(* part of the rows between the offset and the rows read, and that the sum *)
(* of limit and offset either is the sum or makes the database refuse the  *)
(* call.  For a listing it says which handles exist at each call, and that *)
(* the deferred releases are those of the handles, in their order.         *)
(***************************************************************************)
EXTENDS Store, SequenceTheorems, TLAPS

\* The rows a call has read, but for the skipped ones.
Skipped == IF offset < 0 THEN 0 ELSE offset

Collected ==
    /\ result = SubSeq(rows, Skipped + 1, rowIdx)
    /\ pc = "done" => rowIdx = fetched
    /\ pc \in {"clamp", "validate", "wrap", "fetch"} => fetched = 0 /\ rowIdx = 0

\* How many rows the database was asked for.
PageFetched ==
    /\ call = "QueryTable" => pc \in {"clamp", "fetch", "scan", "done", "error"}
    /\ pc = "clamp" => call = "QueryTable"
    /\ pc \in {"validate", "wrap"} => call = "ExecuteSQL"
    /\ call = "QueryTable" /\ pc \in {"scan", "done"} => FetchN > 0 /\ fetched \in Tops(FetchN)

\* What a statement has become.
StatementSent ==
    /\ call = "ExecuteSQL" => query # <<>> /\ offset = 0
    /\ Sent => wrapped = Wrapped
    /\ call = "ExecuteSQL" /\ pc \in {"scan", "done"} =>
          fetched \in IF Capped /\ ~Unioned THEN Tops(MaxRows) ELSE {Len(rows)}

QueryInv == QueryTypeOK /\ Collected /\ PageFetched /\ StatementSent

-----------------------------------------------------------------------------
(* Lemmas *)

\* TOP returns no more rows than there are.
LEMMA TopsWithin == ASSUME NEW n \in Int, rows \in Seq(Value) PROVE Tops(n) \subseteq 0..Len(rows)
BY DEF Tops

\* Two parts of a sequence with one beginning are prefixes.
LEMMA PrefixOfSubSeq ==
    ASSUME NEW s \in Seq(Value), NEW a \in Nat, NEW b \in 0..Len(s), NEW c \in b..Len(s), a > 0
    PROVE  IsPrefix(SubSeq(s, a, b), SubSeq(s, a, c))
BY DEF IsPrefix

\* A part of a sequence grows by the next element.
LEMMA SubSeqGrows ==
    ASSUME NEW S, NEW s \in Seq(S), NEW a \in Nat, NEW b \in 0..(Len(s) - 1), a > 0, a <= b + 1
    PROVE  SubSeq(s, a, b + 1) = Append(SubSeq(s, a, b), s[b + 1])
<1> DEFINE left == SubSeq(s, a, b + 1)
           right == Append(SubSeq(s, a, b), s[b + 1])
<1>1. left \in Seq(S) /\ right \in Seq(S) /\ Len(left) = Len(right)
    OBVIOUS
<1>2. ASSUME NEW i \in 1..Len(left) PROVE left[i] = right[i]
    OBVIOUS
<1> HIDE DEF left, right
<1>3. left = right
    BY <1>1, <1>2, SeqEqual
<1> QED BY <1>3 DEF left, right

\* What remains of a sequence without its last element.
LEMMA FrontProperties ==
    ASSUME NEW S, NEW s \in Seq(S), s # <<>>
    PROVE  Front(s) \in Seq(S) /\ Len(Front(s)) = Len(s) - 1 /\ \A i \in 1..(Len(s) - 1) : Front(s)[i] = s[i]
<1> DEFINE n == Len(s)
<1>1. n \in Nat /\ n # 0 /\ \A i \in 1..n : s[i] \in S
    BY EmptySeq, ElementOfSeq
<1> HIDE DEF n
<1>2. n - 1 \in Int /\ \A i \in 1..(n - 1) : s[i] \in S
    BY <1>1
<1>3. /\ SubSeq(s, 1, n - 1) \in Seq(S)
      /\ Len(SubSeq(s, 1, n - 1)) = IF 1 <= n - 1 THEN (n - 1) - 1 + 1 ELSE 0
      /\ \A i \in 1..((n - 1) - 1 + 1) : SubSeq(s, 1, n - 1)[i] = s[1 + i - 1]
    BY <1>2, SubSeqProperties
<1>4. Len(SubSeq(s, 1, n - 1)) = n - 1 /\ \A i \in 1..(n - 1) : SubSeq(s, 1, n - 1)[i] = s[i]
    BY <1>1, <1>3
<1> QED BY <1>3, <1>4 DEF Front, n

\* A function on 1..n is a sequence.
LEMMA FunctionIsSeq ==
    ASSUME NEW S, NEW n \in Nat, NEW f \in [1..n -> S]
    PROVE  f \in Seq(S) /\ Len(f) = n
OBVIOUS

\* The sum of limit and offset is theirs, or it is not positive.
LEMMA SumOrRefused ==
    ASSUME limit \in 1..MaxRows, offset \in (-IntMax - 1)..IntMax
    PROVE  FetchN \in Int /\ (FetchN > 0 => FetchN = limit + offset)
BY QueryAssumption DEF FetchN, IntSum

\* What enforceTopN returns is a sequence of tokens.
LEMMA WrappedType ==
    ASSUME query \in Seq(Token), query # <<>>
    PROVE  Wrapped \in Seq(Token \cup {"cap", "damaged"})
<1>1. query \in Seq(Token \cup {"cap", "damaged"})
    BY SeqMonotonic
<1>2. Tail(query) \in Seq(Token \cup {"cap", "damaged"})
    BY <1>1
<1>a. "select" \in Token
    BY DEF Token, Word
<1>b. {"select", "cap", "damaged"} \subseteq Token \cup {"cap", "damaged"}
    BY <1>a
<1>3. <<"select", "cap">> \in Seq(Token \cup {"cap", "damaged"})
    <2> DEFINE T == Token \cup {"cap", "damaged"}
    <2>1. "select" \in T /\ "cap" \in T
        BY <1>b
    <2> HIDE DEF T
    <2>2. <<"select", "cap">> \in Seq(T)
        BY <2>1
    <2> QED BY <2>2 DEF T
<1>4. <<"select", "cap", "damaged">> \in Seq(Token \cup {"cap", "damaged"})
    <2> DEFINE T == Token \cup {"cap", "damaged"}
    <2>1. "select" \in T /\ "cap" \in T /\ "damaged" \in T
        BY <1>b
    <2> HIDE DEF T
    <2>2. <<"select", "cap", "damaged">> \in Seq(T)
        BY <2>1
    <2> QED BY <2>2 DEF T
<1>5. ASSUME Begins(query, {"select"}) PROVE AfterSelect \in Seq(Token \cup {"cap", "damaged"})
    <2>1. \E i \in 1..Len(query) : query[i] = "select" /\ ~Beside(1..(i - 1))
        BY <1>5 DEF Begins, Beside
    <2>2. PICK i \in 1..Len(query) : AfterSelect = SubSeq(query, i + 1, Len(query))
        BY <2>1 DEF AfterSelect
    <2> QED BY <1>1, <2>2
<1> QED BY <1>1, <1>2, <1>3, <1>4, <1>5, ConcatProperties DEF Wrapped

\* The numbers of a request are numbers.
LEMMA AskedInt == \A n \in Asked \cup {0} : n \in Int /\ n \in (-IntMax - 1)..IntMax
BY QueryAssumption

-----------------------------------------------------------------------------
(* A query *)

\* The invariant of a query holds at its start.
LEMMA QueryInitInv == QueryInit \/ NoQuery => QueryInv
<1>0. ASSUME QueryInit \/ NoQuery PROVE /\ rows \in Seq(Value) /\ Len(rows) <= MaxTable
                                         /\ query \in Seq(Token) /\ (call = "ExecuteSQL" => query # <<>>)
                                         /\ limit \in Int /\ offset \in (-IntMax - 1)..IntMax
    <2>1. rows \in Seq(Value) /\ Len(rows) <= MaxTable
        <3>1. CASE NoQuery
            BY <3>1, QueryAssumption DEF NoQuery
        <3>2. CASE QueryInit
            <4>1. PICK n \in 0..MaxTable : rows \in [1..n -> Value]
                BY <3>2 DEF QueryInit
            <4> QED BY <4>1, FunctionIsSeq, QueryAssumption
        <3> QED BY <1>0, <3>1, <3>2
    <2>2. query \in Seq(Token) /\ (call = "ExecuteSQL" => query # <<>>)
        <3>1. ASSUME query = <<>> /\ call # "ExecuteSQL" PROVE query \in Seq(Token)
            BY <3>1
        <3>2. ASSUME query \in Statement PROVE query \in Seq(Token) /\ query # <<>>
            BY <3>2, QueryAssumption
        <3> QED BY <1>0, <3>1, <3>2 DEF QueryInit, NoQuery
    <2>3. limit \in Int /\ offset \in (-IntMax - 1)..IntMax
        BY <1>0, AskedInt, QueryAssumption DEF QueryInit, NoQuery
    <2> QED BY <2>1, <2>2, <2>3
<1>1. ASSUME NothingRead, rows \in Seq(Value), offset \in Int PROVE result = SubSeq(rows, Skipped + 1, rowIdx)
    BY <1>1, SubSeqEmpty DEF NothingRead, Skipped
<1> SUFFICES ASSUME QueryInit \/ NoQuery PROVE QueryInv
    OBVIOUS
<1>2. NothingRead /\ sorted \in BOOLEAN /\ offset \in Int /\ Len(rows) \in Nat
    <2>1. NothingRead /\ sorted \in BOOLEAN
        BY DEF QueryInit, NoQuery
    <2> QED BY <1>0, <2>1, QueryAssumption
<1>3. pc \in {"clamp", "validate", "off"} /\ call \in {"QueryTable", "ExecuteSQL", "none"}
    BY DEF QueryInit, NoQuery
<1>4. QueryTypeOK
    BY <1>0, <1>2, <1>3 DEF NothingRead, QueryTypeOK
<1>5. Collected
    BY <1>0, <1>1, <1>2, <1>3 DEF NothingRead, Collected
<1> QED BY <1>0, <1>4, <1>5 DEF QueryInit, NoQuery, QueryInv, PageFetched, StatementSent, Sent

\* What a statement becomes depends on it alone.
LEMMA StatementOnly ==
    ASSUME query' = query
    PROVE  Wrapped' = Wrapped
BY DEF Wrapped, AfterSelect, Begins, MentionsTop, Beside

\* So does how many rows are returned.
LEMMA TopsOnly ==
    ASSUME NEW n, UNCHANGED <<rows, sorted, limit, offset, wrapped>>
    PROVE  FetchN' = FetchN /\ Tops(n)' = Tops(n) /\ Capped' = Capped /\ Unioned' = Unioned
BY DEF FetchN, IntSum, Tops, Capped, Unioned

\* The steps of a query preserve it.
LEMMA QueryNextInv ==
    ASSUME QueryInv, [QueryNext]_queryVars
    PROVE  QueryInv'
<1> USE DEF QueryInv, request, page, scan
<1>1. QueryTypeOK'
    <2> USE DEF QueryTypeOK
    <2>1. CASE Clamp
        BY <2>1, QueryAssumption DEF Clamp
    <2>2. CASE Wrap
        BY <2>2, WrappedType DEF Wrap, StatementSent, PageFetched
    <2>3. CASE Fetch
        <3>1. fetched' \in 0..Len(rows)
            BY <2>3, TopsWithin, QueryAssumption DEF Fetch, FetchN, IntSum
        <3> QED BY <2>3, <3>1 DEF Fetch, Collected
    <2>4. CASE ScanRow
        <3>1. rowIdx' \in 1..Len(rows) /\ rows[rowIdx'] \in Value
            BY <2>4 DEF ScanRow
        <3> QED BY <2>4, <3>1 DEF ScanRow
    <2>5. CASE Forbid \/ Allow \/ FetchFails \/ ScanDone \/ ScanFails
        BY <2>5 DEF Forbid, Allow, FetchFails, ScanDone, ScanFails, PageFetched
    <2> QED BY <2>1, <2>2, <2>3, <2>4, <2>5 DEF QueryNext, queryVars
<1>2. Collected'
    <2> USE DEF Collected, Skipped, QueryTypeOK
    <2>1. CASE ScanRow
        <3>1. rowIdx' \in 1..Len(rows)
            BY <2>1 DEF ScanRow
        <3>2. CASE rowIdx' <= offset
            BY <2>1, <3>1, <3>2, SubSeqEmpty DEF ScanRow
        <3>3. CASE rowIdx' > offset
            BY <2>1, <3>1, <3>3, SubSeqGrows DEF ScanRow
        <3> QED BY <2>1, <3>1, <3>2, <3>3 DEF ScanRow
    <2> QED BY <2>1 DEF QueryNext, Clamp, Forbid, Allow, Wrap, Fetch, FetchFails, ScanDone, ScanFails, queryVars
<1>3. PageFetched'
    <2> USE DEF PageFetched
    <2>1. CASE Clamp \/ Forbid \/ Allow \/ Wrap \/ FetchFails \/ ScanFails
        BY <2>1 DEF Clamp, Forbid, Allow, Wrap, FetchFails, ScanFails, StatementSent
    <2>2. CASE Fetch
        <3>1. FetchN' = FetchN /\ Tops(FetchN)' = Tops(FetchN)
            BY <2>2 DEF Fetch, FetchN, IntSum, Tops
        <3> QED BY <2>2, <3>1 DEF Fetch
    <2>3. CASE ScanRow \/ ScanDone \/ UNCHANGED queryVars
        <3>1. FetchN' = FetchN /\ Tops(FetchN)' = Tops(FetchN)
            BY <2>3 DEF ScanRow, ScanDone, queryVars, FetchN, IntSum, Tops
        <3> QED BY <2>3, <3>1 DEF ScanRow, ScanDone, queryVars
    <2> QED BY <2>1, <2>2, <2>3 DEF QueryNext
<1>4. StatementSent'
    <2> USE DEF StatementSent, Sent
    <2>1. query' = query /\ Wrapped' = Wrapped
        BY StatementOnly DEF QueryNext, queryVars, Clamp, Forbid, Allow, Wrap, Fetch, FetchFails, ScanRow, ScanDone, ScanFails
    <2>2. CASE Clamp \/ Forbid \/ Allow \/ Wrap \/ FetchFails \/ ScanFails
        <3>1. call' = call /\ offset' = offset
            BY <2>2, <1>1 DEF Clamp, Forbid, Allow, Wrap, FetchFails, ScanFails, QueryTypeOK, PageFetched
        <3> QED BY <2>1, <2>2, <3>1 DEF Clamp, Forbid, Allow, Wrap, FetchFails, ScanFails, PageFetched
    <2>3. CASE Fetch \/ ScanRow \/ ScanDone \/ UNCHANGED queryVars
        <3>1. UNCHANGED <<call, rows, sorted, limit, offset, wrapped>>
            BY <2>3 DEF Fetch, ScanRow, ScanDone, queryVars
        <3>2. Tops(MaxRows)' = Tops(MaxRows) /\ Capped' = Capped /\ Unioned' = Unioned
            BY <3>1, TopsOnly
        <3> QED BY <2>1, <2>3, <3>1, <3>2 DEF Fetch, ScanRow, ScanDone, queryVars
    <2> QED BY <2>2, <2>3 DEF QueryNext
<1> QED BY <1>1, <1>2, <1>3, <1>4

\* It says that a page is right, and what is sent.
LEMMA QuerySafe == QueryInv => PageRight /\ PlainIsCapped
<1> SUFFICES ASSUME QueryInv PROVE PageRight /\ PlainIsCapped
    OBVIOUS
<1> USE QueryAssumption DEF QueryInv, QueryTypeOK
<1>1. PageRight
    <2> SUFFICES ASSUME PageDone PROVE IsPrefix(Page, result) /\ (~sorted => result = Page)
        BY DEF PageRight
    <2>1. /\ result = SubSeq(rows, Skipped + 1, fetched)
          /\ FetchN = limit + offset /\ FetchN > 0 /\ fetched \in Tops(FetchN)
        BY SumOrRefused DEF PageDone, Collected, PageFetched
    <2>2. LET end == Least(offset + limit, Len(rows))
          IN  end \in 0..Len(rows) /\ fetched \in end..Len(rows) /\ (~sorted => fetched = end)
        BY <2>1 DEF Tops, Least, PageDone
    <2>3. Page = SubSeq(rows, Skipped + 1, Least(offset + limit, Len(rows))) /\ Skipped \in Nat
        <3>1. offset \in Int
            BY AskedInt
        <3>2. Skipped \in Nat /\ (IF offset < 0 THEN 1 ELSE offset + 1) = Skipped + 1
            BY <3>1 DEF Skipped
        <3> QED BY <3>2, Zenon DEF Page
    <2> QED BY <2>1, <2>2, <2>3, PrefixOfSubSeq
<1>2. PlainIsCapped
    <2> SUFFICES ASSUME Sent, query[1] = "select", ToSet(query) \cap {"top", "topic"} = {}
                 PROVE  /\ wrapped = <<"select", "cap">> \o Tail(query)
                        /\ pc = "done" /\ ~Unioned =>
                              /\ IsPrefix(SubSeq(rows, 1, Least(MaxRows, Len(rows))), result)
                              /\ ~sorted => Len(result) <= MaxRows
        BY DEF PlainIsCapped
    <2>1. Begins(query, {"select"})
        BY DEF Begins, Sent, StatementSent
    <2>2. ~MentionsTop
        <3>1. \A i \in 1..Len(query) : query[i] \in ToSet(query)
            BY DEF ToSet
        <3>2. \A i \in 1..Len(query) : query[i] # "top" /\ query[i] # "topic"
            BY <3>1
        <3> QED BY <3>2 DEF MentionsTop
    <2>3. wrapped = <<"select", "cap">> \o Tail(query)
        BY <2>1, <2>2 DEF Sent, StatementSent, Wrapped
    <2>4. ASSUME pc = "done", ~Unioned
          PROVE  IsPrefix(SubSeq(rows, 1, Least(MaxRows, Len(rows))), result) /\ (~sorted => Len(result) <= MaxRows)
        <3>1. Capped
            BY <2>3 DEF Capped, Sent, StatementSent
        <3>2. fetched \in Tops(MaxRows) /\ result = SubSeq(rows, 1, fetched)
            BY <2>4, <3>1 DEF Sent, StatementSent, Collected, Skipped
        <3>3. LET end == Least(MaxRows, Len(rows))
              IN  end \in 0..Len(rows) /\ fetched \in end..Len(rows) /\ (~sorted => fetched = end)
            BY <3>2 DEF Tops, Least
        <3> QED BY <3>2, <3>3, PrefixOfSubSeq DEF Least
    <2> QED BY <2>3, <2>4
<1> QED BY <1>1, <1>2

-----------------------------------------------------------------------------
(* A listing *)

\* The handles that exist are those whose release is deferred.
Handles ==
    /\ Len(deferred) <= 3
    /\ Len(deferred) >= 1 => deferred[1] = "env"
    /\ Len(deferred) >= 2 => deferred[2] = "dbc"
    /\ Len(deferred) >= 3 => deferred[3] = "stmt"
    /\ "env" \in allocated <=> Len(deferred) >= 1
    /\ "dbc" \in allocated <=> Len(deferred) >= 2
    /\ "stmt" \in allocated <=> Len(deferred) >= 3
    /\ connected => Len(deferred) >= 2

\* Which ones they are before each call.
HandlesAt ==
    /\ step \in {"off", "env", "end"} => Len(deferred) = 0
    /\ step \in {"version", "dbc"} => Len(deferred) = 1
    /\ step \in {"connect", "stmt"} => Len(deferred) = 2
    /\ step \in {"tables", "fetch", "data"} => Len(deferred) = 3

\* How many names a list without a loss has.
Named == IF step = "data" THEN row - 1 ELSE row

\* What the rows have become.
Collecting ==
    /\ step \notin {"fetch", "data", "return", "end"} => row = 0
    /\ step = "data" => row > 0
    /\ Len(tables) <= Named
    /\ \A i \in 1..Len(tables) : \E j \in 1..row : tables[i] = existing[j]
    /\ ~lost => tables = SubSeq(existing, 1, Named)
    /\ listing # "none" <=> step \in {"return", "end"}
    /\ listing = "ok" /\ ~lost => row = Len(existing)

\* The handles.
LEMMA HandlesAre == "env" \in Handle /\ "dbc" \in Handle /\ "stmt" \in Handle
BY DEF Handle

CatalogInv == CatalogTypeOK /\ Handles /\ HandlesAt /\ Collecting

\* The invariant of a listing holds at its start.
LEMMA CatalogInitInv == ASSUME NEW s \in {"off", "env"}, CatalogAt(s) PROVE CatalogInv
<1>1. existing \in Seq(Name) /\ SubSeq(existing, 1, 0) = <<>>
    BY CatalogAssumption, SubSeqEmpty DEF CatalogAt
<1>2. CatalogTypeOK
    <2>1. row \in 0..Len(existing) /\ tables \in Seq(Name) /\ deferred \in Seq(Handle)
        BY <1>1 DEF CatalogAt
    <2> QED BY <2>1 DEF CatalogAt, CatalogTypeOK
<1>3. Handles /\ HandlesAt
    BY DEF CatalogAt, Handles, HandlesAt
<1>4. Collecting
    BY <1>1 DEF CatalogAt, Collecting, Named
<1> QED BY <1>2, <1>3, <1>4 DEF CatalogInv

\* The types stay.
LEMMA CatalogTypes ==
    ASSUME CatalogInv, [CatalogNext]_catalogVars
    PROVE  CatalogTypeOK'
<1> USE DEF CatalogInv, CatalogTypeOK, progress
<1>0. existing \in Seq(Name)
    BY CatalogAssumption
<1>1. existing' = existing
    BY DEF CatalogNext, catalogVars, Alloc, Call, Connect, CallFails, Expires, Cancelled, FetchRow, NoMoreRows, FetchError,
           GetData, RunDeferred, Returned
<1>2. deferred' \in Seq(Handle)
    <2>1. CASE Alloc("env", "version") \/ Alloc("dbc", "connect") \/ Alloc("stmt", "tables")
        <3>1. \A h \in Handle : Append(deferred, h) \in Seq(Handle)
            OBVIOUS
        <3> QED BY <2>1, <3>1, HandlesAre DEF Alloc
    <2>2. CASE RunDeferred
        BY <2>2, FrontProperties DEF RunDeferred
    <2> QED BY <2>1, <2>2 DEF CatalogNext, catalogVars, Call, Connect, CallFails, Expires, Cancelled, FetchRow, NoMoreRows,
                FetchError, GetData, Returned
<1>3. row' \in 0..Len(existing)
    BY <1>0 DEF CatalogNext, catalogVars, Alloc, Call, Connect, CallFails, Expires, Cancelled, FetchRow, NoMoreRows, FetchError,
           GetData, RunDeferred, Returned
<1>4. tables' \in Seq(Name)
    <2>1. CASE GetData
        <3>1. existing[row] \in Name
            BY <1>0, <2>1 DEF GetData, Collecting
        <3> QED BY <2>1, <3>1 DEF GetData
    <2> QED BY <2>1 DEF CatalogNext, catalogVars, Alloc, Call, Connect, CallFails, Expires, Cancelled, FetchRow, NoMoreRows,
                FetchError, RunDeferred, Returned
<1>5. allocated' \subseteq Handle
    BY HandlesAre DEF CatalogNext, catalogVars, Alloc, Call, Connect, CallFails, Expires, Cancelled, FetchRow, NoMoreRows, FetchError,
           GetData, RunDeferred, Freed, Returned
<1> HIDE DEF CatalogInv, CatalogTypeOK
<1>6. connected' \in BOOLEAN /\ ctxDone' \in BOOLEAN /\ lost' \in BOOLEAN /\ listing' \in {"none", "ok", "error"}
    BY DEF CatalogNext, catalogVars, Alloc, Call, Connect, CallFails, Expires, Cancelled, FetchRow, NoMoreRows, FetchError,
           GetData, RunDeferred, Returned, Returns, CatalogInv, CatalogTypeOK
<1>7. step' \in {"off", "env", "version", "dbc", "connect", "stmt", "tables", "fetch", "data", "return", "end"}
    BY DEF CatalogNext, catalogVars, Alloc, Call, Connect, CallFails, Expires, Cancelled, FetchRow, NoMoreRows, FetchError,
           GetData, RunDeferred, Returned, Returns, CatalogInv, CatalogTypeOK
<1> QED BY <1>1, <1>2, <1>3, <1>4, <1>5, <1>6, <1>7 DEF CatalogTypeOK, CatalogInv

\* The handles stay those to be released.
LEMMA CatalogHandles ==
    ASSUME CatalogInv, [CatalogNext]_catalogVars
    PROVE  Handles' /\ HandlesAt'
<1> USE DEF Handles, HandlesAt
<1>0. deferred \in Seq(Handle) /\ Handles /\ HandlesAt
    BY DEF CatalogInv, CatalogTypeOK
<1>1. ASSUME NEW h \in Handle, NEW next, Alloc(h, next) PROVE Len(deferred') = Len(deferred) + 1 /\ deferred'[Len(deferred) + 1] = h
                 /\ \A i \in 1..Len(deferred) : deferred'[i] = deferred[i]
    BY <1>0, <1>1 DEF Alloc
<1>2. CASE Alloc("env", "version")
    BY <1>0, <1>1, <1>2, HandlesAre DEF Alloc
<1>3. CASE Alloc("dbc", "connect")
    <2>1. Len(deferred) = 1 /\ deferred[1] = "env" /\ 1 \in 1..Len(deferred)
        BY <1>0, <1>3 DEF Alloc
    <2>2. Len(deferred') = 2 /\ deferred'[1] = "env" /\ deferred'[2] = "dbc"
        BY <1>1, <1>3, <2>1, HandlesAre
    <2> QED BY <1>0, <1>3, <2>1, <2>2 DEF Alloc
<1>4. CASE Alloc("stmt", "tables")
    <2>1. Len(deferred) = 2 /\ deferred[1] = "env" /\ deferred[2] = "dbc" /\ 1 \in 1..Len(deferred) /\ 2 \in 1..Len(deferred)
        BY <1>0, <1>4 DEF Alloc
    <2>2. Len(deferred') = 3 /\ deferred'[1] = "env" /\ deferred'[2] = "dbc" /\ deferred'[3] = "stmt"
        BY <1>1, <1>4, <2>1, HandlesAre
    <2> QED BY <1>0, <1>4, <2>1, <2>2 DEF Alloc
<1>5. CASE RunDeferred
    <2> DEFINE n == Len(deferred)
               h == deferred[n]
    <2>1. n \in Nat /\ n # 0 /\ n <= 3 /\ n - 1 = Len(deferred') /\ \A i \in 1..(n - 1) : deferred'[i] = deferred[i]
        BY <1>0, <1>5, EmptySeq, FrontProperties DEF RunDeferred
    <2>2. /\ connected' = (connected /\ h # "dbc") /\ allocated' = Freed(h, connected')
          /\ step' = step /\ step = "return"
        BY <1>5 DEF RunDeferred, Last
    <2>3. /\ n >= 1 => deferred[1] = "env"
          /\ n >= 2 => deferred[2] = "dbc"
          /\ n >= 3 => deferred[3] = "stmt"
          /\ "env" \in allocated <=> n >= 1
          /\ "dbc" \in allocated <=> n >= 2
          /\ "stmt" \in allocated <=> n >= 3
          /\ connected => n >= 2
        BY <1>0
    <2> HIDE DEF n, Handles, HandlesAt
    <2>4. CASE n = 1
        <3>1. h = "env" /\ "dbc" \notin allocated /\ ~connected
            BY <2>3, <2>4
        <3>2. allocated' = allocated \ {"env"} /\ ~connected'
            BY <2>2, <3>1 DEF Freed
        <3>3. Len(deferred') = 0
            BY <2>1, <2>3, <2>4
        <3> QED BY <2>2, <2>3, <2>4, <3>1, <3>2, <3>3 DEF Handles, HandlesAt
    <2>5. CASE n = 2
        <3>1. h = "dbc"
            BY <2>3, <2>5
        <3>2. allocated' = allocated \ {"dbc"} /\ ~connected'
            BY <2>2, <3>1 DEF Freed
        <3>3. Len(deferred') = 1 /\ deferred'[1] = "env"
            BY <2>1, <2>3, <2>5
        <3> QED BY <2>2, <2>3, <2>5, <3>1, <3>2, <3>3 DEF Handles, HandlesAt
    <2>6. CASE n = 3
        <3>1. h = "stmt"
            BY <2>3, <2>6
        <3>2. allocated' = allocated \ {"stmt"} /\ (connected' => connected)
            BY <2>2, <3>1 DEF Freed
        <3>3. Len(deferred') = 2 /\ deferred'[1] = "env" /\ deferred'[2] = "dbc"
            BY <2>1, <2>3, <2>6
        <3> QED BY <2>2, <2>3, <2>6, <3>1, <3>2, <3>3 DEF Handles, HandlesAt
    <2> QED BY <2>1, <2>4, <2>5, <2>6
<1>6. CASE \/ Call("version", "dbc") \/ Connect \/ Call("tables", "fetch") \/ CallFails \/ Expires \/ Cancelled \/ FetchRow
           \/ NoMoreRows \/ FetchError \/ GetData \/ UNCHANGED catalogVars
    BY <1>0, <1>6 DEF catalogVars, Call, Connect, CallFails, Expires, Cancelled, FetchRow, NoMoreRows, FetchError, GetData, Returns
<1>7. CASE Returned
    BY <1>0, <1>7, EmptySeq DEF Returned
<1> QED BY <1>2, <1>3, <1>4, <1>5, <1>6, <1>7 DEF CatalogNext

\* The names stay those of the rows.
LEMMA CatalogCollects ==
    ASSUME CatalogInv, [CatalogNext]_catalogVars
    PROVE  Collecting'
<1> USE DEF Collecting, Named, progress
<1>0. existing \in Seq(Name) /\ row \in 0..Len(existing) /\ tables \in Seq(Name) /\ Collecting
    BY CatalogAssumption DEF CatalogInv, CatalogTypeOK
<1>1. CASE GetData
    <2>1. row \in 1..Len(existing)
        BY <1>0, <1>1 DEF GetData
    <2>2. ~lost' => tables' = SubSeq(existing, 1, row)
        <3>1. SubSeq(existing, 1, (row - 1) + 1) = Append(SubSeq(existing, 1, row - 1), existing[(row - 1) + 1])
            BY <1>0, <2>1, SubSeqGrows
        <3>2. (row - 1) + 1 = row
            BY <2>1
        <3>3. SubSeq(existing, 1, row) = Append(SubSeq(existing, 1, row - 1), existing[row])
            BY <3>1, <3>2
        <3> QED BY <1>0, <1>1, <2>1, <3>3 DEF GetData
    <2>3. CASE tables' = tables
        BY <1>0, <1>1, <2>1, <2>2, <2>3 DEF GetData
    <2>4. CASE tables' = Append(tables, existing[row])
        <3>1. Len(tables') = Len(tables) + 1 /\ tables'[Len(tables) + 1] = existing[row]
              /\ \A i \in 1..Len(tables) : tables'[i] = tables[i]
            BY <1>0, <2>4
        <3>2. \A i \in 1..Len(tables') : \E j \in 1..row : tables'[i] = existing[j]
            <4> SUFFICES ASSUME NEW i \in 1..Len(tables') PROVE \E j \in 1..row : tables'[i] = existing[j]
                OBVIOUS
            <4>1. CASE i \in 1..Len(tables)
                BY <1>0, <3>1, <4>1
            <4>2. CASE i = Len(tables) + 1
                BY <2>1, <3>1, <4>2
            <4> QED BY <1>0, <3>1, <4>1, <4>2
        <3> QED BY <1>0, <1>1, <2>1, <2>2, <3>1, <3>2 DEF GetData
    <2> QED BY <1>1, <2>3, <2>4 DEF GetData
<1>2. CASE FetchRow
    BY <1>0, <1>2 DEF FetchRow
<1>3. CASE Cancelled \/ NoMoreRows \/ FetchError \/ CallFails
    BY <1>0, <1>3 DEF Cancelled, NoMoreRows, FetchError, CallFails, Returns
<1>4. CASE Alloc("env", "version") \/ Call("version", "dbc") \/ Alloc("dbc", "connect") \/ Connect
           \/ Alloc("stmt", "tables") \/ Call("tables", "fetch") \/ Expires \/ RunDeferred \/ Returned \/ UNCHANGED catalogVars
    BY <1>0, <1>4 DEF Alloc, Call, Connect, Expires, RunDeferred, Returned, catalogVars
<1> QED BY <1>1, <1>2, <1>3, <1>4 DEF CatalogNext

\* It says that everything is released, and what the list is.
LEMMA CatalogSafe == CatalogInv => AllReleased /\ ListingWhole
<1> SUFFICES ASSUME CatalogInv PROVE AllReleased /\ ListingWhole
    OBVIOUS
<1> USE DEF CatalogInv
<1>1. AllReleased
    <2> SUFFICES ASSUME step = "end" PROVE allocated = {} /\ ~connected
        BY DEF AllReleased
    <2>1. Len(deferred) = 0
        BY DEF HandlesAt
    <2>2. "env" \notin allocated /\ "dbc" \notin allocated /\ "stmt" \notin allocated /\ ~connected
        BY <2>1 DEF Handles
    <2> QED BY <2>2 DEF CatalogTypeOK, Handle
<1>2. ListingWhole
    <2>1. existing \in Seq(Name)
        BY CatalogAssumption DEF CatalogTypeOK
    <2> QED BY <2>1, SubSeqFull DEF ListingWhole, Collecting, Named, CatalogTypeOK
<1> QED BY <1>1, <1>2

-----------------------------------------------------------------------------

IInv == QueryInv /\ CatalogInv

\* Both invariants hold in every state of a call.
LEMMA StoreInv == (Init => IInv) /\ (IInv /\ [Next]_vars => IInv')
<1>1. Init => IInv
    BY QueryInitInv, CatalogInitInv DEF Init, IInv
<1>2. ASSUME IInv, [Next]_vars PROVE IInv'
    BY <1>2, QueryNextInv, CatalogTypes, CatalogHandles, CatalogCollects DEF IInv, CatalogInv, Next, vars
<1> QED BY <1>1, <1>2

\* PageRight and PlainIsCapped (query.go:44-77, 108-118, 177 and 234-244): a page holds
\* the rows at the places from its offset on, whatever limit and offset are and
\* their sum does to an int, and a statement that is one SELECT without a TOP is
\* answered by its first rows.
THEOREM PagesRight == Spec => [](TypeOK /\ PageRight /\ PlainIsCapped)
<1>1. IInv => TypeOK /\ PageRight /\ PlainIsCapped
    BY QuerySafe DEF IInv, TypeOK, QueryInv, CatalogInv
<1> QED BY StoreInv, <1>1, PTL DEF Spec

\* AllReleased and ListingWhole (catalog_windows.go:63-143): a listing leaves
\* nothing behind wherever it fails or expires, and loses a name only when the
\* driver fails.
THEOREM ListingsWhole == Spec => [](AllReleased /\ ListingWhole)
<1>1. IInv => AllReleased /\ ListingWhole
    BY CatalogSafe DEF IInv
<1> QED BY StoreInv, <1>1, PTL DEF Spec
=============================================================================
