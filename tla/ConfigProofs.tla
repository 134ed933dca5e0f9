---------------------------- MODULE ConfigProofs ----------------------------
(***************************************************************************)
(* What Load returns is sound, what it refuses is refused with all that is *)
(* wrong with it, and the loops of expandGlobs keep the first entry of     *)
(* every alias: for every configuration, environment and disk.             *)
(***************************************************************************)
EXTENDS Config, FiniteSetTheorems, TLAPS

\* The elements of a sequence, and a function on its positions.
LEMMA ElementOf ==
    ASSUME NEW S, NEW s \in Seq(S)
    PROVE  Len(s) \in Nat /\ DOMAIN s = 1..Len(s) /\ \A i \in 1..Len(s) : s[i] \in S
OBVIOUS

\* A function on positions is a sequence.
LEMMA SequenceOf ==
    ASSUME NEW T, NEW n \in Nat, NEW f, f \in [1..n -> T]
    PROVE  f \in Seq(T)
OBVIOUS

\* The elements of two sequences put together.
LEMMA Appended ==
    ASSUME NEW S, NEW s \in Seq(S), NEW t \in Seq(S)
    PROVE  /\ s \o t \in Seq(S) /\ Len(s \o t) = Len(s) + Len(t)
           /\ \A i \in 1..Len(s) : (s \o t)[i] = s[i]
           /\ \A i \in 1..Len(t) : (s \o t)[Len(s) + i] = t[i]
OBVIOUS

\* A sequence with one more element is not empty.
LEMMA Extended ==
    ASSUME NEW S, NEW s \in Seq(S), NEW x \in S
    PROVE  Append(s, x) \in Seq(S) /\ Append(s, x) # <<>>
<1>1. Append(s, x) \in Seq(S) /\ Len(Append(s, x)) = Len(s) + 1 /\ Len(s) \in Nat
  OBVIOUS
<1>2. Len(<<>>) = 0
  OBVIOUS
<1> QED
  BY <1>1, <1>2

\* A sequence of one element.
LEMMA Single ==
    ASSUME NEW S, NEW x \in S
    PROVE  <<x>> \in Seq(S) /\ Len(<<x>>) = 1 /\ <<x>>[1] = x
OBVIOUS

\* Entry i was met and kept before the loop reached entry n.
KeptBefore(n) == {i \in 1..Len(entries) : i < n /\ Kept(entries, files, i)}

MetBefore(n) == {i \in 1..Len(entries) : i < n /\ Met(entries[i], files)}

AsRecord(i) == [alias |-> entries[i].alias, path |-> entries[i].path]

\* What the loop knows when it is at entry `next': seen holds the lower-cased
\* alias of every entry met so far, kept or not, and result the kept ones.
LoopInv ==
    /\ LoopTypeOK
    /\ seen = {Fold[entries[i].alias] : i \in MetBefore(next)}
    /\ result = {AsRecord(i) : i \in KeptBefore(next)}

-----------------------------------------------------------------------------
(* The loops of expandGlobs *)

\* The invariant of the loop holds at its start.
LEMMA InitLoop == LoopInit => LoopInv
<1> SUFFICES ASSUME LoopInit PROVE LoopInv
  OBVIOUS
<1>1. entries = <<>> /\ Len(entries) = 0 /\ files = {} /\ next = 1 /\ seen = {} /\ result = {}
  BY DEF LoopInit
<1>2. LoopTypeOK
  BY <1>1 DEF LoopTypeOK
<1>3. MetBefore(next) = {} /\ KeptBefore(next) = {}
  BY <1>1 DEF MetBefore, KeptBefore
<1> QED
  BY <1>1, <1>2, <1>3 DEF LoopInv

\* The entry the loop is at is kept exactly if its alias was not seen.
LEMMA SeenDecides ==
    ASSUME LoopInv, Running, Met(entries[next], files)
    PROVE  Kept(entries, files, next) <=> Fold[entries[next].alias] \notin seen
<1>1. next \in 1..Len(entries) /\ Len(entries) \in Nat
  BY DEF LoopInv, LoopTypeOK, Running
<1>2. \A k \in 1..Len(entries) : k < next <=> k \in 1..(next - 1)
  BY <1>1
<1>3. \A k \in 1..(next - 1) : k \in 1..Len(entries)
  BY <1>1
<1> QED
  BY <1>1, <1>2, <1>3 DEF LoopInv, Kept, MetBefore

\* What the inner loop is done with does not depend on what is taken up later.
LEMMA TakeUpLoop ==
    ASSUME LoopInv, NEW list \in Seq(Entry), TakeUp(list)
    PROVE  LoopInv'
<1>1. /\ entries \in Seq(Entry) /\ Len(entries) \in Nat /\ Len(list) \in Nat
      /\ next = Len(entries) + 1 /\ next' = next /\ files' = files
      /\ entries' = entries \o list /\ seen' = seen /\ result' = result
  BY DEF LoopInv, LoopTypeOK, TakeUp, Done
<1>2. /\ entries' \in Seq(Entry) /\ Len(entries') = Len(entries) + Len(list)
      /\ \A i \in 1..Len(entries) : entries'[i] = entries[i]
  <2>1. /\ entries \o list \in Seq(Entry) /\ Len(entries \o list) = Len(entries) + Len(list)
        /\ \A i \in 1..Len(entries) : (entries \o list)[i] = entries[i]
    BY <1>1, Appended
  <2> QED
    BY <1>1, <2>1
<1>3. LoopTypeOK'
  BY <1>1, <1>2 DEF LoopInv, LoopTypeOK
<1>4. \A i \in 1..Len(entries) : Met(entries'[i], files') <=> Met(entries[i], files)
  BY <1>1, <1>2
<1>5. \A i \in 1..Len(entries) : Kept(entries', files', i) <=> Kept(entries, files, i)
  <2> TAKE i \in 1..Len(entries)
  <2>1. \A j \in 1..(i - 1) : j \in 1..Len(entries)
    BY <1>1
  <2>2. Met(entries'[i], files') <=> Met(entries[i], files)
    BY <1>4
  <2>3. \A j \in 1..(i - 1) : entries'[j] = entries[j] /\ (Met(entries'[j], files') <=> Met(entries[j], files))
    BY <1>2, <1>4, <2>1
  <2>4. entries'[i] = entries[i]
    BY <1>2
  <2> QED
    BY <2>2, <2>3, <2>4 DEF Kept
<1>6. \A i \in 1..Len(entries') : i < next <=> i \in 1..Len(entries)
  BY <1>1, <1>2
<1>7. 1..Len(entries) \subseteq 1..Len(entries')
  BY <1>1, <1>2
<1>8. MetBefore(next)' = MetBefore(next)
  BY <1>1, <1>4, <1>6, <1>7 DEF MetBefore
<1>9. KeptBefore(next)' = KeptBefore(next)
  BY <1>1, <1>5, <1>6, <1>7 DEF KeptBefore
<1>10. MetBefore(next) \subseteq 1..Len(entries) /\ KeptBefore(next) \subseteq 1..Len(entries)
  BY DEF MetBefore, KeptBefore
<1>11. seen' = {Fold[entries'[i].alias] : i \in MetBefore(next)}
  BY <1>1, <1>2, <1>10 DEF LoopInv
<1>12. result' = {[alias |-> entries'[i].alias, path |-> entries'[i].path] : i \in KeptBefore(next)}
  BY <1>1, <1>2, <1>10 DEF LoopInv, AsRecord
<1> QED
  BY <1>3, <1>8, <1>9, <1>11, <1>12 DEF LoopInv, AsRecord

\* Every entry the loop meets keeps it.
LEMMA StepLoop ==
    ASSUME LoopInv, LoopNext
    PROVE  LoopInv'
<1>1. /\ Running
      /\ UNCHANGED <<entries, files>>
      /\ next' = next + 1
  BY DEF LoopNext, Unmatched, Collision, Append1
<1>2. /\ next \in 1..Len(entries) /\ Len(entries) \in Nat
      /\ entries \in Seq(Entry)
      /\ entries[next] \in Entry
  BY <1>1 DEF LoopInv, LoopTypeOK, Running
<1>3. \A k \in 1..Len(entries) : k < next' <=> k < next \/ k = next
  BY <1>1, <1>2
<1>4. entries[next].alias \in Alias /\ entries[next].path \in Path
      /\ Fold[entries[next].alias] \in Alias
  BY <1>2, NamesAssumption DEF Entry
<1>5. LoopTypeOK'
  BY <1>1, <1>2, <1>4 DEF LoopInv, LoopTypeOK, LoopNext, Unmatched, Collision, Append1
<1>6. CASE Unmatched
  <2>1. ~Met(entries[next], files) /\ ~Kept(entries, files, next)
    BY <1>6 DEF Unmatched, Kept
  <2>2. KeptBefore(next)' = KeptBefore(next) /\ MetBefore(next)' = MetBefore(next)
    BY <1>1, <1>3, <2>1 DEF KeptBefore, MetBefore
  <2>3. seen' = seen /\ result' = result
    BY <1>6 DEF Unmatched
  <2> QED
    BY <1>1, <1>5, <2>2, <2>3 DEF LoopInv, AsRecord
<1>7. CASE Collision
  <2>1. Met(entries[next], files) /\ Fold[entries[next].alias] \in seen /\ seen' = seen /\ result' = result
    BY <1>7 DEF Collision
  <2>2. ~Kept(entries, files, next)
    BY <1>1, <2>1, SeenDecides
  <2>3. KeptBefore(next)' = KeptBefore(next)
    BY <1>1, <1>3, <2>2 DEF KeptBefore
  <2>4. MetBefore(next)' = MetBefore(next) \cup {next}
    BY <1>1, <1>2, <1>3, <2>1 DEF MetBefore
  <2>5. {Fold[entries[i].alias] : i \in MetBefore(next) \cup {next}} = seen
    BY <2>1 DEF LoopInv
  <2> QED
    BY <1>1, <1>5, <2>1, <2>3, <2>4, <2>5 DEF LoopInv, AsRecord
<1>8. CASE Append1
  <2>1. /\ Met(entries[next], files) /\ Fold[entries[next].alias] \notin seen
        /\ seen' = seen \cup {Fold[entries[next].alias]}
        /\ result' = result \cup {AsRecord(next)}
    BY <1>8 DEF Append1, AsRecord
  <2>2. Kept(entries, files, next)
    BY <1>1, <2>1, SeenDecides
  <2>3. KeptBefore(next)' = KeptBefore(next) \cup {next}
    BY <1>1, <1>2, <1>3, <2>2 DEF KeptBefore
  <2>4. MetBefore(next)' = MetBefore(next) \cup {next}
    BY <1>1, <1>2, <1>3, <2>1 DEF MetBefore
  <2>5. {Fold[entries[i].alias] : i \in MetBefore(next) \cup {next}} = seen'
    BY <2>1 DEF LoopInv
  <2>6. {AsRecord(i) : i \in KeptBefore(next) \cup {next}} = result'
    BY <2>1 DEF LoopInv
  <2>7. \A i : AsRecord(i)' = AsRecord(i)
    BY <1>1 DEF AsRecord
  <2> QED
    BY <1>1, <1>5, <2>3, <2>4, <2>5, <2>6, <2>7 DEF LoopInv
<1> QED
  BY <1>6, <1>7, <1>8 DEF LoopNext

\* When the loop is done it has kept the first entry of every alias, and at no
\* point two that differ only in the case of it.
LEMMA LoopCorrect ==
    ASSUME LoopInv
    PROVE  FirstEntryWins /\ NoCaseDuplicate
<1>1. FirstEntryWins
  <2> SUFFICES ASSUME Done PROVE result = FirstEntries(entries, files)
    BY DEF FirstEntryWins
  <2>1. \A i \in 1..Len(entries) : i < next
    BY DEF LoopInv, LoopTypeOK, Done
  <2>2. KeptBefore(next) = {k \in 1..Len(entries) : Kept(entries, files, k)}
    BY <2>1 DEF KeptBefore
  <2> QED
    BY <2>2 DEF LoopInv, FirstEntries, AsRecord
<1>2. NoCaseDuplicate
  <2> SUFFICES ASSUME NEW i \in KeptBefore(next), NEW j \in KeptBefore(next),
                      Fold[entries[i].alias] = Fold[entries[j].alias]
               PROVE  i = j
    BY DEF LoopInv, NoCaseDuplicate, AsRecord
  <2>1. i \in 1..Len(entries) /\ j \in 1..Len(entries) /\ Len(entries) \in Nat
    BY DEF KeptBefore, LoopInv, LoopTypeOK
  <2>2. ~(i < j)
    BY <2>1 DEF KeptBefore, Kept
  <2>3. ~(j < i)
    BY <2>1 DEF KeptBefore, Kept
  <2> QED
    BY <2>1, <2>2, <2>3
<1> QED
  BY <1>1, <1>2

-----------------------------------------------------------------------------
(* Load *)

Late == {"globs", "expand", "loaded"}
Early == pc \notin Late \cup {"failed"}

\* The checks that are done at each point.
Reported ==
    /\ pc \in {"read", "parse", "defaults", "keys"} => errs = {}
    /\ pc = "databases" => errs = Faults("keys")
    /\ pc = "allowed" => errs = Faults("keys") \cup Faults("databases")
    /\ pc = "tunnel" => errs = Faults("keys") \cup Faults("databases") \cup Faults("allowed")
    /\ pc = "verdict" => errs = UNION {Faults(c) : c \in Checks}
    /\ pc \in Late => errs = {} /\ \A c \in Checks : Faults(c) = {}
    /\ pc = "failed" => errs = {} \/ errs = UNION {Faults(c) : c \in Checks}

\* Without globs, and once it took anything up, the expansion has an entry to
\* keep; only globs find files without a name.
Taken ==
    /\ Early => globs = <<>> /\ taken = 0
    /\ Early \/ pc = "globs" => LoopInit
    /\ pc = "globs" /\ globs = <<>> => \A i \in 1..taken : ~IsGlob(cfg.dbs[i])
    /\ pc \in {"expand", "loaded"} /\ globs = <<>> => \A i \in 1..Len(cfg.dbs) : ~IsGlob(cfg.dbs[i])
    /\ pc \in {"expand", "loaded"} /\ globs = <<>> /\ taken > 0 => Len(entries) > 0 /\ ~entries[1].glob
    /\ pc = "expand" /\ taken = 0 => Len(entries) = 0
    /\ pc = "loaded" => Done /\ taken = Len(cfg.dbs)
    /\ \A i \in 1..Len(entries) : entries[i].alias = "" => entries[i].glob

IInv == TypeOK /\ LoopInv /\ Reported /\ Taken

\* Expanding gives a text without references.
LEMMA ExpandType ==
    ASSUME NEW t \in Text, env \in Word \cup {"", "sentinel"}
    PROVE  Expand(t) \in Expanded
BY DEF Expand, Text, Expanded, Given, Reference, Replaced

\* The configuration that was read has no references left.
LEMMA ReadType ==
    ASSUME TypeOK, Read
    PROVE  cfg' \in Filled(Expanded)
<1> DEFINE keys == [i \in DOMAIN file.keys |-> Expand(file.keys[i])]
           dbs == [i \in DOMAIN file.dbs |-> [alias |-> Expand(file.dbs[i].alias),
                                             path |-> Expand(file.dbs[i].path),
                                             glob |-> Expand(file.dbs[i].glob)]]
           rate == IF file.rate = "absent" THEN "zero" ELSE file.rate
           typed == Expand(file.typed)
<1>1. /\ file.keys \in Seq(Text)
      /\ file.dbs \in Seq([alias : Text, path : Text, glob : Text])
      /\ file.allowed \in Seq({"ip", "cidr", "bad"})
      /\ file.tunnel \in {"", "none", "tsnet", "other"}
      /\ file.rate \in {"absent", "zero", "default", "positive", "negative"}
      /\ file.typed \in Text
      /\ env \in Word \cup {"", "sentinel"}
  BY DEF TypeOK, Filled
<1>2. keys \in Seq(Expanded)
  <2>1. ASSUME NEW i \in 1..Len(file.keys) PROVE Expand(file.keys[i]) \in Expanded
    <3>1. file.keys[i] \in Text
      BY <1>1, ElementOf
    <3> QED
      BY <1>1, <3>1, ExpandType
  <2>2. Len(file.keys) \in Nat /\ DOMAIN file.keys = 1..Len(file.keys)
    BY <1>1, ElementOf
  <2>3. keys \in [1..Len(file.keys) -> Expanded]
    BY <2>1, <2>2
  <2> HIDE DEF keys
  <2> QED
    BY <2>2, <2>3, SequenceOf
<1>3. dbs \in Seq([alias : Expanded, path : Expanded, glob : Expanded])
  <2>1. ASSUME NEW i \in 1..Len(file.dbs)
        PROVE  /\ Expand(file.dbs[i].alias) \in Expanded
               /\ Expand(file.dbs[i].path) \in Expanded
               /\ Expand(file.dbs[i].glob) \in Expanded
    <3>1. file.dbs[i] \in [alias : Text, path : Text, glob : Text]
      BY <1>1, ElementOf
    <3>2. file.dbs[i].alias \in Text /\ file.dbs[i].path \in Text /\ file.dbs[i].glob \in Text
      BY <3>1
    <3> QED
      BY <1>1, <3>2, ExpandType
  <2>2. Len(file.dbs) \in Nat /\ DOMAIN file.dbs = 1..Len(file.dbs)
    BY <1>1, ElementOf
  <2>3. dbs \in [1..Len(file.dbs) -> [alias : Expanded, path : Expanded, glob : Expanded]]
    BY <2>1, <2>2
  <2> HIDE DEF dbs
  <2> QED
    BY <2>2, <2>3, SequenceOf
<1>4. typed \in Expanded
  BY <1>1, ExpandType
<1>5. rate \in {"absent", "zero", "default", "positive", "negative"}
  BY <1>1
<1>6. cfg' = [keys |-> keys, dbs |-> dbs, allowed |-> file.allowed, tunnel |-> file.tunnel,
              rate |-> rate, typed |-> typed]
  <2>1. file \in [keys : Seq(Text), dbs : Seq([alias : Text, path : Text, glob : Text]),
                  allowed : Seq({"ip", "cidr", "bad"}), tunnel : {"", "none", "tsnet", "other"},
                  rate : {"absent", "zero", "default", "positive", "negative"}, typed : Text]
    BY DEF TypeOK, Filled
  <2> QED
    BY <2>1 DEF Read
<1> HIDE DEF keys, dbs, rate, typed
<1> QED
  BY <1>1, <1>2, <1>3, <1>4, <1>5, <1>6 DEF Filled

\* What the expansion takes up is a list of entries, of which only globs may find
\* one without a name.
LEMMA FlattenedType ==
    ASSUME NEW e \in [alias : Expanded, path : Expanded, glob : Expanded], ~BadEntry(e)
    PROVE  /\ Flattened(e) \in Seq(Entry)
           /\ \A i \in 1..Len(Flattened(e)) : Flattened(e)[i].alias = "" => Flattened(e)[i].glob
           /\ ~IsGlob(e) => Len(Flattened(e)) = 1 /\ ~Flattened(e)[1].glob
<1>1. CASE IsGlob(e)
  <2>1. e.glob \in Given
    BY <1>1 DEF IsGlob, Expanded
  <2>2. Listed[e.glob] \in Seq([alias : Alias, path : Path, glob : {TRUE}])
    BY <2>1, ConfigAssumption
  <2>3. \A i \in 1..Len(Listed[e.glob]) : Listed[e.glob][i] \in Entry /\ Listed[e.glob][i].glob
    <3> TAKE i \in 1..Len(Listed[e.glob])
    <3>1. Listed[e.glob][i] \in [alias : Alias, path : Path, glob : {TRUE}]
      BY <2>2, ElementOf
    <3>2. Listed[e.glob][i].glob = TRUE
      BY <3>1
    <3>3. Listed[e.glob][i] \in Entry
      BY <3>1 DEF Entry
    <3> QED
      BY <3>2, <3>3
  <2>4. Listed[e.glob] \in Seq(Entry)
    BY <2>2, <2>3
  <2> QED
    BY <1>1, <2>3, <2>4 DEF Flattened
<1>2. CASE ~IsGlob(e)
  <2> DEFINE one == [alias |-> e.alias, path |-> e.path, glob |-> FALSE]
  <2>1. e.alias # "" /\ e.path # "" /\ e.alias \in Given /\ e.path \in Given
    BY <1>2 DEF BadEntry, IsGlob, Expanded
  <2>2. one \in Entry /\ one.alias # "" /\ ~one.glob
    BY <2>1, ConfigAssumption DEF Entry
  <2>3. Flattened(e) = <<one>>
    BY <1>2 DEF Flattened
  <2> HIDE DEF one
  <2>4. Len(<<one>>) = 1 /\ <<one>>[1] = one /\ <<one>> \in Seq(Entry)
    BY <2>2, Single
  <2>5. \A i \in 1..1 : i = 1
    OBVIOUS
  <2>6. \A i \in 1..Len(<<one>>) : <<one>>[i] = one
    BY <2>4, <2>5
  <2> QED
    BY <2>2, <2>3, <2>4, <2>6
<1> QED
  BY <1>1, <1>2

\* Every entry is one that passed the check of the databases.
LEMMA PassedEntries ==
    ASSUME TypeOK, pc \in Late, Reported
    PROVE  /\ cfg.dbs \in Seq([alias : Expanded, path : Expanded, glob : Expanded])
           /\ \A i \in 1..Len(cfg.dbs) : ~BadEntry(cfg.dbs[i])
           /\ cfg.dbs # <<>>
<1>1. cfg.dbs \in Seq([alias : Expanded, path : Expanded, glob : Expanded])
  BY DEF TypeOK, Filled
<1>2. Faults("databases") = {}
  BY DEF Reported, Late, Checks
<1>3. {"databases"} \X {i \in DOMAIN cfg.dbs : BadEntry(cfg.dbs[i])} = {} /\ cfg.dbs # <<>>
  BY <1>2 DEF Faults
<1>4. \A i \in DOMAIN cfg.dbs : ~BadEntry(cfg.dbs[i])
  <2> SUFFICES ASSUME NEW i \in DOMAIN cfg.dbs, BadEntry(cfg.dbs[i]) PROVE FALSE
    OBVIOUS
  <2>1. <<"databases", i>> \in {"databases"} \X {k \in DOMAIN cfg.dbs : BadEntry(cfg.dbs[k])}
    OBVIOUS
  <2> QED
    BY <1>3, <2>1
<1> QED
  BY <1>1, <1>3, <1>4

-----------------------------------------------------------------------------
(* The steps *)

\* Steps that leave the configuration alone and what was found wrong with it.
LEMMA SameFaults ==
    ASSUME UNCHANGED cfg
    PROVE  \A c : Faults(c)' = Faults(c)
BY DEF Faults

\* Before the expansion nothing of it has happened.
LEMMA EarlyStep ==
    ASSUME IInv, Early, UNCHANGED <<taken, globs, loopVars>>, Early' \/ pc' \in {"globs", "failed"}
    PROVE  Taken' /\ LoopInv'
<1>1. LoopInit /\ LoopInit' /\ globs' = <<>> /\ taken' = 0
  BY DEF IInv, Taken, LoopInit, loopVars
<1>2. LoopInv'
  BY <1>1 DEF LoopInv, LoopTypeOK, MetBefore, KeptBefore, AsRecord, Met, Kept, loopVars, IInv
<1>3. \A i \in 1..Len(entries') : FALSE
  BY <1>1 DEF LoopInit
<1>4. \A i \in 1..0 : FALSE
  OBVIOUS
<1>5. pc' \notin {"expand", "loaded"}
  BY DEF Early, Late
<1> QED
  BY <1>1, <1>2, <1>3, <1>4, <1>5 DEF Taken

\* What a check may find wrong.
LEMMA FaultsType ==
    ASSUME NEW c \in Checks, cfg \in Filled(Expanded)
    PROVE  Faults(c) \subseteq ({"keys", "databases", "allowed"} \X (Nat \ {0})) \cup {<<"databases", 0>>, <<"tunnel", 0>>}
<1> DEFINE positions == {"keys", "databases", "allowed"} \X (Nat \ {0})
<1>1. DOMAIN cfg.keys \subseteq Nat \ {0} /\ DOMAIN cfg.dbs \subseteq Nat \ {0} /\ DOMAIN cfg.allowed \subseteq Nat \ {0}
  <2>1. /\ cfg.keys \in Seq(Expanded)
        /\ cfg.dbs \in Seq([alias : Expanded, path : Expanded, glob : Expanded])
        /\ cfg.allowed \in Seq({"ip", "cidr", "bad"})
    BY DEF Filled
  <2>2. /\ Len(cfg.keys) \in Nat /\ Len(cfg.dbs) \in Nat /\ Len(cfg.allowed) \in Nat
        /\ DOMAIN cfg.keys = 1..Len(cfg.keys) /\ DOMAIN cfg.dbs = 1..Len(cfg.dbs)
        /\ DOMAIN cfg.allowed = 1..Len(cfg.allowed)
    BY <2>1, ElementOf
  <2>3. \A n \in Nat : 1..n \subseteq Nat \ {0}
    OBVIOUS
  <2> QED
    BY <2>2, <2>3
<1>2. CASE c = "keys"
  <2>1. Faults(c) = {"keys"} \X {i \in DOMAIN cfg.keys : BadKey(cfg.keys[i])}
    BY <1>2 DEF Faults
  <2> QED
    BY <1>1, <2>1
<1>3. CASE c = "databases"
  <2>1. Faults(c) \subseteq ({"databases"} \X {i \in DOMAIN cfg.dbs : BadEntry(cfg.dbs[i])}) \cup {<<"databases", 0>>}
    BY <1>3 DEF Faults
  <2>2. {"databases"} \X {i \in DOMAIN cfg.dbs : BadEntry(cfg.dbs[i])} \subseteq positions
    BY <1>1
  <2> QED
    BY <2>1, <2>2
<1>4. CASE c = "allowed"
  <2>1. Faults(c) = {"allowed"} \X {i \in DOMAIN cfg.allowed : cfg.allowed[i] = "bad"}
    BY <1>4 DEF Faults
  <2> QED
    BY <1>1, <2>1
<1>5. CASE c = "tunnel"
  <2>1. Faults(c) \subseteq {<<"tunnel", 0>>}
    BY <1>5 DEF Faults
  <2> QED
    BY <2>1
<1> QED
  BY <1>2, <1>3, <1>4, <1>5 DEF Checks

\* A check adds its fault and no other.
LEMMA ValidateStep ==
    ASSUME IInv, Validate
    PROVE  IInv'
<1>1. /\ pc \in Checks /\ pc' = After(pc) /\ errs' = errs \cup Faults(pc)
      /\ UNCHANGED <<file, env, cfg, globs, taken, loopVars>>
  BY DEF Validate
<1>2. /\ pc = "keys" => pc' = "databases"
      /\ pc = "databases" => pc' = "allowed"
      /\ pc = "allowed" => pc' = "tunnel"
      /\ pc = "tunnel" => pc' = "verdict"
  BY <1>1 DEF After
<1>3. TypeOK'
  <2>1. Faults(pc) \subseteq ({"keys", "databases", "allowed"} \X (Nat \ {0})) \cup {<<"databases", 0>>, <<"tunnel", 0>>}
    BY <1>1, FaultsType DEF IInv, TypeOK
  <2>2. errs' \in SUBSET (({"keys", "databases", "allowed"} \X (Nat \ {0})) \cup {<<"databases", 0>>, <<"tunnel", 0>>})
    BY <1>1, <2>1 DEF IInv, TypeOK
  <2>3. pc' \in {"verdict"} \cup Checks
    BY <1>1, <1>2 DEF Checks
  <2>4. LoopTypeOK'
    BY <1>1 DEF LoopTypeOK, loopVars, IInv, TypeOK
  <2> QED
    BY <1>1, <2>2, <2>3, <2>4 DEF IInv, TypeOK
<1>4. Early /\ Early'
  BY <1>1, <1>2 DEF Early, Late, Checks
<1>5. \A c : Faults(c)' = Faults(c)
  BY <1>1, SameFaults
<1>6. UNION {Faults(c) : c \in Checks} = Faults("keys") \cup Faults("databases") \cup Faults("allowed") \cup Faults("tunnel")
  BY DEF Checks
<1>7. Reported'
  BY <1>1, <1>2, <1>5, <1>6 DEF IInv, Reported, Checks, Late
<1> QED
  BY <1>1, <1>3, <1>4, <1>7, EarlyStep DEF IInv

\* What comes before and after the checks reports nothing.
LEMMA PrepareStep ==
    ASSUME IInv, Read \/ Parse \/ ApplyDefaults \/ Verdict
    PROVE  IInv'
<1>1. /\ UNCHANGED <<file, env, errs, globs, taken, loopVars>>
      /\ pc \in {"read", "parse", "defaults", "verdict"}
      /\ pc' \in {"parse", "defaults", "failed", "keys", "globs"}
  BY DEF Read, Parse, ApplyDefaults, Verdict, loadVars
<1>2. Early /\ (Early' \/ pc' \in {"globs", "failed"})
  BY <1>1 DEF Early, Late
<1>3. cfg' \in Filled(Expanded)
  <2>1. CASE Read
    BY <2>1, ReadType DEF IInv
  <2>2. CASE ApplyDefaults
    <3> DEFINE tunnel == IF cfg.tunnel = "" THEN "none" ELSE cfg.tunnel
               rate == IF cfg.rate = "zero" THEN "default" ELSE cfg.rate
    <3>1. cfg \in [keys : Seq(Expanded), dbs : Seq([alias : Expanded, path : Expanded, glob : Expanded]),
                   allowed : Seq({"ip", "cidr", "bad"}), tunnel : {"", "none", "tsnet", "other"},
                   rate : {"absent", "zero", "default", "positive", "negative"}, typed : Expanded]
      BY DEF IInv, TypeOK, Filled
    <3>2. cfg' = [keys |-> cfg.keys, dbs |-> cfg.dbs, allowed |-> cfg.allowed, tunnel |-> tunnel,
                  rate |-> rate, typed |-> cfg.typed]
      BY <2>2, <3>1 DEF ApplyDefaults
    <3>3. tunnel \in {"", "none", "tsnet", "other"}
      BY <3>1
    <3>4. rate \in {"absent", "zero", "default", "positive", "negative"}
      BY <3>1
    <3> HIDE DEF tunnel, rate
    <3> QED
      BY <3>1, <3>2, <3>3, <3>4 DEF Filled
  <2>3. CASE Parse \/ Verdict
    BY <2>3 DEF Parse, Verdict, loadVars, IInv, TypeOK
  <2> QED
    BY <2>1, <2>2, <2>3
<1>4. TypeOK'
  <2>1. taken' = 0
    BY <1>1, <1>2 DEF IInv, Taken
  <2>2. Len(cfg'.dbs) \in Nat
    BY <1>3, ElementOf DEF Filled
  <2>3. taken' \in 0..Len(cfg'.dbs)
    BY <2>1, <2>2
  <2>4. LoopTypeOK'
    BY <1>1 DEF LoopTypeOK, loopVars, IInv, TypeOK
  <2> QED
    BY <1>1, <1>3, <2>3, <2>4 DEF IInv, TypeOK, Checks
<1>5. Reported'
  <2>1. CASE Read \/ Parse \/ ApplyDefaults
    <3>1. errs' = {} /\ pc' \in {"parse", "defaults", "failed", "keys"}
      BY <2>1 DEF Read, Parse, ApplyDefaults, loadVars, IInv, Reported
    <3> QED
      BY <3>1 DEF Reported, Late
  <2>2. CASE Verdict
    <3>1. /\ \A c : Faults(c)' = Faults(c)
          /\ errs' = errs /\ errs = UNION {Faults(c) : c \in Checks}
          /\ pc' = IF errs = {} THEN "globs" ELSE "failed"
      BY <2>2, SameFaults DEF Verdict, loadVars, IInv, Reported
    <3>2. errs = {} => \A c \in Checks : Faults(c) = {}
      BY <3>1
    <3> QED
      BY <3>1, <3>2 DEF Reported, Late
  <2> QED
    BY <2>1, <2>2
<1> QED
  BY <1>1, <1>2, <1>4, <1>5, EarlyStep DEF IInv
\* Only "failed" can follow on a failure.
LEMMA FailStep ==
    ASSUME IInv, Fails
    PROVE  IInv'
<1>1. /\ pc \in {"read", "parse", "expand"} /\ pc' = "failed" /\ UNCHANGED <<loadVars, loopVars>>
  BY DEF Fails
<1>2. errs' = {}
  BY <1>1 DEF loadVars, IInv, Reported, Late
<1>3. TypeOK'
  BY <1>1 DEF IInv, TypeOK, LoopTypeOK, loadVars, loopVars
<1>4. Reported'
  BY <1>1, <1>2 DEF Reported, Late
<1>5. LoopInv'
  BY <1>1 DEF IInv, LoopInv, LoopTypeOK, MetBefore, KeptBefore, AsRecord, loopVars
<1>6. Taken'
  BY <1>1 DEF IInv, Taken, Early, Late, loopVars
<1> QED
  BY <1>3, <1>4, <1>5, <1>6 DEF IInv

\* The globs are copied, one entry after the other.
LEMMA KeepStep ==
    ASSUME IInv, KeepGlobs
    PROVE  IInv'
<1> DEFINE db == cfg.dbs[taken + 1]
<1>1. /\ pc = "globs" /\ pc' = "globs" /\ taken < Len(cfg.dbs) /\ taken' = taken + 1
      /\ globs' = IF IsGlob(db) THEN Append(globs, db) ELSE globs
      /\ UNCHANGED <<file, env, cfg, errs, loopVars>>
  BY DEF KeepGlobs
<1>2. /\ cfg.dbs \in Seq([alias : Expanded, path : Expanded, glob : Expanded])
      /\ \A i \in 1..Len(cfg.dbs) : ~BadEntry(cfg.dbs[i])
      /\ Len(cfg.dbs) \in Nat
  BY <1>1, PassedEntries DEF IInv, Late
<1>3. taken \in Nat /\ taken + 1 \in 1..Len(cfg.dbs) /\ taken' \in 0..Len(cfg.dbs)
  <2>1. taken \in 0..Len(cfg.dbs)
    BY DEF IInv, TypeOK
  <2> QED
    BY <1>1, <1>2, <2>1
<1>4. db \in [alias : Expanded, path : Expanded, glob : Expanded] /\ ~BadEntry(db)
  BY <1>2, <1>3, ElementOf
<1>5. IsGlob(db) => db \in [alias : {""}, path : {""}, glob : Given]
  <2> SUFFICES ASSUME db.glob # "" PROVE db \in [alias : {""}, path : {""}, glob : Given]
    BY DEF IsGlob
  <2>1. db.alias = "" /\ db.path = "" /\ db.glob \in Given
    BY <1>4 DEF BadEntry, Expanded
  <2>2. db = [alias |-> db.alias, path |-> db.path, glob |-> db.glob]
    BY <1>4
  <2> HIDE DEF db
  <2> QED
    BY <2>1, <2>2
<1> HIDE DEF db
<1>6. globs \in Seq([alias : {""}, path : {""}, glob : Given])
  BY DEF IInv, TypeOK
<1>7. globs' \in Seq([alias : {""}, path : {""}, glob : Given])
      /\ (globs' = <<>> => globs = <<>> /\ ~IsGlob(db))
  <2>1. CASE IsGlob(db)
    BY <1>1, <1>5, <1>6, <2>1, Extended
  <2>2. CASE ~IsGlob(db)
    BY <1>1, <1>6, <2>2
  <2> QED
    BY <2>1, <2>2
<1>9. TypeOK'
  BY <1>1, <1>3, <1>7 DEF IInv, TypeOK, LoopTypeOK, loopVars
<1>10. Reported'
  <2>1. \A c : Faults(c)' = Faults(c)
    BY <1>1, SameFaults
  <2> QED
    BY <1>1, <2>1 DEF IInv, Reported, Late
<1>11. LoopInv'
  BY <1>1 DEF IInv, LoopInv, LoopTypeOK, MetBefore, KeptBefore, AsRecord, loopVars
<1>12. Taken'
  <2>1. LoopInit'
    BY <1>1 DEF IInv, Taken, LoopInit, loopVars
  <2>2. globs' = <<>> => \A i \in 1..taken' : ~IsGlob(cfg.dbs[i])
    <3> SUFFICES ASSUME globs' = <<>>, NEW i \in 1..taken' PROVE ~IsGlob(cfg.dbs[i])
      OBVIOUS
    <3>1. i \in 1..taken \/ i = taken + 1
      BY <1>1, <1>3
    <3> QED
      BY <1>1, <1>7, <3>1 DEF IInv, Taken, db
  <2>3. \A i \in 1..Len(entries') : entries'[i].alias = "" => entries'[i].glob
    BY <1>1 DEF IInv, Taken, loopVars
  <2> QED
    BY <1>1, <2>1, <2>2, <2>3 DEF Taken, Early, Late, IsGlob
<1> QED
  BY <1>9, <1>10, <1>11, <1>12 DEF IInv

\* The call of the expansion begins a loop.
LEMMA BeginStep ==
    ASSUME IInv, ExpandBegin
    PROVE  IInv'
<1>1. /\ pc = "globs" /\ pc' = "expand" /\ taken = Len(cfg.dbs) /\ taken' = 0
      /\ files' \in SUBSET Findable
      /\ UNCHANGED <<file, env, cfg, errs, globs, entries, next, seen, result>>
  BY DEF ExpandBegin
<1>2. /\ cfg.dbs \in Seq([alias : Expanded, path : Expanded, glob : Expanded])
      /\ Len(cfg.dbs) \in Nat
  BY <1>1, PassedEntries DEF IInv, Late
<1>3. Findable \subseteq Path
  <2> SUFFICES ASSUME NEW db \in ToSet(cfg.dbs), IsGlob(db), NEW f \in ToSet(Listed[db.glob])
               PROVE  f.path \in Path
    BY DEF Findable
  <2>1. db \in [alias : Expanded, path : Expanded, glob : Expanded]
    <3>1. PICK i \in DOMAIN cfg.dbs : db = cfg.dbs[i]
      BY DEF ToSet
    <3> QED
      BY <1>2, <3>1, ElementOf
  <2>2. db.glob \in Given
    BY <2>1 DEF IsGlob, Expanded
  <2>3. Listed[db.glob] \in Seq([alias : Alias, path : Path, glob : {TRUE}])
    BY <2>2, ConfigAssumption
  <2>4. f \in [alias : Alias, path : Path, glob : {TRUE}]
    <3>1. PICK i \in DOMAIN Listed[db.glob] : f = Listed[db.glob][i]
      BY DEF ToSet
    <3> QED
      BY <2>3, <3>1, ElementOf
  <2> QED
    BY <2>4
<1>4. LoopInit /\ entries' = <<>> /\ Len(entries') = 0 /\ next' = 1 /\ seen' = {} /\ result' = {}
  BY <1>1 DEF IInv, Taken, LoopInit
<1>5. LoopTypeOK'
  BY <1>1, <1>3, <1>4 DEF LoopTypeOK
<1>6. TypeOK'
  <2>1. taken' \in 0..Len(cfg'.dbs)
    BY <1>1, <1>2
  <2> QED
    BY <1>1, <1>5, <2>1 DEF IInv, TypeOK
<1>7. Reported'
  <2>1. \A c : Faults(c)' = Faults(c)
    BY <1>1, SameFaults
  <2> QED
    BY <1>1, <2>1 DEF IInv, Reported, Late
<1>8. LoopInv'
  <2>1. MetBefore(next)' = {} /\ KeptBefore(next)' = {}
    BY <1>4 DEF MetBefore, KeptBefore
  <2> QED
    BY <1>4, <1>5, <2>1 DEF LoopInv
<1>9. Taken'
  <2>1. globs' = <<>> => \A i \in 1..Len(cfg'.dbs) : ~IsGlob(cfg'.dbs[i])
    BY <1>1 DEF IInv, Taken
  <2>2. \A i \in 1..Len(entries') : FALSE
    BY <1>4
  <2>3. Len(entries') = 0
    BY <1>4
  <2>4. taken' = 0 /\ pc' = "expand"
    BY <1>1
  <2>5. ~Early' /\ ~(taken' > 0) /\ pc' # "globs" /\ pc' # "loaded"
    BY <2>4 DEF Early, Late
  <2> QED
    BY <2>1, <2>2, <2>3, <2>5 DEF Taken
<1> QED
  BY <1>6, <1>7, <1>8, <1>9 DEF IInv

\* Taking up an entry of the file keeps the invariant.
LEMMA TakeUpStep ==
    ASSUME IInv, ExpandNext
    PROVE  IInv'
<1> DEFINE db == cfg.dbs[taken + 1]
           list == Flattened(db)
<1>1. /\ pc = "expand" /\ pc' = "expand" /\ taken < Len(cfg.dbs) /\ taken' = taken + 1
      /\ TakeUp(list) /\ entries' = entries \o list /\ next' = next
      /\ UNCHANGED <<file, env, cfg, errs, globs>>
  BY DEF ExpandNext, TakeUp
<1>2. /\ cfg.dbs \in Seq([alias : Expanded, path : Expanded, glob : Expanded])
      /\ \A i \in 1..Len(cfg.dbs) : ~BadEntry(cfg.dbs[i])
      /\ Len(cfg.dbs) \in Nat
  BY <1>1, PassedEntries DEF IInv, Late
<1>3. taken \in Nat /\ taken + 1 \in 1..Len(cfg.dbs) /\ taken' \in 0..Len(cfg.dbs)
  <2>1. taken \in 0..Len(cfg.dbs)
    BY DEF IInv, TypeOK
  <2> QED
    BY <1>1, <1>2, <2>1
<1>4. db \in [alias : Expanded, path : Expanded, glob : Expanded] /\ ~BadEntry(db)
  BY <1>2, <1>3, ElementOf
<1>5. /\ list \in Seq(Entry)
      /\ \A i \in 1..Len(list) : list[i].alias = "" => list[i].glob
      /\ ~IsGlob(db) => Len(list) = 1 /\ ~list[1].glob
  BY <1>4, FlattenedType
<1> HIDE DEF list
<1>6. LoopInv'
  BY <1>1, <1>5, TakeUpLoop DEF IInv
<1>7. TypeOK'
  BY <1>1, <1>3, <1>6 DEF IInv, TypeOK, LoopInv
<1>8. Reported'
  <2>1. \A c : Faults(c)' = Faults(c)
    BY <1>1, SameFaults
  <2> QED
    BY <1>1, <2>1 DEF IInv, Reported, Late
<1>9. /\ entries \in Seq(Entry) /\ Len(entries) \in Nat /\ Len(list) \in Nat
      /\ entries' \in Seq(Entry)
      /\ Len(entries') = Len(entries) + Len(list)
      /\ \A i \in 1..Len(entries) : entries'[i] = entries[i]
      /\ \A i \in 1..Len(list) : entries'[Len(entries) + i] = list[i]
  <2>1. entries \in Seq(Entry)
    BY DEF IInv, LoopInv, LoopTypeOK
  <2>2. Len(entries) \in Nat /\ Len(list) \in Nat
    BY <1>5, <2>1, ElementOf
  <2>3. /\ entries \o list \in Seq(Entry) /\ Len(entries \o list) = Len(entries) + Len(list)
        /\ \A i \in 1..Len(entries) : (entries \o list)[i] = entries[i]
        /\ \A i \in 1..Len(list) : (entries \o list)[Len(entries) + i] = list[i]
    <3>1. list \in Seq(Entry)
      BY <1>5
    <3> QED
      BY <2>1, <3>1, Appended
  <2> QED
    BY <1>1, <2>1, <2>2, <2>3
<1>10. \A i \in 1..Len(entries') : entries'[i].alias = "" => entries'[i].glob
  <2> SUFFICES ASSUME NEW i \in 1..Len(entries') PROVE entries'[i].alias = "" => entries'[i].glob
    OBVIOUS
  <2>1. CASE i \in 1..Len(entries)
    BY <1>9, <2>1 DEF IInv, Taken
  <2>2. CASE i \notin 1..Len(entries)
    <3>1. i - Len(entries) \in 1..Len(list) /\ Len(entries) + (i - Len(entries)) = i
      BY <1>9, <2>2
    <3>2. entries'[i] = list[i - Len(entries)]
      BY <1>9, <3>1
    <3> QED
      BY <1>5, <3>1, <3>2
  <2> QED
    BY <2>1, <2>2
<1>11. globs' = <<>> => Len(entries') > 0 /\ ~entries'[1].glob
  <2> SUFFICES ASSUME globs = <<>> PROVE Len(entries') > 0 /\ ~entries'[1].glob
    BY <1>1, <1>9
  <2>1. ~IsGlob(db)
    BY <1>1, <1>3 DEF IInv, Taken
  <2>2. Len(list) = 1 /\ ~list[1].glob
    BY <1>5, <2>1
  <2>3. CASE Len(entries) = 0
    <3>1. entries'[1] = list[1]
      BY <1>9, <2>2, <2>3
    <3> QED
      BY <1>9, <2>2, <2>3, <3>1
  <2>4. CASE Len(entries) > 0
    <3>1. entries'[1] = entries[1]
      BY <1>9, <2>4
    <3>2. taken > 0
      <4>1. taken = 0 => Len(entries) = 0
        BY <1>1 DEF IInv, Taken
      <4> QED
        BY <1>3, <2>4, <4>1
    <3>3. ~entries[1].glob
      BY <1>1, <3>2 DEF IInv, Taken
    <3> QED
      BY <1>9, <2>2, <2>4, <3>1, <3>3
  <2> QED
    BY <1>9, <2>3, <2>4
<1>12. Taken'
  <2>1. globs' = <<>> => \A i \in 1..Len(cfg'.dbs) : ~IsGlob(cfg'.dbs[i])
    BY <1>1 DEF IInv, Taken
  <2>2. taken' # 0
    BY <1>1, <1>3
  <2> QED
    BY <1>1, <1>10, <1>11, <2>1, <2>2 DEF Taken, Early, Late, IsGlob
<1> QED
  BY <1>6, <1>7, <1>8, <1>12 DEF IInv

\* A step of the inner loop keeps the invariant.
LEMMA LoopStep ==
    ASSUME IInv, Expanding \/ Return \/ UNCHANGED vars
    PROVE  IInv'
<1>1. /\ UNCHANGED <<loadVars, entries, files>>
      /\ pc' = pc \/ (pc = "expand" /\ pc' = "loaded" /\ taken = Len(cfg.dbs) /\ Done)
      /\ pc # "expand" => UNCHANGED loopVars
      /\ pc' = "loaded" => UNCHANGED loopVars
  BY DEF Expanding, Return, vars, loopVars, LoopNext, Unmatched, Collision, Append1
<1>2. LoopInv'
  <2>1. CASE LoopNext
    BY <2>1, StepLoop DEF IInv
  <2>2. CASE UNCHANGED loopVars
    BY <2>2 DEF IInv, LoopInv, LoopTypeOK, MetBefore, KeptBefore, AsRecord, loopVars
  <2> QED
    BY <2>1, <2>2 DEF Expanding, Return, vars
<1>3. TypeOK'
  BY <1>1, <1>2 DEF IInv, TypeOK, LoopInv, loadVars
<1>4. Reported'
  <2>1. \A c : Faults(c)' = Faults(c)
    BY <1>1, SameFaults DEF loadVars
  <2> QED
    BY <1>1, <2>1 DEF IInv, Reported, Late, loadVars
<1>5. Taken'
  <2>1. Early \/ pc = "globs" => LoopInit'
    BY <1>1 DEF IInv, Taken, LoopInit, loopVars, Early, Late
  <2>2. pc' = "loaded" => (Done /\ taken = Len(cfg.dbs))'
    BY <1>1 DEF IInv, Taken, loadVars, loopVars, Done
  <2>3. Early' <=> Early
    BY <1>1 DEF Early, Late
  <2>4. taken' = taken /\ globs' = globs /\ cfg' = cfg /\ entries' = entries
    BY <1>1 DEF loadVars
  <2> QED
    BY <1>1, <2>1, <2>2, <2>3, <2>4 DEF IInv, Taken, IsGlob
<1> QED
  BY <1>2, <1>3, <1>4, <1>5 DEF IInv
\* The invariant holds at the start.
LEMMA InitInv == Init => IInv
<1> SUFFICES ASSUME Init PROVE IInv
  OBVIOUS
<1>1. /\ file \in File /\ env \in Word \cup {"", "sentinel"}
      /\ cfg = Nothing /\ errs = {} /\ globs = <<>> /\ taken = 0 /\ pc = "read" /\ LoopInit
  BY DEF Init
<1>2. LoopInv
  BY <1>1, InitLoop
<1>3. Nothing \in Filled(Expanded) /\ Len(Nothing.dbs) = 0
  <2>1. "" \in Expanded
    BY DEF Expanded
  <2>2. \A S : <<>> \in Seq(S)
    OBVIOUS
  <2>3. Nothing.dbs = <<>>
    BY DEF Nothing
  <2>4. Nothing \in Filled(Expanded)
    BY <2>1, <2>2 DEF Nothing, Filled
  <2> QED
    BY <2>3, <2>4
<1>4. file \in Filled(Text)
  BY <1>1, ConfigAssumption
<1>5. globs \in Seq([alias : {""}, path : {""}, glob : Given])
  <2>1. \A S : <<>> \in Seq(S)
    OBVIOUS
  <2> QED
    BY <1>1, <2>1
<1>6. TypeOK
  <2>1. taken \in 0..Len(cfg.dbs)
    <3>1. taken = 0 /\ Len(cfg.dbs) = 0
      BY <1>1, <1>3
    <3> QED
      BY <3>1
  <2>2. cfg \in Filled(Expanded)
    BY <1>1, <1>3
  <2> QED
    BY <1>1, <1>2, <1>4, <1>5, <2>1, <2>2 DEF TypeOK, LoopInv
<1>7. Reported
  BY <1>1 DEF Reported, Late
<1>8. Taken
  <2>1. \A i \in 1..Len(entries) : FALSE
    <3>1. entries = <<>>
      BY <1>1 DEF LoopInit
    <3>2. \A i \in 1..Len(<<>>) : FALSE
      OBVIOUS
    <3> QED
      BY <3>1, <3>2
  <2>2. \A i \in 1..taken : FALSE
    <3>1. taken = 0
      BY <1>1
    <3> QED
      BY <3>1
  <2> QED
    BY <1>1, <2>1, <2>2 DEF Taken, Early, Late
<1> QED
  BY <1>2, <1>6, <1>7, <1>8 DEF IInv

-----------------------------------------------------------------------------
(* The theorems *)

\* Every step of Load keeps what the invariant says.
THEOREM InvLoad == Spec => []IInv
<1>1. IInv /\ [Next]_vars => IInv'
  BY ValidateStep, PrepareStep, KeepStep, BeginStep, TakeUpStep, LoopStep, FailStep DEF Next
<1> QED
  BY <1>1, InitInv, PTL DEF Spec

\* The databases of the configuration are the first of every alias, and no two of
\* them differ only in the case of it (glob.go:25-61).
THEOREM ExpansionSafe == Spec => [](FirstEntryWins /\ NoCaseDuplicate)
<1>1. IInv => FirstEntryWins /\ NoCaseDuplicate
  BY LoopCorrect DEF IInv
<1> QED
  BY <1>1, InvLoad, PTL

-----------------------------------------------------------------------------
(* Which globs the watcher is given *)

\* The first n entries of the file are in order among what is kept aside.
KeptUpTo(n) ==
    /\ Len(globs) = Cardinality(GlobsUpTo(n))
    /\ \A i \in GlobsUpTo(n) : globs[Cardinality(GlobsUpTo(i))].glob = Expand(file.dbs[i].glob)

\* The entries and the keys of the Config are those of the file, expanded.
Copied ==
    /\ Len(cfg.dbs) = Len(file.dbs)
    /\ \A i \in 1..Len(file.dbs) : cfg.dbs[i].glob = Expand(file.dbs[i].glob)
    /\ \A i \in DOMAIN file.keys : i \in DOMAIN cfg.keys /\ cfg.keys[i] = Expand(file.keys[i])

GlobInv ==
    /\ pc \notin {"read", "failed"} => Copied
    /\ pc = "globs" => KeptUpTo(taken)
    /\ pc \in {"expand", "loaded"} => KeptUpTo(Len(file.dbs))

\* How the count of the globs grows.
LEMMA GlobCount ==
    ASSUME NEW n \in Nat
    PROVE  /\ IsFiniteSet(GlobsUpTo(n)) /\ Cardinality(GlobsUpTo(n)) \in Nat
           /\ GlobsUpTo(0) = {} /\ Cardinality(GlobsUpTo(0)) = 0
           /\ Expand(file.dbs[n + 1].glob) = "" => GlobsUpTo(n + 1) = GlobsUpTo(n)
           /\ Expand(file.dbs[n + 1].glob) # "" =>
                  /\ GlobsUpTo(n + 1) = GlobsUpTo(n) \cup {n + 1}
                  /\ Cardinality(GlobsUpTo(n + 1)) = Cardinality(GlobsUpTo(n)) + 1
           /\ \A i \in GlobsUpTo(n) : Cardinality(GlobsUpTo(i)) \in 1..Cardinality(GlobsUpTo(n))
<1>1. \A m \in Nat : IsFiniteSet(GlobsUpTo(m)) /\ Cardinality(GlobsUpTo(m)) \in Nat
  <2> TAKE m \in Nat
  <2>1. IsFiniteSet(1..m)
    BY FS_Interval
  <2>2. GlobsUpTo(m) \subseteq 1..m
    BY DEF GlobsUpTo
  <2>3. IsFiniteSet(GlobsUpTo(m))
    BY <2>1, <2>2, FS_Subset
  <2> QED
    BY <2>3, FS_CardinalityType
<1>2. GlobsUpTo(0) = {} /\ Cardinality(GlobsUpTo(0)) = 0
  <2>1. GlobsUpTo(0) = {}
    BY DEF GlobsUpTo
  <2> QED
    BY <2>1, FS_EmptySet
<1>3. 1..(n + 1) = 1..n \cup {n + 1} /\ n + 1 \notin 1..n
  OBVIOUS
<1>4. Expand(file.dbs[n + 1].glob) = "" => GlobsUpTo(n + 1) = GlobsUpTo(n)
  BY <1>3 DEF GlobsUpTo
<1>5. Expand(file.dbs[n + 1].glob) # "" =>
          /\ GlobsUpTo(n + 1) = GlobsUpTo(n) \cup {n + 1}
          /\ Cardinality(GlobsUpTo(n + 1)) = Cardinality(GlobsUpTo(n)) + 1
  <2> SUFFICES ASSUME Expand(file.dbs[n + 1].glob) # ""
               PROVE  /\ GlobsUpTo(n + 1) = GlobsUpTo(n) \cup {n + 1}
                      /\ Cardinality(GlobsUpTo(n + 1)) = Cardinality(GlobsUpTo(n)) + 1
    OBVIOUS
  <2>1. GlobsUpTo(n + 1) = GlobsUpTo(n) \cup {n + 1}
    BY <1>3 DEF GlobsUpTo
  <2>2. n + 1 \notin GlobsUpTo(n)
    BY <1>3 DEF GlobsUpTo
  <2>3. IsFiniteSet(GlobsUpTo(n))
    BY <1>1
  <2> QED
    BY <2>1, <2>2, <2>3, FS_AddElement
<1>6. ASSUME NEW k \in GlobsUpTo(n)
      PROVE  Cardinality(GlobsUpTo(k)) \in 1..Cardinality(GlobsUpTo(n))
  <2>1. k \in 1..n /\ Expand(file.dbs[k].glob) # ""
    BY DEF GlobsUpTo
  <2>2. k \in Nat /\ k \in 1..k /\ 1..k \subseteq 1..n
    <3>1. k \in 1..n
      BY <2>1
    <3> QED
      BY <3>1
  <2>3. GlobsUpTo(k) \subseteq GlobsUpTo(n) /\ k \in GlobsUpTo(k)
    <3>1. \A m : GlobsUpTo(m) = {i \in 1..m : Expand(file.dbs[i].glob) # ""}
      BY DEF GlobsUpTo
    <3> QED
      BY <2>1, <2>2, <3>1
  <2>4. /\ IsFiniteSet(GlobsUpTo(n)) /\ Cardinality(GlobsUpTo(n)) \in Nat
        /\ IsFiniteSet(GlobsUpTo(k)) /\ Cardinality(GlobsUpTo(k)) \in Nat
    BY <1>1, <2>2
  <2>5. Cardinality(GlobsUpTo(k)) <= Cardinality(GlobsUpTo(n))
    BY <2>3, <2>4, FS_Subset
  <2>6. Cardinality(GlobsUpTo(k)) # 0
    BY <2>3, <2>4, FS_EmptySet
  <2> QED
    BY <2>4, <2>5, <2>6
<1> QED
  BY <1>1, <1>2, <1>4, <1>5, <1>6

\* Reading makes the copy.
LEMMA ReadCopies ==
    ASSUME IInv, Read
    PROVE  Copied'
<1> DEFINE dbs == [i \in DOMAIN file.dbs |-> [alias |-> Expand(file.dbs[i].alias),
                                             path |-> Expand(file.dbs[i].path),
                                             glob |-> Expand(file.dbs[i].glob)]]
<1>1. file \in Filled(Text)
  BY DEF IInv, TypeOK
<1>2. file.dbs \in Seq([alias : Text, path : Text, glob : Text])
  BY <1>1 DEF Filled
<1>3. Len(file.dbs) \in Nat /\ DOMAIN file.dbs = 1..Len(file.dbs)
  BY <1>2, ElementOf
<1>4. cfg'.dbs = dbs /\ UNCHANGED <<file, env>> /\ cfg'.keys = [i \in DOMAIN file.keys |-> Expand(file.keys[i])]
  BY <1>1 DEF Read, Filled
<1>5. Len(dbs) = Len(file.dbs)
  <2>1. dbs \in [1..Len(file.dbs) -> {dbs[i] : i \in 1..Len(file.dbs)}]
    BY <1>3
  <2>2. DOMAIN dbs = 1..Len(file.dbs)
    BY <1>3
  <2> HIDE DEF dbs
  <2>3. dbs \in Seq({dbs[i] : i \in 1..Len(file.dbs)})
    BY <1>3, <2>1, SequenceOf
  <2>4. Len(dbs) \in Nat /\ DOMAIN dbs = 1..Len(dbs)
    BY <2>3, ElementOf
  <2> QED
    BY <1>3, <2>2, <2>4
<1>6. \A i \in 1..Len(file.dbs) : dbs[i].glob = Expand(file.dbs[i].glob)
  BY <1>3
<1>7. \A t : Expand(t)' = Expand(t)
  BY <1>4 DEF Expand
<1> HIDE DEF dbs
<1> QED
  BY <1>4, <1>5, <1>6, <1>7 DEF Copied

\* A glob is kept behind those before it.
LEMMA KeepKeeps ==
    ASSUME IInv, GlobInv, KeepGlobs
    PROVE  KeptUpTo(taken)'
<1> DEFINE db == cfg.dbs[taken + 1]
<1>1. /\ pc = "globs" /\ taken < Len(cfg.dbs) /\ taken' = taken + 1
      /\ globs' = IF IsGlob(db) THEN Append(globs, db) ELSE globs
      /\ UNCHANGED <<file, env>>
  BY DEF KeepGlobs
<1>2. Copied /\ KeptUpTo(taken)
  BY <1>1 DEF GlobInv
<1>3. taken \in Nat /\ taken + 1 \in 1..Len(file.dbs)
  <2>1. taken \in 0..Len(cfg.dbs)
    BY DEF IInv, TypeOK
  <2>2. cfg.dbs \in Seq([alias : Expanded, path : Expanded, glob : Expanded])
    BY DEF IInv, TypeOK, Filled
  <2>3. Len(cfg.dbs) \in Nat
    BY <2>2, ElementOf
  <2> QED
    BY <1>1, <1>2, <2>1, <2>3 DEF Copied
<1>4. db.glob = Expand(file.dbs[taken + 1].glob)
  BY <1>2, <1>3 DEF Copied
<1>5. /\ \A t : Expand(t)' = Expand(t)
      /\ \A n : GlobsUpTo(n)' = GlobsUpTo(n)
  BY <1>1 DEF Expand, GlobsUpTo
<1>6. PICK S : globs \in Seq(S) /\ db \in S
  <2>1. globs \in Seq([alias : {""}, path : {""}, glob : Given])
    BY DEF IInv, TypeOK
  <2>2. \A R, T, s : R \subseteq T /\ s \in Seq(R) => s \in Seq(T)
    OBVIOUS
  <2>3. globs \in Seq([alias : {""}, path : {""}, glob : Given] \cup {db})
    BY <2>1, <2>2
  <2> QED
    BY <2>3
<1>7. PICK n : n = taken + 1
  OBVIOUS
<1>8. KeptUpTo(n)'
  <2>1. CASE Expand(file.dbs[taken + 1].glob) = ""
    <3>1. globs' = globs
      BY <1>1, <1>4, <2>1 DEF IsGlob
    <3>2. GlobsUpTo(taken + 1) = GlobsUpTo(taken)
      BY <1>3, <2>1, GlobCount
    <3>3. KeptUpTo(taken + 1)
      BY <1>2, <3>2 DEF KeptUpTo
    <3> QED
      BY <1>1, <1>5, <1>7, <3>1, <3>3 DEF KeptUpTo
  <2>2. CASE Expand(file.dbs[taken + 1].glob) # ""
    <3>1. globs' = Append(globs, db)
      BY <1>1, <1>4, <2>2 DEF IsGlob
    <3>2. /\ GlobsUpTo(taken + 1) = GlobsUpTo(taken) \cup {taken + 1}
          /\ Cardinality(GlobsUpTo(taken + 1)) = Cardinality(GlobsUpTo(taken)) + 1
          /\ \A i \in GlobsUpTo(taken) : Cardinality(GlobsUpTo(i)) \in 1..Cardinality(GlobsUpTo(taken))
      BY <1>3, <2>2, GlobCount
    <3>3. Len(globs) = Cardinality(GlobsUpTo(taken))
      BY <1>2 DEF KeptUpTo
    <3>4. /\ Len(globs') = Len(globs) + 1
          /\ \A k \in 1..Len(globs) : globs'[k] = globs[k]
          /\ globs'[Len(globs) + 1] = db
      BY <1>6, <3>1
    <3>5. ASSUME NEW i \in GlobsUpTo(taken)
          PROVE  globs'[Cardinality(GlobsUpTo(i))].glob = Expand(file.dbs[i].glob)
      <4>1. globs'[Cardinality(GlobsUpTo(i))] = globs[Cardinality(GlobsUpTo(i))]
        BY <3>2, <3>3, <3>4
      <4> QED
        BY <1>2, <4>1 DEF KeptUpTo
    <3>6. globs'[Cardinality(GlobsUpTo(taken + 1))].glob = Expand(file.dbs[taken + 1].glob)
      BY <1>4, <3>2, <3>3, <3>4
    <3>7. /\ Len(globs') = Cardinality(GlobsUpTo(taken + 1))
          /\ \A i \in GlobsUpTo(taken + 1) :
                 globs'[Cardinality(GlobsUpTo(i))].glob = Expand(file.dbs[i].glob)
      BY <3>2, <3>3, <3>4, <3>5, <3>6
    <3> QED
      BY <1>1, <1>5, <1>7, <3>7 DEF KeptUpTo
  <2> QED
    BY <2>1, <2>2
<1> QED
  BY <1>1, <1>7, <1>8 DEF KeptUpTo

\* Every step keeps the copy, and the account of the globs.
LEMMA GlobStep ==
    ASSUME IInv, GlobInv, Next \/ UNCHANGED vars
    PROVE  GlobInv'
<1> DEFINE Same == UNCHANGED <<file, env>> /\ cfg'.dbs = cfg.dbs /\ cfg'.keys = cfg.keys
<1>1. ASSUME Same PROVE Copied => Copied'
  <2>1. \A t : Expand(t)' = Expand(t)
    BY <1>1 DEF Expand
  <2> QED
    BY <1>1, <2>1 DEF Copied
<1>2. ASSUME Same, globs' = globs, NEW n PROVE KeptUpTo(n) => KeptUpTo(n)'
  <2>1. \A t : Expand(t)' = Expand(t)
    BY <1>2 DEF Expand
  <2>2. \A m : GlobsUpTo(m)' = GlobsUpTo(m)
    BY <1>2, <2>1 DEF GlobsUpTo
  <2> QED
    BY <1>2, <2>1, <2>2 DEF KeptUpTo
<1>3. CASE Read
  <2>1. pc' = "parse"
    BY <1>3 DEF Read
  <2> QED
    BY <1>3, <2>1, ReadCopies DEF GlobInv
<1>4. CASE Parse \/ ApplyDefaults \/ Validate
  <2>1. Same /\ pc # "read" /\ pc # "failed"
    <3>1. CASE ApplyDefaults
      <4>1. cfg \in Filled(Expanded)
        BY DEF IInv, TypeOK
      <4> QED
        BY <3>1, <4>1 DEF ApplyDefaults, Filled
    <3>2. CASE Parse \/ Validate
      BY <3>2 DEF Parse, Validate, Checks, loadVars
    <3> QED
      BY <1>4, <3>1, <3>2
  <2>2. pc' \notin Late
    <3>1. CASE Parse \/ ApplyDefaults
      BY <3>1 DEF Parse, ApplyDefaults, Late
    <3>2. CASE Validate
      BY <3>2 DEF Validate, Checks, After, Late
    <3> QED
      BY <1>4, <3>1, <3>2
  <2> HIDE DEF Same
  <2> QED
    BY <1>1, <2>1, <2>2 DEF GlobInv, Late
<1>5. CASE Verdict
  <2>1. Same /\ pc = "verdict" /\ pc' \in {"globs", "failed"} /\ globs' = globs /\ taken' = taken
    BY <1>5 DEF Verdict, loadVars
  <2>2. globs = <<>> /\ taken = 0
    BY <2>1 DEF IInv, Taken, Early, Late
  <2>3. KeptUpTo(0)
    <3>1. GlobsUpTo(0) = {} /\ Cardinality(GlobsUpTo(0)) = 0
      BY GlobCount
    <3>2. Len(<<>>) = 0
      OBVIOUS
    <3> QED
      BY <2>2, <3>1, <3>2 DEF KeptUpTo
  <2>4. KeptUpTo(0)'
    BY <1>2, <2>1, <2>3
  <2>5. KeptUpTo(taken)'
    BY <2>1, <2>2, <2>4 DEF KeptUpTo
  <2> HIDE DEF Same
  <2> QED
    BY <1>1, <2>1, <2>5 DEF GlobInv
<1>6. CASE KeepGlobs
  <2>1. Same /\ pc = "globs" /\ pc' = "globs"
    BY <1>6 DEF KeepGlobs
  <2>2. KeptUpTo(taken)'
    BY <1>6, KeepKeeps
  <2> HIDE DEF Same
  <2> QED
    BY <1>1, <2>1, <2>2 DEF GlobInv
<1>7. CASE ExpandBegin
  <2>1. Same /\ pc = "globs" /\ pc' = "expand" /\ globs' = globs /\ taken = Len(cfg.dbs)
    BY <1>7 DEF ExpandBegin
  <2>2. Copied /\ KeptUpTo(taken)
    BY <2>1 DEF GlobInv
  <2>3. KeptUpTo(Len(file.dbs))
    BY <2>1, <2>2 DEF Copied
  <2>4. KeptUpTo(Len(file.dbs))'
    <3>1. PICK n : n = Len(file.dbs)
      OBVIOUS
    <3>2. KeptUpTo(n)'
      BY <1>2, <2>1, <2>3, <3>1
    <3> QED
      BY <2>1, <3>1, <3>2 DEF KeptUpTo
  <2> HIDE DEF Same
  <2> QED
    BY <1>1, <2>1, <2>2, <2>4 DEF GlobInv
<1>8. CASE ExpandNext \/ Expanding \/ Return
  <2>1. Same /\ pc = "expand" /\ pc' \in {"expand", "loaded"} /\ globs' = globs
    BY <1>8 DEF ExpandNext, Expanding, Return, loadVars
  <2>2. Copied /\ KeptUpTo(Len(file.dbs))
    BY <2>1 DEF GlobInv
  <2>3. KeptUpTo(Len(file.dbs))'
    <3>1. PICK n : n = Len(file.dbs)
      OBVIOUS
    <3>2. KeptUpTo(n)'
      BY <1>2, <2>1, <2>2, <3>1
    <3> QED
      BY <2>1, <3>1, <3>2 DEF KeptUpTo
  <2> HIDE DEF Same
  <2> QED
    BY <1>1, <2>1, <2>2, <2>3 DEF GlobInv
<1>9. CASE Fails
  <2>1. pc' = "failed"
    BY <1>9 DEF Fails
  <2> QED
    BY <2>1 DEF GlobInv
<1>10. CASE UNCHANGED vars
  <2>1. Same /\ pc' = pc /\ globs' = globs /\ taken' = taken
    BY <1>10 DEF vars, loadVars
  <2>3. KeptUpTo(taken) => KeptUpTo(taken)'
    <3>1. PICK n : n = taken
      OBVIOUS
    <3>2. KeptUpTo(n) => KeptUpTo(n)'
      BY <1>2, <2>1
    <3> QED
      BY <2>1, <3>1, <3>2 DEF KeptUpTo
  <2>4. KeptUpTo(Len(file.dbs)) => KeptUpTo(Len(file.dbs))'
    <3>1. PICK n : n = Len(file.dbs)
      OBVIOUS
    <3>2. KeptUpTo(n) => KeptUpTo(n)'
      BY <1>2, <2>1
    <3> QED
      BY <2>1, <3>1, <3>2 DEF KeptUpTo
  <2> HIDE DEF Same
  <2> QED
    BY <1>1, <2>1, <2>3, <2>4 DEF GlobInv
<1> QED
  BY <1>3, <1>4, <1>5, <1>6, <1>7, <1>8, <1>9, <1>10 DEF Next

\* The copy and the account of the globs hold throughout.
LEMMA InvGlobs == Spec => []GlobInv
<1>1. Init => GlobInv
  BY DEF Init, GlobInv
<1>2. IInv /\ GlobInv /\ [Next]_vars => GlobInv'
  BY GlobStep
<1> QED
  BY <1>1, <1>2, InvLoad, PTL DEF Spec

\* Whatever the file, the environment and the disk, the globs that the watcher is
\* given are those of the file, each once and in order (config.go:123-137).
THEOREM GlobsKept == Spec => []GlobsReachWatcher
<1>1. GlobInv => GlobsReachWatcher
  BY DEF GlobInv, KeptUpTo, GlobsReachWatcher
<1> QED
  BY <1>1, InvGlobs, PTL

-----------------------------------------------------------------------------
(* What is loaded *)

\* A key that passes the check is one of a text that makes a key.
LEMMA FitsUnlessBad ==
    ASSUME NEW t \in Text, env \in Word \cup {"", "sentinel"}, ~BadKey(Expand(t))
    PROVE  KeyFits(t)
<1>1. KeyWord \subseteq Word /\ Word \cap (Reference \cup Replaced \cup {""}) = {}
  BY ConfigAssumption
<1>2. CASE t = "ref"
  BY <1>1, <1>2 DEF Expand, BadKey, KeyFits, Reference, Replaced
<1>3. CASE t \in Reference \ {"ref"}
  BY <1>1, <1>3 DEF Expand, BadKey, KeyFits, Reference, Replaced
<1>4. CASE t \notin Reference
  <2>1. Expand(t) = t
    BY <1>4 DEF Expand, Reference
  <2>2. t \in Word \cup {""}
    BY <1>4 DEF Text
  <2> QED
    BY <1>1, <2>1, <2>2 DEF BadKey, KeyFits, Replaced
<1> QED
  BY <1>2, <1>3, <1>4

\* What the invariant says once Load has returned.
LEMMA Sound ==
    ASSUME IInv, GlobInv
    PROVE  LoadedIsSound
<1> SUFFICES ASSUME pc = "loaded"
             PROVE  /\ \A i \in DOMAIN file.keys : KeyFits(file.keys[i])
                    /\ \A db \in result : db.path # "" /\ (db.alias = "" => db.path \in files)
                    /\ \A i \in DOMAIN globs : globs[i].alias = "" /\ globs[i].path = ""
                    /\ result # {} \/ globs # <<>>
                    /\ cfg.tunnel \in {"none", "tsnet"}
  BY DEF LoadedIsSound
<1>1. \A c \in Checks : Faults(c) = {}
  BY DEF IInv, Reported, Late
<1>2. ASSUME NEW i \in DOMAIN file.keys PROVE KeyFits(file.keys[i])
  <2>1. {"keys"} \X {k \in DOMAIN cfg.keys : BadKey(cfg.keys[k])} = {}
    BY <1>1 DEF Checks, Faults
  <2>2. i \in DOMAIN cfg.keys /\ cfg.keys[i] = Expand(file.keys[i])
    BY DEF GlobInv, Copied
  <2>3. ~BadKey(cfg.keys[i])
    <3> SUFFICES ASSUME BadKey(cfg.keys[i]) PROVE FALSE
      OBVIOUS
    <3>1. <<"keys", i>> \in {"keys"} \X {k \in DOMAIN cfg.keys : BadKey(cfg.keys[k])}
      BY <2>2
    <3> QED
      BY <2>1, <3>1
  <2>4. file.keys \in Seq(Text) /\ env \in Word \cup {"", "sentinel"}
    BY DEF IInv, TypeOK, Filled
  <2>5. file.keys[i] \in Text
    BY <2>4, ElementOf
  <2> QED
    BY <2>2, <2>3, <2>4, <2>5, FitsUnlessBad
<1>3. ASSUME NEW db \in result
      PROVE  db.path # "" /\ (db.alias = "" => db.path \in files)
  <2>1. PICK i \in KeptBefore(next) : db = AsRecord(i)
    BY DEF IInv, LoopInv
  <2>2. i \in 1..Len(entries) /\ Met(entries[i], files)
    BY DEF KeptBefore, Kept
  <2>3. entries[i] \in Entry
    BY <2>2, ElementOf DEF IInv, LoopInv, LoopTypeOK
  <2>4. db.alias = entries[i].alias /\ db.path = entries[i].path
    BY <2>1 DEF AsRecord
  <2>5. entries[i].path # ""
    BY <2>3, ConfigAssumption DEF Entry
  <2>6. entries[i].alias = "" => entries[i].glob
    BY <2>2 DEF IInv, Taken
  <2> QED
    BY <2>2, <2>4, <2>5, <2>6 DEF Met
<1>4. \A i \in DOMAIN globs : globs[i].alias = "" /\ globs[i].path = ""
  <2>1. globs \in Seq([alias : {""}, path : {""}, glob : Given])
    BY DEF IInv, TypeOK
  <2>2. \A i \in DOMAIN globs : globs[i] \in [alias : {""}, path : {""}, glob : Given]
    BY <2>1, ElementOf
  <2> QED
    BY <2>2
<1>5. ASSUME globs = <<>> PROVE result # {}
  <2>1. taken = Len(cfg.dbs) /\ next = Len(entries) + 1
    BY DEF IInv, Taken, Done
  <2>2. Len(cfg.dbs) \in Nat /\ Len(cfg.dbs) # 0
    <3>1. cfg.dbs # <<>> /\ cfg.dbs \in Seq([alias : Expanded, path : Expanded, glob : Expanded])
      BY PassedEntries DEF IInv, Late
    <3> QED
      BY <3>1
  <2>3. Len(entries) > 0 /\ ~entries[1].glob
    <3>1. taken > 0
      BY <2>1, <2>2
    <3>2. taken > 0 => Len(entries) > 0 /\ ~entries[1].glob
      BY <1>5 DEF IInv, Taken
    <3> QED
      BY <3>1, <3>2
  <2>4. 1 \in 1..Len(entries) /\ 1 < next
    <3>1. Len(entries) \in Nat
      BY DEF IInv, LoopInv, LoopTypeOK
    <3> QED
      BY <2>1, <2>3, <3>1
  <2>5. Kept(entries, files, 1)
    <3>1. \A j \in 1..(1 - 1) : FALSE
      OBVIOUS
    <3>2. Met(entries[1], files)
      BY <2>3 DEF Met
    <3> QED
      BY <3>1, <3>2 DEF Kept
  <2>6. AsRecord(1) \in result
    BY <2>4, <2>5 DEF IInv, LoopInv, KeptBefore
  <2> QED
    BY <2>6
<1>6. cfg.tunnel \in {"none", "tsnet"}
  BY <1>1 DEF Checks, Faults
<1> QED
  BY <1>2, <1>3, <1>4, <1>5, <1>6

\* Whatever the file, the environment and the disk: what Load returns is what its
\* callers rely on, and what it refuses is refused with every fault of it
\* (config.go:229-292).
THEOREM LoadSafe == Spec => [](TypeOK /\ LoadedIsSound /\ AllReported)
<1>1. IInv /\ GlobInv => TypeOK /\ LoadedIsSound /\ AllReported
  BY Sound DEF IInv, Reported, AllReported
<1> QED
  BY <1>1, InvLoad, InvGlobs, PTL
=============================================================================
