------------------------------- MODULE Config -------------------------------
(***************************************************************************)
(* Load (internal/config): the variables of the environment are put in     *)
(* their places in the text of the file, the text is parsed, defaults fill *)
(* what is absent or zero, what is left is validated, and the globs are    *)
(* kept aside and expanded by the loop of ExpandGlobs.tla.                 *)
(*                                                                         *)
(* A text is "" when it is absent, a word without references, "ref" when   *)
(* it is one reference to a variable, "between" when it begins and ends    *)
(* with one, and otherwise, with a reference in it, "within" or, if it is  *)
(* long enough for a key whatever the value is, "longWithin": "joined" or, *)
(* if it is that long, "longJoined" once the value is in its place.  What  *)
(* an unset variable leaves of them is "sentinel" where nothing else is at *)
(* the beginning and at the end, "partial", too short for a key, or        *)
(* "longPartial".                                                          *)
(***************************************************************************)
EXTENDS ExpandGlobs, SequencesExt

CONSTANTS
    Word,       \* texts without references
    KeyWord,    \* those that are long enough for a key
    File,       \* the configuration files there may be
    Listed      \* Listed[g]: the files pattern g can match, in order, with their aliases

Reference == {"ref", "between", "within", "longWithin"}
Replaced == {"joined", "longJoined", "sentinel", "partial", "longPartial"}
Given == Word \cup Replaced
Text == Word \cup {""} \cup Reference
Expanded == Given \cup {""}
Filled(texts) ==
    [keys : Seq(texts),
     dbs : Seq([alias : texts, path : texts, glob : texts]),
     allowed : Seq({"ip", "cidr", "bad"}),
     tunnel : {"", "none", "tsnet", "other"},
     rate : {"absent", "zero", "default", "positive", "negative"},
     typed : texts]     \* a number, or a duration

ASSUME ConfigAssumption ==
    /\ KeyWord \subseteq Word
    /\ Word \cap (Reference \cup Replaced \cup {""}) = {}
    /\ File \subseteq Filled(Text)
    /\ "" \notin Path
    /\ Given \subseteq Alias \cap Path
    /\ Listed \in [Given -> Seq([alias : Alias, path : Path, glob : {TRUE}])]

VARIABLES
    file,       \* what os.ReadFile returns
    env,        \* what the variable they refer to holds, "sentinel" if it is not set
    cfg,        \* the Config under construction
    errs,       \* the errors of validate: what they are about, and its index
    globs,      \* cfg.GlobEntries
    taken,      \* how far the loop over cfg.Databases is
    pc

loadVars == <<file, env, cfg, errs, globs, taken>>
vars == <<loadVars, pc, loopVars>>

Checks == {"keys", "databases", "allowed", "tunnel"}

TypeOK ==
    /\ file \in Filled(Text)
    /\ env \in Word \cup {"", "sentinel"}
    /\ cfg \in Filled(Expanded)
    /\ errs \in SUBSET (({"keys", "databases", "allowed"} \X (Nat \ {0})) \cup {<<"databases", 0>>, <<"tunnel", 0>>})
    /\ globs \in Seq([alias : {""}, path : {""}, glob : Given])
    /\ taken \in 0..Len(cfg.dbs)
    /\ pc \in {"read", "parse", "defaults", "verdict", "globs", "expand", "loaded", "failed"} \cup Checks
    /\ LoopTypeOK

Nothing == [keys |-> <<>>, dbs |-> <<>>, allowed |-> <<>>, tunnel |-> "", rate |-> "zero", typed |-> ""]

Init ==
    /\ file \in File
    /\ env \in Word \cup {"", "sentinel"}
    /\ cfg = Nothing /\ errs = {} /\ globs = <<>> /\ taken = 0
    /\ pc = "read"
    /\ LoopInit

-----------------------------------------------------------------------------
(* Load *)

\* Mutant: a reference to an unset variable is left as it is.
Expand_Keeps(t) ==
    CASE t = "ref" /\ env # "sentinel"             -> env
      [] t \in Reference \ {"ref"} /\ env # "sentinel" -> "joined"
      [] OTHER                                      -> t

\* expandEnv: an unset variable leaves a sentinel for validate to find.
Expand(t) ==
    LET long == t = "longWithin" \/ env \in KeyWord
    IN  CASE t = "ref"                            -> env
          [] t = "between" /\ env = "sentinel"    -> "sentinel"
          [] t = "within" /\ env = "sentinel"     -> "partial"
          [] t = "longWithin" /\ env = "sentinel" -> "longPartial"
          [] t \in Reference \ {"ref"} /\ env # "sentinel" -> IF long THEN "longJoined" ELSE "joined"
          [] OTHER                                -> t

Read ==
    /\ pc = "read"
    /\ cfg' = [file EXCEPT !.keys = [i \in DOMAIN @ |-> Expand(@[i])],
                           !.dbs = [i \in DOMAIN @ |-> [alias |-> Expand(@[i].alias),
                                                        path |-> Expand(@[i].path),
                                                        glob |-> Expand(@[i].glob)]],
                           !.rate = IF @ = "absent" THEN "zero" ELSE @,
                           !.typed = Expand(@)]
    /\ pc' = "parse"
    /\ UNCHANGED <<file, env, errs, globs, taken, loopVars>>

\* A sentinel is not a number.
Parse ==
    /\ pc = "parse"
    /\ pc' = IF cfg.typed \in {"sentinel", "partial", "longPartial"} THEN "failed" ELSE "defaults"
    /\ UNCHANGED <<loadVars, loopVars>>

\* applyDefaults: zero counts as absent.
ApplyDefaults ==
    /\ pc = "defaults"
    /\ cfg' = [cfg EXCEPT !.tunnel = IF @ = "" THEN "none" ELSE @,
                          !.rate = IF @ = "zero" THEN "default" ELSE @]
    /\ pc' = "keys"
    /\ UNCHANGED <<file, env, errs, globs, taken, loopVars>>

-----------------------------------------------------------------------------
(* validate *)

\* Mutant: a key is tested for its length only, which that of a sentinel may be.
BadKey_AnyLong(k) == k \notin KeyWord \cup {"longJoined", "longPartial", "sentinel"}

\* A key that begins and ends like a sentinel, or is too short.
BadKey(k) == k = "sentinel" \/ k \notin KeyWord \cup {"longJoined", "longPartial"}

\* An entry is a glob, or an alias and a path.
BadEntry(e) ==
    IF e.glob # "" THEN e.alias # "" \/ e.path # "" ELSE e.alias = "" \/ e.path = ""

Faults(check) ==
    CASE check = "keys"      -> {check} \X {i \in DOMAIN cfg.keys : BadKey(cfg.keys[i])}
      [] check = "databases" -> ({check} \X {i \in DOMAIN cfg.dbs : BadEntry(cfg.dbs[i])})
                                \cup IF cfg.dbs = <<>> THEN {<<check, 0>>} ELSE {}
      [] check = "allowed"   -> {check} \X {i \in DOMAIN cfg.allowed : cfg.allowed[i] = "bad"}
      [] check = "tunnel"    -> IF cfg.tunnel \in {"none", "tsnet"} THEN {} ELSE {<<check, 0>>}

After(check) ==
    CASE check = "keys"      -> "databases"
      [] check = "databases" -> "allowed"
      [] check = "allowed"   -> "tunnel"
      [] check = "tunnel"    -> "verdict"

\* Mutant: the first fault ends the validation.
Validate_FirstOnly ==
    /\ pc \in Checks
    /\ errs' = errs \cup Faults(pc)
    /\ pc' = IF errs' # {} THEN "verdict" ELSE After(pc)
    /\ UNCHANGED <<file, env, cfg, globs, taken, loopVars>>

\* One check after the other, their errors collected.
Validate ==
    /\ pc \in Checks
    /\ errs' = errs \cup Faults(pc)
    /\ pc' = After(pc)
    /\ UNCHANGED <<file, env, cfg, globs, taken, loopVars>>

Verdict ==
    /\ pc = "verdict"
    /\ pc' = IF errs = {} THEN "globs" ELSE "failed"
    /\ UNCHANGED <<loadVars, loopVars>>

-----------------------------------------------------------------------------
(* The globs *)

IsGlob(e) == e.glob # ""

\* Mutant: the globs are collected when they have been expanded.
KeepGlobs_Late ==
    /\ pc = "globs" /\ taken < Len(cfg.dbs)
    /\ taken' = taken + 1
    /\ UNCHANGED <<file, env, cfg, errs, globs, pc, loopVars>>

\* The watcher will need the globs, which the expansion replaces.
KeepGlobs ==
    /\ pc = "globs" /\ taken < Len(cfg.dbs)
    /\ globs' = IF IsGlob(cfg.dbs[taken + 1]) THEN Append(globs, cfg.dbs[taken + 1]) ELSE globs
    /\ taken' = taken + 1
    /\ UNCHANGED <<file, env, cfg, errs, pc, loopVars>>

\* An entry of the file, as the entries the loops meet for it.
Flattened(e) ==
    IF IsGlob(e) THEN Listed[e.glob] ELSE <<[alias |-> e.alias, path |-> e.path, glob |-> FALSE]>>

\* What a glob of the file may match.
Findable == UNION {{f.path : f \in ToSet(Listed[db.glob])} : db \in {e \in ToSet(cfg.dbs) : IsGlob(e)}}

\* expandGlobs is called, with what the disk holds.
ExpandBegin ==
    /\ pc = "globs" /\ taken = Len(cfg.dbs)
    /\ files' \in SUBSET Findable
    /\ taken' = 0
    /\ pc' = "expand"
    /\ UNCHANGED <<file, env, cfg, errs, globs, entries, next, seen, result>>

ExpandNext ==
    /\ pc = "expand" /\ taken < Len(cfg.dbs)
    /\ TakeUp(Flattened(cfg.dbs[taken + 1]))
    /\ taken' = taken + 1
    /\ UNCHANGED <<file, env, cfg, errs, globs, pc>>

Expanding ==
    /\ pc = "expand"
    /\ LoopNext
    /\ UNCHANGED <<loadVars, pc>>

\* expandGlobs returns: `result' is cfg.Databases from now on.
Return ==
    /\ pc = "expand" /\ taken = Len(cfg.dbs)
    /\ Done
    /\ pc' = "loaded"
    /\ UNCHANGED <<loadVars, loopVars>>

\* os.ReadFile, yaml.Unmarshal and expandGlobs may fail.
Fails ==
    /\ pc \in {"read", "parse", "expand"}
    /\ pc' = "failed"
    /\ UNCHANGED <<loadVars, loopVars>>

Next ==
    \/ Read \/ Parse \/ ApplyDefaults \/ Validate \/ Verdict
    \/ KeepGlobs \/ ExpandBegin \/ ExpandNext \/ Expanding \/ Return \/ Fails

Spec == Init /\ [][Next]_vars

-----------------------------------------------------------------------------
(* Properties *)

\* A key of the file that makes a key: it is long, or the value in it is.
KeyFits(t) ==
    \/ t \in KeyWord \cup {"longWithin"}
    \/ t \in Reference /\ env \in KeyWord

\* What the service is started with satisfies what its parts rely on.  No key is
\* short, and none is the trace of an unset variable from end to end, though a longer
\* key may have such a trace in it; entries have a path, and an alias but for a file
\* that has no name before its extension; globs have neither (config.go:229-292, and
\* NewPool, watcher.New).
LoadedIsSound ==
    pc = "loaded" =>
        /\ \A i \in DOMAIN file.keys : KeyFits(file.keys[i])
        /\ \A db \in result : db.path # "" /\ (db.alias = "" => db.path \in files)
        /\ \A i \in DOMAIN globs : globs[i].alias = "" /\ globs[i].path = ""
        /\ result # {} \/ globs # <<>>
        /\ cfg.tunnel \in {"none", "tsnet"}

\* The globs among the first n entries of the file, as they are expanded.
GlobsUpTo(n) == {i \in 1..n : Expand(file.dbs[i].glob) # ""}

\* Every glob of the file reaches the watcher, and nothing else does, in the order
\* of the file, although the expansion replaces them (config.go:123-137).
GlobsReachWatcher ==
    pc = "loaded" =>
        /\ Len(globs) = Cardinality(GlobsUpTo(Len(file.dbs)))
        /\ \A i \in GlobsUpTo(Len(file.dbs)) :
               globs[Cardinality(GlobsUpTo(i))].glob = Expand(file.dbs[i].glob)

\* A refused configuration is refused with all that is wrong with it, so that it
\* can be corrected at once (config.go:230 and 288-290).
AllReported ==
    pc = "failed" /\ errs # {} => errs = UNION {Faults(c) : c \in Checks}
=============================================================================
