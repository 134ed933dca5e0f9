----------------------------- MODULE GlobPaths -----------------------------
(***************************************************************************)
(* Which files a glob stands for (internal/config/glob.go).  The question  *)
(* is answered twice: MatchGlob lists the disk, at start and at every      *)
(* poll, and PathMatchesGlob looks at the path of a notification.          *)
(* AliasFromPath names what either of them finds.                          *)
(*                                                                         *)
(* A directory is the sequence of names below the root of its volume, a    *)
(* name the sequence of its words: AliasFromPath puts an underscore for    *)
(* everything that separates words, and for the separators of the path.    *)
(* A pattern is base\*.ext or base\**\*.ext; wildcards within the          *)
(* directories are left out.  The disk ignores case but keeps it.          *)
(***************************************************************************)
EXTENDS Sequences, SequencesExt, Naturals

CONSTANTS
    Name,       \* names of directories, and of files without extension
    Ext,        \* extensions
    LowerWord,  \* strings.ToLower of a word
    LowerExt,   \* strings.ToLower of an extension
    File,       \* [dir, stem, ext]: the files there may be
    Pattern     \* [base, recursive, ext]

LowerName(n) == [i \in DOMAIN n |-> LowerWord[n[i]]]
LowerDir(d) == [i \in DOMAIN d |-> LowerName(d[i])]

\* For the disk these are one file.
SameFile(f, g) ==
    /\ LowerDir(f.dir) = LowerDir(g.dir)
    /\ LowerName(f.stem) = LowerName(g.stem)
    /\ LowerExt[f.ext] = LowerExt[g.ext]

ASSUME PathsAssumption ==
    /\ File \subseteq [dir : Seq(Name), stem : Name, ext : Ext]
    /\ Pattern \subseteq [base : Seq(Name), recursive : BOOLEAN, ext : Ext]

VARIABLES
    pattern,
    disk,       \* the files there are
    todo,       \* those WalkDir has yet to come to
    hidden,     \* those in directories that cannot be read
    matches,    \* what MatchGlob will return
    pc

vars == <<pattern, disk, todo, hidden, matches, pc>>

TypeOK ==
    /\ pattern \in Pattern
    /\ disk \in SUBSET File
    /\ todo \in SUBSET disk
    /\ hidden \in SUBSET disk
    /\ matches \in SUBSET disk
    /\ pc \in {"start", "walk", "done"}

Init ==
    /\ pattern \in Pattern
    /\ disk \in SUBSET File
    /\ \A f, g \in disk : SameFile(f, g) => f = g
    /\ todo = {} /\ hidden = {} /\ matches = {}
    /\ pc = "start"

-----------------------------------------------------------------------------
(* The two matchers *)

\* The walk and the test of a path compare directories with EqualFold.
InBase(p, f) == LowerDir(f.dir) = LowerDir(p.base)
UnderBase(p, f) == IsPrefix(LowerDir(p.base), LowerDir(f.dir))
LeafMatches(p, f) == LowerExt[f.ext] = LowerExt[p.ext]

\* Mutant: the case of the directory counts.
PathMatchesGlob_ExactCase(p, f) ==
    IF p.recursive
    THEN ~InBase(p, f) /\ p.base # <<>> /\ IsPrefix(p.base, f.dir) /\ LeafMatches(p, f)
    ELSE InBase(p, f) /\ LeafMatches(p, f)

\* A base that is the root of a volume ends in a separator already: no path
\* begins with it and another one.
PathMatchesGlob(p, f) ==
    IF p.recursive
    THEN ~InBase(p, f) /\ p.base # <<>> /\ UnderBase(p, f) /\ LeafMatches(p, f)
    ELSE InBase(p, f) /\ LeafMatches(p, f)

\* Without ** filepath.Glob lists the base, and compares the extension as it is.
MatchHere ==
    /\ pc = "start" /\ ~pattern.recursive
    /\ matches' = {f \in disk : InBase(pattern, f) /\ f.ext = pattern.ext}
    /\ pc' = "done"
    /\ UNCHANGED <<pattern, disk, todo, hidden>>

\* With ** the base is walked.
WalkBegin ==
    /\ pc = "start" /\ pattern.recursive
    /\ todo' = {f \in disk : UnderBase(pattern, f)}
    /\ pc' = "walk"
    /\ UNCHANGED <<pattern, disk, hidden, matches>>

\* Mutant: the files in the base match as well.
Visit_Base ==
    /\ pc = "walk"
    /\ \E f \in todo :
        /\ todo' = todo \ {f}
        /\ matches' = IF LeafMatches(pattern, f) THEN matches \cup {f} ELSE matches
    /\ UNCHANGED <<pattern, disk, hidden, pc>>

Visit ==
    /\ pc = "walk"
    /\ \E f \in todo :
        /\ todo' = todo \ {f}
        /\ matches' = IF ~InBase(pattern, f) /\ LeafMatches(pattern, f)
                      THEN matches \cup {f} ELSE matches
    /\ UNCHANGED <<pattern, disk, hidden, pc>>

\* A directory that cannot be read is skipped silently, with all below it.
Unreadable ==
    /\ pc = "walk"
    /\ \E f \in todo : LET below == {g \in todo : IsPrefix(f.dir, g.dir)} IN
        /\ todo' = todo \ below
        /\ hidden' = hidden \cup below
    /\ UNCHANGED <<pattern, disk, matches, pc>>

WalkEnd ==
    /\ pc = "walk" /\ todo = {}
    /\ pc' = "done"
    /\ UNCHANGED <<pattern, disk, todo, hidden, matches>>

Next == MatchHere \/ WalkBegin \/ Visit \/ Unreadable \/ WalkEnd

Spec == Init /\ [][Next]_vars

-----------------------------------------------------------------------------
(* The name *)

\* Mutant: the alias keeps the case of the path.
AliasOf_KeepsCase(p, f) ==
    FlattenSeq(SubSeq(f.dir, Len(p.base) + 1, Len(f.dir))) \o f.stem

\* AliasFromPath: the path relative to the base, without its extension.
AliasOf(p, f) ==
    FlattenSeq(LowerDir(SubSeq(f.dir, Len(p.base) + 1, Len(f.dir)))) \o LowerName(f.stem)

-----------------------------------------------------------------------------
(* Properties *)

\* A walk finds exactly the files of subdirectories that have the extension,
\* but for those in directories that cannot be read (glob.go:99 and 106-127).
WalkExact ==
    pc = "done" /\ pattern.recursive =>
        matches = {f \in disk \ hidden :
                      /\ Len(f.dir) > Len(pattern.base)
                      /\ LowerDir(SubSeq(f.dir, 1, Len(pattern.base))) = LowerDir(pattern.base)
                      /\ LowerExt[f.ext] = LowerExt[pattern.ext]}

\* tryRegister recognises whatever a poll lists, and a notification of the same
\* file, in whatever case it comes, gets the same alias: the two goroutines of the
\* watcher agree on what they register (watcher.go:210 and 222-239).
NotifiedAlike ==
    pc = "done" => \A f \in matches, g \in File : SameFile(f, g) =>
        /\ PathMatchesGlob(pattern, g)
        /\ AliasOf(pattern, g) = AliasOf(pattern, f)

\* glob.go:133, watcher.go:209-223: tryRegister recognises what a poll lists, whatever the
\* base: a path under it, but not in it, whose last element matches.
PolledIsRecognised == pc = "done" => \A f \in matches : PathMatchesGlob(pattern, f)
=============================================================================
