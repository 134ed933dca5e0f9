-------------------------- MODULE GlobPathsProofs --------------------------
(***************************************************************************)
(* What MatchGlob's walk returns, for every set of files and patterns.     *)
(***************************************************************************)
EXTENDS GlobPaths, TLAPS

\* What is left of the walk, what it had to skip and what it has found.
WalkInv ==
    /\ pc = "start" => todo = {} /\ hidden = {} /\ matches = {}
    /\ pc = "done" => todo = {}
    /\ todo \cap hidden = {}
    /\ \A f \in todo : UnderBase(pattern, f)
    /\ pc # "start" /\ pattern.recursive =>
        matches = {f \in disk \ (todo \cup hidden) :
                      UnderBase(pattern, f) /\ ~InBase(pattern, f) /\ LeafMatches(pattern, f)}
    /\ pc = "walk" => pattern.recursive
    /\ pc = "done" /\ ~pattern.recursive =>
        matches = {f \in disk : InBase(pattern, f) /\ f.ext = pattern.ext}

IInv == TypeOK /\ WalkInv

\* The names of a path in lower case are as many names.
LEMMA LowerDirIsSeq ==
    ASSUME NEW s \in Seq(Name)
    PROVE  LowerDir(s) \in Seq({LowerName(n) : n \in Name}) /\ Len(LowerDir(s)) = Len(s)
<1> DEFINE Lowered == {LowerName(n) : n \in Name}
<1>1. Len(s) \in Nat /\ DOMAIN s = 1..Len(s) /\ \A i \in 1..Len(s) : s[i] \in Name
  OBVIOUS
<1>2. LowerDir(s) = [i \in 1..Len(s) |-> LowerName(s[i])]
  BY <1>1 DEF LowerDir
<1>3. \A i \in 1..Len(s) : LowerName(s[i]) \in Lowered
  BY <1>1
<1> HIDE DEF Lowered
<1>4. [i \in 1..Len(s) |-> LowerName(s[i])] \in Seq(Lowered)
  BY <1>1, <1>3
<1>5. Len([i \in 1..Len(s) |-> LowerName(s[i])]) = Len(s)
  BY <1>1
<1> QED BY <1>2, <1>4, <1>5 DEF Lowered

\* A file is under the base but not in it if it is deeper, and the directories
\* it shares with the base have the same names.
LEMMA Below ==
    ASSUME NEW p \in Pattern, NEW f \in File
    PROVE  UnderBase(p, f) /\ ~InBase(p, f) <=>
             /\ Len(f.dir) > Len(p.base)
             /\ LowerDir(SubSeq(f.dir, 1, Len(p.base))) = LowerDir(p.base)
<1> DEFINE b == p.base
           d == f.dir
<1>1. b \in Seq(Name) /\ d \in Seq(Name)
  BY PathsAssumption
<1>2. /\ LowerDir(b) \in Seq({LowerName(n) : n \in Name}) /\ Len(LowerDir(b)) = Len(b)
      /\ LowerDir(d) \in Seq({LowerName(n) : n \in Name}) /\ Len(LowerDir(d)) = Len(d)
  BY <1>1, LowerDirIsSeq
<1>3. UnderBase(p, f) <=>
        Len(b) <= Len(d) /\ \A i \in 1..Len(b) : LowerName(b[i]) = LowerName(d[i])
  <2>1. UnderBase(p, f) <=> /\ Len(b) <= Len(d)
                            /\ LowerDir(b) = SubSeq(LowerDir(d), 1, Len(b))
    BY <1>1, <1>2 DEF UnderBase, IsPrefix
  <2>2. ASSUME Len(b) <= Len(d)
        PROVE  /\ SubSeq(LowerDir(d), 1, Len(b)) = [i \in 1..Len(b) |-> LowerName(d[i])]
               /\ LowerDir(b) = [i \in 1..Len(b) |-> LowerName(b[i])]
    BY <1>1, <1>2, <2>2 DEF LowerDir
  <2> QED BY <2>1, <2>2
<1>4. ASSUME Len(b) <= Len(d)
      PROVE  LowerDir(SubSeq(d, 1, Len(b))) = LowerDir(b) <=>
                \A i \in 1..Len(b) : LowerName(b[i]) = LowerName(d[i])
  <2>1. LowerDir(SubSeq(d, 1, Len(b))) = [i \in 1..Len(b) |-> LowerName(d[i])]
    BY <1>1, <1>4 DEF LowerDir
  <2>2. LowerDir(b) = [i \in 1..Len(b) |-> LowerName(b[i])]
    BY <1>1 DEF LowerDir
  <2> QED BY <2>1, <2>2
<1>5. InBase(p, f) <=>
        Len(b) = Len(d) /\ \A i \in 1..Len(b) : LowerName(b[i]) = LowerName(d[i])
  <2>1. LowerDir(b) = [i \in 1..Len(b) |-> LowerName(b[i])]
        /\ LowerDir(d) = [i \in 1..Len(d) |-> LowerName(d[i])]
    BY <1>1 DEF LowerDir
  <2> QED BY <1>1, <1>2, <2>1 DEF InBase
<1> QED BY <1>1, <1>3, <1>4, <1>5

\* The invariant is inductive.
LEMMA WalkInductive == Spec => []IInv
<1>1. Init => IInv
  BY DEF Init, IInv, TypeOK, WalkInv
<1>2. IInv /\ [Next]_vars => IInv'
  <2> SUFFICES ASSUME IInv, [Next]_vars PROVE IInv'
    OBVIOUS
  <2> USE DEF IInv, TypeOK, WalkInv, UnderBase, InBase, LeafMatches
  <2>1. CASE MatchHere
    BY <2>1 DEF MatchHere
  <2>2. CASE WalkBegin
    BY <2>2 DEF WalkBegin
  <2>3. CASE Visit
    <3>1. PICK f \in todo :
            /\ todo' = todo \ {f}
            /\ matches' = IF ~InBase(pattern, f) /\ LeafMatches(pattern, f)
                          THEN matches \cup {f} ELSE matches
      BY <2>3 DEF Visit
    <3>2. pc = "walk" /\ UNCHANGED <<pattern, disk, hidden, pc>>
      BY <2>3 DEF Visit
    <3> DEFINE Wanted(g) == UnderBase(pattern, g) /\ ~InBase(pattern, g) /\ LeafMatches(pattern, g)
    <3>3. matches = {g \in disk \ (todo \cup hidden) : Wanted(g)}
      BY <3>2
    <3>4. f \in disk \ hidden /\ (Wanted(f) <=> ~InBase(pattern, f) /\ LeafMatches(pattern, f))
      OBVIOUS
    <3>5. matches' = {g \in disk \ (todo' \cup hidden) : Wanted(g)}
      <4> HIDE DEF Wanted
      <4> QED BY <3>1, <3>3, <3>4
    <3> QED BY <3>1, <3>2, <3>5
  <2>4. CASE Unreadable
    BY <2>4 DEF Unreadable
  <2>5. CASE WalkEnd
    BY <2>5 DEF WalkEnd
  <2>6. CASE UNCHANGED vars
    BY <2>6 DEF vars
  <2> QED BY <2>1, <2>2, <2>3, <2>4, <2>5, <2>6 DEF Next
<1> QED BY <1>1, <1>2, PTL DEF Spec

\* A walk finds exactly the files of subdirectories that have the extension, but
\* for those in directories that cannot be read (glob.go:99 and 106-127).
THEOREM WalkCorrect == Spec => [](TypeOK /\ WalkExact)
<1>1. IInv => TypeOK /\ WalkExact
  <2> SUFFICES ASSUME IInv, pc = "done", pattern.recursive
               PROVE  matches = {f \in disk \ hidden :
                          /\ Len(f.dir) > Len(pattern.base)
                          /\ LowerDir(SubSeq(f.dir, 1, Len(pattern.base))) = LowerDir(pattern.base)
                          /\ LowerExt[f.ext] = LowerExt[pattern.ext]}
    BY DEF IInv, WalkExact
  <2>1. matches = {f \in disk \ hidden :
            UnderBase(pattern, f) /\ ~InBase(pattern, f) /\ LeafMatches(pattern, f)}
    BY DEF IInv, WalkInv
  <2>2. pattern \in Pattern /\ disk \subseteq File
    BY DEF IInv, TypeOK
  <2> QED BY <2>1, <2>2, Below DEF LeafMatches
<1> QED BY <1>1, WalkInductive, PTL

\* The part of a path below a base, in lower case, is a part of the path in lower
\* case.
LEMMA LowerDirBelow ==
    ASSUME NEW d \in Seq(Name), NEW k \in Nat
    PROVE  LowerDir(SubSeq(d, k + 1, Len(d))) = [i \in 1..(Len(d) - k) |-> LowerDir(d)[i + k]]
<1>1. /\ Len(d) \in Nat /\ DOMAIN d = 1..Len(d)
      /\ SubSeq(d, k + 1, Len(d)) = [i \in 1..(Len(d) - k) |-> d[i + k]]
  OBVIOUS
<1>2. \A i \in 1..(Len(d) - k) : i + k \in 1..Len(d)
  BY <1>1
<1>3. \A i \in 1..Len(d) : LowerDir(d)[i] = LowerName(d[i])
  BY <1>1 DEF LowerDir
<1>4. LowerDir([i \in 1..(Len(d) - k) |-> d[i + k]]) = [i \in 1..(Len(d) - k) |-> LowerName(d[i + k])]
  BY DEF LowerDir
<1> QED BY <1>1, <1>2, <1>3, <1>4

\* One file has one alias, in whatever case its path comes.
LEMMA SameAlias ==
    ASSUME NEW p \in Pattern, NEW f \in File, NEW g \in File, SameFile(f, g)
    PROVE  AliasOf(p, g) = AliasOf(p, f)
<1> DEFINE k == Len(p.base)
<1>1. f.dir \in Seq(Name) /\ g.dir \in Seq(Name) /\ k \in Nat
  BY PathsAssumption
<1>2. LowerDir(f.dir) = LowerDir(g.dir) /\ Len(f.dir) = Len(g.dir)
  BY <1>1, LowerDirIsSeq DEF SameFile
<1> HIDE DEF k
<1>3. LowerDir(SubSeq(f.dir, k + 1, Len(f.dir))) = LowerDir(SubSeq(g.dir, k + 1, Len(g.dir)))
  <2> DEFINE Rest(s, n) == [i \in 1..(n - k) |-> s[i + k]]
  <2>1. LowerDir(SubSeq(f.dir, k + 1, Len(f.dir))) = Rest(LowerDir(f.dir), Len(f.dir))
    BY <1>1, LowerDirBelow
  <2>2. LowerDir(SubSeq(g.dir, k + 1, Len(g.dir))) = Rest(LowerDir(g.dir), Len(g.dir))
    BY <1>1, LowerDirBelow
  <2> HIDE DEF Rest
  <2> QED BY <1>2, <2>1, <2>2
<1>4. LowerName(f.stem) = LowerName(g.stem)
  BY DEF SameFile
<1> QED BY <1>3, <1>4 DEF AliasOf, k

\* tryRegister recognises whatever a poll lists, and a notification of the same
\* file in another case as well, under the same alias, unless a recursive glob
\* begins at the root of a volume (glob.go:133-162 and 193-220, watcher.go:209-239).
THEOREM RecognisedAlike ==
    ASSUME \A p \in Pattern : p.recursive => p.base # <<>>
    PROVE  Spec => [](NotifiedAlike /\ PolledIsRecognised)
<1>1. IInv => PolledIsRecognised
  <2> SUFFICES ASSUME IInv, pc = "done", NEW f \in matches
               PROVE  PathMatchesGlob(pattern, f)
    BY DEF PolledIsRecognised
  <2>1. CASE pattern.recursive
    BY <2>1 DEF IInv, TypeOK, WalkInv, PathMatchesGlob
  <2>2. CASE ~pattern.recursive
    BY <2>2 DEF IInv, WalkInv, PathMatchesGlob, LeafMatches
  <2> QED BY <2>1, <2>2
<1>2. IInv /\ PolledIsRecognised => NotifiedAlike
  <2> SUFFICES ASSUME IInv, PolledIsRecognised, pc = "done",
                      NEW f \in matches, NEW g \in File, SameFile(f, g)
               PROVE  PathMatchesGlob(pattern, g) /\ AliasOf(pattern, g) = AliasOf(pattern, f)
    BY DEF NotifiedAlike
  <2>1. PathMatchesGlob(pattern, f) /\ f \in File /\ pattern \in Pattern
    BY DEF IInv, TypeOK, PolledIsRecognised
  <2>2. PathMatchesGlob(pattern, g)
    BY <2>1 DEF SameFile, PathMatchesGlob, InBase, UnderBase, LeafMatches
  <2> QED BY <2>1, <2>2, SameAlias
<1> QED BY <1>1, <1>2, WalkInductive, PTL
=============================================================================
