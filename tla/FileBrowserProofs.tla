------------------------- MODULE FileBrowserProofs -------------------------
(***************************************************************************)
(* What holds of the file browser for every tree, every limit and depth    *)
(* of a search, and whatever its owner does meanwhile.                     *)
(*                                                                         *)
(* A search is a walk, and FindsWhatStays speaks of its end.  The          *)
(* invariant says what a place that it has not found yet still waits for:  *)
(* some directory above it is on the walk's list, at a depth from which    *)
(* the place can be reached.                                               *)
(***************************************************************************)
EXTENDS FileBrowser, FiniteSetTheorems, TLAPS

\* What FindsWhatStays promises to find.
Wanted(p) ==
    /\ p \in matching \cap steady
    /\ Searched(p) /\ Reaches(p) /\ Within(Canonical(p), Root)

\* How far a place lies below one above it.
Below(p, d) == Cardinality(Upward[p] \ Upward[d])

\* The walk has yet to read a directory on the way to the place.
Awaited(p) == \E d \in Upward[p] \ {p}, n \in 0..MaxDepth :
    <<d, n>> \in todo /\ n + Below(p, d) <= MaxDepth

WalkInv == pc = "walk" =>
    /\ results = {}
    /\ Cardinality(found) < Limit =>
         \A p \in Places : Wanted(p) => p \in found \/ Awaited(p)

ExamineInv == pc = "examine" =>
    /\ Cardinality(results) + Cardinality(found) <= Limit
    /\ ~full => \A p \in Places : Wanted(p) => p \in found \/ Canonical(p) \in results

ListInv == pc \in {"list", "page"} /\ ~full =>
    \A p \in Places : Wanted(p) => Canonical(p) \in results

\* A result is canonical and in the sharing root, until somebody touches it.
Offered(r) == Canonical(r) = r /\ Exists(r) /\ Within(r, Root)

OfferInv == \A r \in results \cap steady : Offered(r)

SearchInv == WalkInv /\ ExamineInv /\ ListInv

Inductive == TypeOK /\ SearchInv /\ OfferInv /\ OfferedCanBeShared

-----------------------------------------------------------------------------
(* The tree.                                                               *)

\* What lies above a place: the place, the parents of what lies above it,
\* and nothing else.
LEMMA UpwardClosed ==
    ASSUME NEW p \in Places
    PROVE  /\ Upward[p] \subseteq Places /\ IsFiniteSet(Upward[p])
           /\ p \in Upward[p]
           /\ \A r \in Upward[p] : Parent[r] \in Upward[p]
<1>1. Upward[p] = {q \in Places : \A S \in SUBSET Places :
                      p \in S /\ (\A r \in S : Parent[r] \in S) => q \in S}
  BY DEF Upward
<1>2. \A r \in Places : Parent[r] \in Places
  BY TreeAssumption
<1>3. Upward[p] \subseteq Places /\ p \in Upward[p]
  BY <1>1
<1>4. \A r \in Upward[p] : Parent[r] \in Upward[p]
  BY <1>1, <1>2
<1>5. IsFiniteSet(Upward[p])
  BY <1>3, FS_Subset, PlacesAssumption
<1> QED
  BY <1>3, <1>4, <1>5

\* The least such set.
LEMMA UpwardLeast ==
    ASSUME NEW p \in Places, NEW S \in SUBSET Places,
           p \in S, \A r \in S : Parent[r] \in S
    PROVE  Upward[p] \subseteq S
BY DEF Upward

\* Above what is above.
LEMMA UpwardTransitive ==
    ASSUME NEW p \in Places, NEW q \in Upward[p]
    PROVE  Upward[q] \subseteq Upward[p]
<1>1. Upward[p] \in SUBSET Places /\ q \in Places
  BY UpwardClosed
<1>2. \A r \in Upward[p] : Parent[r] \in Upward[p]
  BY UpwardClosed
<1> QED
  BY <1>1, <1>2, UpwardLeast

\* One step up.
LEMMA UpwardStep ==
    ASSUME NEW c \in Places, NEW d \in Places, Parent[c] = d, c # d
    PROVE  Upward[c] = Upward[d] \cup {c} /\ c \notin Upward[d]
<1> DEFINE S == Upward[d] \cup {c}
<1>1. S \in SUBSET Places /\ c \in S
  BY UpwardClosed
<1>2. d \in Upward[d] /\ \A r \in Upward[d] : Parent[r] \in Upward[d]
  BY UpwardClosed
<1>3. \A r \in S : Parent[r] \in S
  BY <1>2
<1>4. Upward[c] \subseteq S
  BY <1>1, <1>3, UpwardLeast
<1>5. c \in Upward[c] /\ d \in Upward[c]
  BY UpwardClosed
<1>6. Upward[d] \subseteq Upward[c]
  BY <1>5, UpwardTransitive
<1>7. c \notin Upward[d]
  BY TreeAssumption
<1> QED
  BY <1>4, <1>5, <1>6, <1>7

\* The way down from a place to one below it begins with a child.
LEMMA WayDown ==
    ASSUME NEW p \in Places, NEW d \in Upward[p], d # p
    PROVE  \E c \in Upward[p] : c # d /\ Parent[c] = d
<1> SUFFICES ASSUME \A c \in Upward[p] : c # d => Parent[c] # d
             PROVE  FALSE
  OBVIOUS
<1> DEFINE S == Upward[p] \ {d}
<1>1. S \in SUBSET Places /\ p \in S
  BY UpwardClosed
<1>2. \A r \in S : Parent[r] \in S
  BY UpwardClosed
<1>3. Upward[p] \subseteq S
  BY <1>1, <1>2, UpwardLeast
<1> QED
  BY <1>3

\* A step down is one step nearer.
LEMMA Nearer ==
    ASSUME NEW p \in Places, NEW d \in Upward[p], NEW c \in Upward[p],
           c # d, Parent[c] = d
    PROVE  /\ Below(p, c) \in Nat /\ Below(p, d) \in Nat
           /\ Below(p, d) = Below(p, c) + 1
<1>1. c \in Places /\ d \in Places /\ IsFiniteSet(Upward[p])
  BY UpwardClosed
<1>2. Upward[c] = Upward[d] \cup {c} /\ c \notin Upward[d]
  BY <1>1, UpwardStep
<1> DEFINE D == Upward[p] \ Upward[d]
           C == Upward[p] \ Upward[c]
<1>3. C = D \ {c} /\ c \in D
  BY <1>2
<1>4. IsFiniteSet(C) /\ IsFiniteSet(D)
  BY <1>1, FS_Subset
<1>5. Cardinality(C) \in Nat /\ Cardinality(D) \in Nat
  BY <1>4, FS_CardinalityType
<1>6. Cardinality(C) = Cardinality(D) - 1
  BY <1>3, <1>4, FS_RemoveElement
<1>7. Cardinality(D) = Cardinality(C) + 1
  <2> HIDE DEF C, D
  <2> QED
    BY <1>5, <1>6
<1> QED
  BY <1>5, <1>7 DEF Below

\* Everything above what exists is a directory.
LEMMA DirectoriesAbove ==
    ASSUME TypeOK, NEW p \in Places, Exists(p), NEW q \in Upward[p], q # p
    PROVE  disk[q] = "dir"
<1> DEFINE S == {r \in Places : r = p \/ disk[r] = "dir"}
<1>1. \A r \in Places : disk[r] # "gone" => r = Parent[r] \/ disk[Parent[r]] = "dir"
  BY DEF TypeOK, Consistent
<1>2. \A r \in S : disk[r] # "gone"
  BY DEF Exists
<1>3. \A r \in Places : Parent[r] \in Places
  BY TreeAssumption
<1>4. \A r \in S : Parent[r] \in S
  BY <1>1, <1>2, <1>3
<1>5. Upward[p] \subseteq S
  BY <1>4, UpwardLeast
<1> QED
  BY <1>5

\* What canonicalize returns, and what that is: no link.
LEMMA CanonicalType ==
    ASSUME TypeOK, NEW p \in Places
    PROVE  /\ Canonical(p) \in Places /\ Canonical(Canonical(p)) = Canonical(p)
           /\ Reaches(p) => Exists(p)
<1>1. disk[p] \in Places => disk[disk[p]] \notin Places
  BY DEF TypeOK, Consistent
<1>2. disk[p] = "gone" => disk[p] \notin Places
  BY PlacesAssumption
<1> QED
  BY <1>1, <1>2 DEF Canonical, Reaches, Exists

\* A directory is its own canonical path.
LEMMA RealDirectory ==
    ASSUME NEW d \in Places, disk[d] = "dir"
    PROVE  Canonical(d) = d /\ IsDir(d)
<1>1. disk[d] \notin Places
  BY PlacesAssumption
<1> QED
  BY <1>1 DEF Canonical, IsDir

-----------------------------------------------------------------------------
(* Type correctness: every action but Examine, whose results stay below    *)
(* the limit because each of them has been a match.                        *)

\* A set of matches of a directory fits below the limit; when it is not all
\* there is, the limit is reached.
LEMMA FittingSize ==
    ASSUME TypeOK, NEW T \in SUBSET Places, T \cap found = {}, NEW some \in Fitting(T)
    PROVE  /\ some \subseteq T
           /\ Cardinality(found \cup some) <= Limit
           /\ Cardinality(found \cup some) < Limit => some = T
<1> DEFINE room == Limit - Cardinality(found)
           n == Cardinality(T)
           k == IF n <= room THEN n ELSE room
<1>1. found \subseteq Places /\ Cardinality(found) <= Limit /\ Limit \in Nat
  BY SearchAssumption DEF TypeOK
<1>2. some \in SUBSET T /\ Cardinality(some) = k
  BY DEF Fitting, kSubset
<1>3. IsFiniteSet(T) /\ IsFiniteSet(some) /\ IsFiniteSet(found)
  BY <1>1, <1>2, FS_Subset, PlacesAssumption
<1>4. n \in Nat /\ Cardinality(some) \in Nat /\ Cardinality(found) \in Nat
  BY <1>3, FS_CardinalityType
<1>5. found \cap some = {}
  BY <1>2
<1>6. Cardinality({}) = 0
  BY FS_EmptySet
<1>7. Cardinality(found \cup some) = Cardinality(found) + Cardinality(some)
      - Cardinality(found \cap some)
  BY <1>3, FS_Union
<1>8. Cardinality(found \cup some) = Cardinality(found) + Cardinality(some)
  BY <1>4, <1>5, <1>6, <1>7
<1>9. Cardinality(some) = n => some = T
  BY <1>2, <1>3, FS_Subset
<1> DEFINE f == Cardinality(found)
           s == Cardinality(some)
           u == Cardinality(found \cup some)
<1>10. /\ f \in Nat /\ s \in Nat /\ n \in Nat /\ Limit \in Nat /\ f <= Limit
       /\ s = (IF n <= Limit - f THEN n ELSE Limit - f) /\ u = f + s
  BY <1>1, <1>2, <1>4, <1>8
<1>11. u <= Limit /\ (u < Limit => s = n)
  <2> HIDE DEF f, s, u, n
  <2> QED
    BY <1>10
<1> QED
  BY <1>2, <1>9, <1>11

\* Moving a match to the results keeps both below the limit together.
LEMMA ExamineSize ==
    ASSUME NEW F \in SUBSET Places, NEW R \in SUBSET Places, NEW p \in F,
           NEW x \in SUBSET Places, x = {} \/ (\E y : x = {y}),
           Cardinality(R) + Cardinality(F) <= Limit
    PROVE  /\ Cardinality(R \cup x) + Cardinality(F \ {p}) <= Limit
           /\ Cardinality(R \cup x) <= Limit /\ Cardinality(F \ {p}) <= Limit
<1>1. IsFiniteSet(F) /\ IsFiniteSet(R) /\ IsFiniteSet(x) /\ IsFiniteSet(F \ {p})
      /\ IsFiniteSet(R \cup x) /\ IsFiniteSet(R \cap x)
  BY FS_Subset, PlacesAssumption
<1>2. Cardinality(F \ {p}) = Cardinality(F) - 1
  BY <1>1, FS_RemoveElement
<1>3. Cardinality(x) = 0 \/ Cardinality(x) = 1
  BY FS_EmptySet, FS_Singleton
<1>4. Cardinality(R \cup x) = Cardinality(R) + Cardinality(x) - Cardinality(R \cap x)
  BY <1>1, FS_Union
<1> DEFINE f == Cardinality(F)
           r == Cardinality(R)
           g == Cardinality(F \ {p})
           u == Cardinality(R \cup x)
           i == Cardinality(R \cap x)
           z == Cardinality(x)
<1>5. f \in Nat /\ r \in Nat /\ g \in Nat /\ u \in Nat /\ i \in Nat /\ Limit \in Nat
  BY <1>1, FS_CardinalityType, SearchAssumption
<1>6. g = f - 1 /\ (z = 0 \/ z = 1) /\ u = r + z - i /\ r + f <= Limit
  BY <1>2, <1>3, <1>4
<1>7. u + g <= Limit /\ u <= Limit /\ g <= Limit
  <2> HIDE DEF f, r, g, u, i, z
  <2> QED
    BY <1>5, <1>6
<1> QED
  BY <1>7

\* What a directory's entries are.
LEMMA TakenType ==
    ASSUME TypeOK, NEW d \in Places, NEW some \in Taken(d)
    PROVE  /\ some \subseteq Children(d) \cap matching
           /\ Cardinality(found \cup some) <= Limit
           /\ Cardinality(found \cup some) < Limit =>
                Children(d) \cap matching \subseteq found \cup some
<1> DEFINE T == (Children(d) \cap matching) \ found
<1>1. T \in SUBSET Places /\ T \cap found = {}
  BY DEF Children
<1>2. some \in Fitting(T)
  BY DEF Taken
<1> HIDE DEF T
<1>3. /\ some \subseteq T
      /\ Cardinality(found \cup some) <= Limit
      /\ Cardinality(found \cup some) < Limit => some = T
  BY <1>1, <1>2, FittingSize
<1> QED
  BY <1>3 DEF T

\* What a request's first look at its path leaves.
LEMMA ResolvedType ==
    ASSUME TypeOK, NEW p \in Places, ResolvePath(p)
    PROVE  path' \in Places /\ path' = Canonical(p)
BY CanonicalType DEF ResolvePath

\* The owner's changes keep the tree a tree.
LEMMA ChangeType ==
    ASSUME TypeOK, NEW x \in Places, NEW what \in Contents, Change(x, what)
    PROVE  TypeOK'
<1>1. /\ UNCHANGED <<pc, path, matching, todo, found, full, results, entries>>
      /\ Consistent(disk') /\ changes < MaxChanges /\ changes' = changes + 1
  BY DEF Change, searchVars, pageVars
<1>2. disk' \in [Places -> Contents]
  <2>1. disk \in [Places -> Contents] /\ "gone" \in Contents
    BY DEF TypeOK, Contents
  <2>2. disk' = [q \in Places |-> IF q = x THEN what
                                  ELSE IF Within(q, x) THEN "gone" ELSE disk[q]]
    BY DEF Change
  <2> QED
    BY <2>1, <2>2
<1>3. steady' \subseteq Places
  BY DEF Change, TypeOK
<1>4. changes' \in 0..MaxChanges
  BY <1>1, OtherAssumption DEF TypeOK
<1> QED
  BY <1>1, <1>2, <1>3, <1>4 DEF TypeOK, Consistent

\* Every step keeps the types.
LEMMA TypeStep ==
    ASSUME TypeOK, ExamineInv, [Next]_vars
    PROVE  TypeOK'
<1> USE DEF Answers
<1>1. ASSUME NEW p \in Places, Share(p) PROVE TypeOK'
  <2>1. path' \in Places
    BY <1>1, ResolvedType DEF Share
  <2> QED
    BY <1>1, <2>1 DEF Share, TypeOK, Consistent, searchVars, pageVars
<1>2. ASSUME NEW p \in Places, Refuse(p) PROVE TypeOK'
  BY <1>2 DEF Refuse, TypeOK, Consistent, searchVars, pageVars
<1>3. ASSUME NEW p \in Places, NEW q \in Searches, Browse(p, q) PROVE TypeOK'
  <2>1. path' \in Places
    BY <1>3, ResolvedType DEF Browse
  <2>2. /\ disk' = disk /\ changes' = changes
        /\ pc' \in {"list", "walk"}
        /\ matching' = q /\ steady' = Places
        /\ full' = FALSE /\ results' = {} /\ entries' = {}
    BY <1>3 DEF Browse
  <2>3. q \subseteq Places /\ Limit \in Nat \ {0} /\ MaxDepth \in Nat
    BY SearchAssumption
  <2>4. todo' \subseteq Places \X (0..MaxDepth)
    BY <1>3, <2>1, <2>3 DEF Browse
  <2>5. found' \subseteq Places /\ (found' = {} \/ found' = {path'})
    BY <1>3, <2>1 DEF Browse
  <2>6. Cardinality(found') <= Limit /\ Cardinality(results') <= Limit
    <3>1. Cardinality(found') = 0 \/ Cardinality(found') = 1
      BY <2>5, FS_EmptySet, FS_Singleton
    <3>2. Cardinality(results') = 0
      BY <2>2, FS_EmptySet
    <3> QED
      BY <2>3, <3>1, <3>2
  <2> QED
    BY <2>1, <2>2, <2>3, <2>4, <2>5, <2>6 DEF TypeOK, Consistent
<1>4. ASSUME NEW d \in Places, NEW n \in 0..MaxDepth, ReadDir(d, n) PROVE TypeOK'
  <2>1. UNCHANGED <<disk, pc, path, matching, full, results, entries, steady, changes>>
    BY <1>4 DEF ReadDir, pageVars
  <2>2. Canonical(d) \in Places
    BY CanonicalType
  <2>3. PICK some \in Taken(Canonical(d)) : found' = found \cup some
    BY <1>4 DEF ReadDir
  <2>4. some \subseteq Children(Canonical(d)) \cap matching
        /\ Cardinality(found \cup some) <= Limit
    BY <2>2, TakenType
  <2>5. found' \subseteq Places /\ Cardinality(found') <= Limit
    BY <2>3, <2>4 DEF TypeOK, Children
  <2>6. todo' \subseteq Places \X (0..MaxDepth)
    <3>1. n + 1 \in 0..MaxDepth
      BY <1>4, SearchAssumption DEF ReadDir
    <3>2. todo' = (todo \ {<<d, n>>}) \cup
             {<<c, n + 1>> : c \in {b \in Children(Canonical(d)) : disk[b] = "dir"}}
      BY <1>4 DEF ReadDir
    <3>3. Children(Canonical(d)) \subseteq Places
      BY DEF Children
    <3> QED
      BY <3>1, <3>2, <3>3 DEF TypeOK
  <2> QED
    BY <2>1, <2>5, <2>6 DEF TypeOK, Consistent
<1>5. ASSUME NEW d \in Places, NEW n \in 0..MaxDepth, SkipDir(d, n) PROVE TypeOK'
  BY <1>5 DEF SkipDir, TypeOK, Consistent, pageVars
<1>6. ASSUME EndWalk PROVE TypeOK'
  BY <1>6 DEF EndWalk, TypeOK, Consistent, pageVars
<1>7. ASSUME NEW p \in Places, Examine(p) PROVE TypeOK'
  <2>1. UNCHANGED <<disk, pc, path, matching, todo, full, entries, steady, changes>>
    BY <1>7 DEF Examine
  <2> DEFINE x == IF Reaches(p) /\ Within(Canonical(p), Root) THEN {Canonical(p)} ELSE {}
  <2>2. p \in found /\ found' = found \ {p} /\ results' = results \cup x
        /\ Cardinality(results) + Cardinality(found) <= Limit
    BY <1>7 DEF Examine, ExamineInv
  <2>3. x \in SUBSET Places /\ (x = {} \/ \E y : x = {y})
    BY CanonicalType
  <2> HIDE DEF x
  <2>4. Cardinality(results') <= Limit /\ Cardinality(found') <= Limit
    BY <2>2, <2>3, ExamineSize DEF TypeOK
  <2>5. results' \subseteq Places /\ found' \subseteq Places
    BY <2>2, <2>3 DEF TypeOK
  <2> QED
    BY <2>1, <2>4, <2>5 DEF TypeOK, Consistent
<1>8. ASSUME EndSearch PROVE TypeOK'
  BY <1>8 DEF EndSearch, TypeOK, Consistent, searchVars, pageVars
<1>9. ASSUME ListDirectory PROVE TypeOK'
  <2>1. Children(Canonical(path)) \subseteq Places
    BY DEF Children
  <2> QED
    BY <1>9, <2>1 DEF ListDirectory, TypeOK, Consistent, searchVars
<1>10. ASSUME ListFails PROVE TypeOK'
  <2>1. Cardinality(results') <= Limit
    BY <1>10, FS_EmptySet, SearchAssumption DEF ListFails
  <2> QED
    BY <1>10, <2>1 DEF ListFails, TypeOK, Consistent, searchVars
<1>11. ASSUME LinkNext PROVE TypeOK'
  BY <1>11 DEF LinkNext, CheckShareable, GenerateToken, TypeOK, Consistent, searchVars, pageVars
<1>12. ASSUME NEW x \in Places, NEW what \in Contents, Change(x, what) PROVE TypeOK'
  BY <1>12, ChangeType
<1>13. ASSUME UNCHANGED vars PROVE TypeOK'
  BY <1>13 DEF vars, TypeOK, Consistent, searchVars, pageVars
<1> QED
  BY <1>1, <1>2, <1>3, <1>4, <1>5, <1>6, <1>7, <1>8, <1>9, <1>10, <1>11, <1>12, <1>13
     DEF Next, PageNext

-----------------------------------------------------------------------------
(* The search.                                                             *)

\* What a step that leaves the tree and the request alone leaves wanted.
LEMMA SameWanted ==
    ASSUME UNCHANGED <<disk, path, matching, steady>>, NEW p \in Places
    PROVE  Wanted(p)' = Wanted(p) /\ Canonical(p)' = Canonical(p)
BY DEF Wanted, Canonical, Searched, Depth, Reaches, Exists, Within

\* What the owner leaves alone is as it was.
LEMMA LeftAlone ==
    ASSUME TypeOK, NEW x \in Places, NEW what \in Contents, Change(x, what),
           NEW p \in steady'
    PROVE  /\ p \in steady /\ p \in Places
           /\ disk'[p] = disk[p] /\ disk'[Canonical(p)] = disk[Canonical(p)]
           /\ Canonical(p)' = Canonical(p)
<1>1. p \in steady /\ ~Within(p, x) /\ ~Within(Canonical(p), x)
  BY DEF Change
<1>2. p \in Places /\ Canonical(p) \in Places
  BY <1>1, CanonicalType DEF TypeOK
<1>3. disk' = [q \in Places |-> IF q = x THEN what
                                ELSE IF Within(q, x) THEN "gone" ELSE disk[q]]
  BY DEF Change
<1>4. x \in Upward[x]
  BY UpwardClosed
<1>5. p # x /\ Canonical(p) # x
  BY <1>1, <1>4 DEF Within
<1>6. disk'[p] = disk[p] /\ disk'[Canonical(p)] = disk[Canonical(p)]
  BY <1>1, <1>2, <1>3, <1>5
<1> QED
  BY <1>1, <1>2, <1>6 DEF Canonical

\* What is wanted after a change of the owner's was wanted before.
LEMMA ChangeWanted ==
    ASSUME TypeOK, NEW x \in Places, NEW what \in Contents, Change(x, what),
           NEW p \in Places, Wanted(p)'
    PROVE  Wanted(p) /\ Canonical(p)' = Canonical(p)
<1>1. p \in steady'
  BY DEF Wanted
<1>2. /\ p \in steady
      /\ disk'[p] = disk[p] /\ disk'[Canonical(p)] = disk[Canonical(p)]
      /\ Canonical(p)' = Canonical(p)
  BY <1>1, LeftAlone
<1>3. path' = path /\ matching' = matching
  BY DEF Change, searchVars
<1> QED
  BY <1>2, <1>3 DEF Wanted, Searched, Depth, Reaches, Exists, Within

\* The directory a wanted place waits for is there to be read, and above the
\* place.
LEMMA AwaitedDirectory ==
    ASSUME TypeOK, NEW p \in Places, Wanted(p), NEW d \in Upward[p] \ {p}
    PROVE  /\ d \in Places /\ Canonical(d) = d /\ IsDir(d)
           /\ \E c \in Upward[p] : c # d /\ Parent[c] = d /\ c \in Children(d)
                 /\ (c # p => disk[c] = "dir")
<1>1. Exists(p)
  BY CanonicalType DEF Wanted
<1>2. d \in Places
  BY UpwardClosed
<1>3. disk[d] = "dir"
  BY <1>1, DirectoriesAbove
<1>4. PICK c \in Upward[p] : c # d /\ Parent[c] = d
  BY WayDown
<1>5. c # p => disk[c] = "dir"
  BY <1>1, DirectoriesAbove
<1>6. c \in Children(d)
  BY <1>1, <1>4, <1>5, UpwardClosed DEF Children, Exists
<1> QED
  BY <1>2, <1>3, <1>4, <1>5, <1>6, RealDirectory

\* A directory read: what waited for it has been found, or waits for the next
\* directory on its way.
LEMMA ReadDirFinds ==
    ASSUME TypeOK, WalkInv, NEW d \in Places, NEW n \in 0..MaxDepth, ReadDir(d, n)
    PROVE  WalkInv'
<1>1. /\ UNCHANGED <<disk, pc, path, matching, full, results, steady>>
      /\ pc = "walk" /\ n < MaxDepth /\ Cardinality(found) < Limit
  BY DEF ReadDir, pageVars
<1>2. PICK some \in Taken(Canonical(d)) : found' = found \cup some
  BY DEF ReadDir
<1>3. todo' = (todo \ {<<d, n>>}) \cup
        {<<c, n + 1>> : c \in {b \in Children(Canonical(d)) : disk[b] = "dir"}}
  BY DEF ReadDir
<1>4. results' = {} /\ MaxDepth \in Nat
  BY <1>1, SearchAssumption DEF WalkInv
<1>5. ASSUME Cardinality(found') < Limit, NEW p \in Places, Wanted(p)'
      PROVE  p \in found' \/ Awaited(p)'
  <2>1. Wanted(p)
    BY <1>1, <1>5, SameWanted
  <2>2. p \in found \/ Awaited(p)
    BY <1>1, <2>1 DEF WalkInv
  <2>3. CASE p \in found
    BY <1>2, <2>3
  <2>4. CASE Awaited(p)
    <3>1. PICK e \in Upward[p] \ {p}, m \in 0..MaxDepth :
            <<e, m>> \in todo /\ m + Below(p, e) <= MaxDepth
      BY <2>4 DEF Awaited
    <3>2. CASE <<e, m>> # <<d, n>>
      <4>1. <<e, m>> \in todo'
        BY <1>3, <3>1, <3>2
      <4> QED
        BY <3>1, <4>1 DEF Awaited, Below
    <3>3. CASE <<e, m>> = <<d, n>>
      <4>0. d \in Upward[p] \ {p} /\ n + Below(p, d) <= MaxDepth
        BY <3>1, <3>3
      <4>1. Canonical(d) = d
        BY <2>1, <4>0, AwaitedDirectory
      <4>2. PICK c \in Upward[p] : c # d /\ Parent[c] = d /\ c \in Children(d)
                   /\ (c # p => disk[c] = "dir")
        BY <2>1, <4>0, AwaitedDirectory
      <4>3. CASE c = p
        <5>1. p \in Children(d) \cap matching
          BY <2>1, <4>2, <4>3 DEF Wanted
        <5>2. Children(d) \cap matching \subseteq found \cup some
          BY <1>2, <1>5, <4>1, TakenType
        <5> QED
          BY <1>2, <5>1, <5>2
      <4>4. CASE c # p
        <5>1. <<c, n + 1>> \in todo'
          BY <1>3, <4>1, <4>2, <4>4
        <5>2. Below(p, c) \in Nat /\ Below(p, d) = Below(p, c) + 1
          BY <4>0, <4>2, Nearer
        <5>3. n + 1 \in 0..MaxDepth /\ (n + 1) + Below(p, c) <= MaxDepth
          <6> HIDE DEF Below
          <6> QED
            BY <1>1, <1>4, <4>0, <5>2
        <5>4. c \in Upward[p] \ {p}
          BY <4>2, <4>4
        <5> QED
          BY <5>1, <5>3, <5>4 DEF Awaited, Below
      <4> QED
        BY <4>3, <4>4
    <3> QED
      BY <3>2, <3>3
  <2> QED
    BY <2>2, <2>3, <2>4
<1> QED
  BY <1>4, <1>5 DEF WalkInv

\* What is not read does not lead to what is wanted.
LEMMA SkipDirLoses ==
    ASSUME TypeOK, WalkInv, NEW d \in Places, NEW n \in 0..MaxDepth, SkipDir(d, n)
    PROVE  WalkInv'
<1>1. /\ UNCHANGED <<disk, pc, path, matching, found, full, results, steady>>
      /\ pc = "walk" /\ todo' = todo \ {<<d, n>>} /\ (n = MaxDepth \/ ~IsDir(d))
  BY DEF SkipDir, pageVars
<1>2. results' = {} /\ MaxDepth \in Nat
  BY <1>1, SearchAssumption DEF WalkInv
<1>3. ASSUME Cardinality(found') < Limit, NEW p \in Places, Wanted(p)'
      PROVE  p \in found' \/ Awaited(p)'
  <2>1. Wanted(p)
    BY <1>1, <1>3, SameWanted
  <2>2. p \in found \/ Awaited(p)
    BY <1>1, <1>3, <2>1 DEF WalkInv
  <2>3. CASE p \in found
    BY <1>1, <2>3
  <2>4. CASE Awaited(p)
    <3>1. PICK e \in Upward[p] \ {p}, m \in 0..MaxDepth :
            <<e, m>> \in todo /\ m + Below(p, e) <= MaxDepth
      BY <2>4 DEF Awaited
    <3>2. IsDir(e)
      BY <2>1, AwaitedDirectory
    <3>3. PICK c \in Upward[p] : c # e /\ Parent[c] = e
      BY WayDown
    <3>4. Below(p, c) \in Nat /\ Below(p, e) = Below(p, c) + 1
      BY <3>3, Nearer
    <3>5. m # MaxDepth
      BY <1>2, <3>1, <3>4
    <3>6. <<e, m>> \in todo'
      BY <1>1, <3>1, <3>2, <3>5
    <3> QED
      BY <3>1, <3>6 DEF Awaited, Below
  <2> QED
    BY <2>2, <2>3, <2>4
<1> QED
  BY <1>2, <1>3 DEF WalkInv

\* A walk begins at the directory of the page, above all that is searched.
LEMMA BrowseBegins ==
    ASSUME TypeOK, NEW b \in Places, NEW q \in Searches, Browse(b, q)
    PROVE  SearchInv'
<1>1. /\ pc' = (IF q = {} THEN "list" ELSE "walk")
      /\ matching' = q /\ results' = {} /\ found' = {path'} \cap q
      /\ todo' = (IF q = {} THEN {} ELSE {<<path', 0>>})
  BY DEF Browse
<1>2. path' \in Places /\ 0 \in 0..MaxDepth
  BY ResolvedType, SearchAssumption DEF Browse
<1>3. ASSUME q = {} PROVE SearchInv'
  BY <1>1, <1>3 DEF SearchInv, WalkInv, ExamineInv, ListInv, Wanted
<1>4. ASSUME q # {} PROVE SearchInv'
  <2>1. pc' = "walk" /\ todo' = {<<path', 0>>}
    BY <1>1, <1>4
  <2>2. ASSUME NEW p \in Places, Wanted(p)' PROVE p \in found' \/ Awaited(p)'
    <3>1. p \in q /\ path' \in Upward[p]
          /\ Cardinality(Upward[p] \ Upward[path']) <= MaxDepth
      BY <1>1, <2>2 DEF Wanted, Searched, Within, Depth
    <3>2. CASE p = path'
      BY <1>1, <3>1, <3>2
    <3>3. CASE p # path'
      <4>1. Cardinality(Upward[p] \ Upward[path']) \in Nat
        BY UpwardClosed, FS_Subset, FS_CardinalityType
      <4>2. 0 + Below(p, path') <= MaxDepth
        BY <3>1, <4>1 DEF Below
      <4>3. path' \in Upward[p] \ {p} /\ <<path', 0>> \in todo'
        BY <2>1, <3>1, <3>3
      <4> QED
        BY <1>2, <4>2, <4>3 DEF Awaited, Below
    <3> QED
      BY <3>2, <3>3
  <2> QED
    BY <1>1, <2>1, <2>2 DEF SearchInv, WalkInv, ExamineInv, ListInv
<1> QED
  BY <1>3, <1>4

\* What the walk has found is looked at, and kept when it is wanted.
LEMMA ExamineKeeps ==
    ASSUME TypeOK, ExamineInv, NEW x \in Places, Examine(x)
    PROVE  ExamineInv'
<1>1. /\ UNCHANGED <<disk, pc, path, matching, full, steady>>
      /\ pc = "examine" /\ x \in found /\ found' = found \ {x}
  BY DEF Examine
<1> DEFINE kept == IF Reaches(x) /\ Within(Canonical(x), Root) THEN {Canonical(x)} ELSE {}
<1>2. results' = results \cup kept
  BY DEF Examine
<1>3. kept \in SUBSET Places /\ (kept = {} \/ \E y : kept = {y})
  BY CanonicalType
<1>4. Cardinality(results') + Cardinality(found') <= Limit
  <2> HIDE DEF kept
  <2> QED
    BY <1>1, <1>2, <1>3, ExamineSize DEF ExamineInv, TypeOK
<1>5. ASSUME ~full', NEW p \in Places, Wanted(p)'
      PROVE  p \in found' \/ Canonical(p)' \in results'
  <2>1. Wanted(p) /\ Canonical(p)' = Canonical(p)
    BY <1>1, <1>5, SameWanted
  <2>2. p \in found \/ Canonical(p) \in results
    BY <1>1, <1>5, <2>1 DEF ExamineInv
  <2>3. p = x => Canonical(p) \in kept
    BY <2>1 DEF Wanted
  <2> QED
    BY <1>1, <1>2, <2>1, <2>2, <2>3
<1> QED
  BY <1>4, <1>5 DEF ExamineInv

\* The owner's changes take from what is wanted and add nothing.
LEMMA ChangeKeepsSearch ==
    ASSUME TypeOK, SearchInv, NEW x \in Places, NEW what \in Contents, Change(x, what)
    PROVE  SearchInv'
<1>1. UNCHANGED <<pc, path, matching, todo, found, full, results>>
  BY DEF Change, searchVars, pageVars
<1>2. \A p \in Places : Wanted(p)' => Wanted(p) /\ Canonical(p)' = Canonical(p)
  BY ChangeWanted
<1>3. \A p \in Places : Awaited(p)' = Awaited(p)
  BY <1>1 DEF Awaited, Below
<1>4. WalkInv'
  BY <1>1, <1>2, <1>3 DEF SearchInv, WalkInv
<1>5. ExamineInv'
  BY <1>1, <1>2 DEF SearchInv, ExamineInv
<1>6. ListInv'
  BY <1>1, <1>2 DEF SearchInv, ListInv
<1> QED
  BY <1>4, <1>5, <1>6 DEF SearchInv

\* Every step keeps what a search still has to find.
LEMMA SearchStep ==
    ASSUME TypeOK, SearchInv, [Next]_vars
    PROVE  SearchInv'
<1>1. ASSUME pc' \notin {"walk", "examine", "list", "page"} PROVE SearchInv'
  BY <1>1 DEF SearchInv, WalkInv, ExamineInv, ListInv
<1>2. ASSUME NEW p \in Places, Share(p) PROVE SearchInv'
  BY <1>1, <1>2 DEF Share
<1>3. ASSUME NEW p \in Places, Refuse(p) PROVE SearchInv'
  BY <1>1, <1>3 DEF Refuse
<1>4. ASSUME NEW p \in Places, NEW q \in Searches, Browse(p, q) PROVE SearchInv'
  BY <1>4, BrowseBegins
<1>5. ASSUME NEW d \in Places, NEW n \in 0..MaxDepth, ReadDir(d, n) PROVE SearchInv'
  <2>1. pc' = "walk"
    BY <1>5 DEF ReadDir
  <2> QED
    BY <1>5, <2>1, ReadDirFinds DEF SearchInv, ExamineInv, ListInv
<1>6. ASSUME NEW d \in Places, NEW n \in 0..MaxDepth, SkipDir(d, n) PROVE SearchInv'
  <2>1. pc' = "walk"
    BY <1>6 DEF SkipDir
  <2> QED
    BY <1>6, <2>1, SkipDirLoses DEF SearchInv, ExamineInv, ListInv
<1>7. ASSUME EndWalk PROVE SearchInv'
  <2>1. /\ UNCHANGED <<disk, path, matching, found, results, steady>>
        /\ pc = "walk" /\ pc' = "examine" /\ full' = (Cardinality(found) = Limit)
        /\ (todo = {} \/ Cardinality(found) = Limit)
    BY <1>7 DEF EndWalk, pageVars
  <2>2. Cardinality(found) \in Nat /\ Cardinality(found) <= Limit /\ Limit \in Nat
    BY FS_Subset, FS_CardinalityType, PlacesAssumption, SearchAssumption DEF TypeOK
  <2>3. Cardinality(results') + Cardinality(found') <= Limit
    BY <2>1, <2>2, FS_EmptySet DEF SearchInv, WalkInv
  <2>4. ASSUME ~full', NEW p \in Places, Wanted(p)' PROVE p \in found'
    <3>1. Wanted(p)
      BY <2>1, <2>4, SameWanted
    <3>2. Cardinality(found) # Limit /\ todo = {}
      BY <2>1, <2>4, Zenon
    <3>3. Cardinality(found) < Limit
      BY <2>2, <3>2
    <3> QED
      BY <2>1, <3>1, <3>2, <3>3 DEF SearchInv, WalkInv, Awaited
  <2> QED
    BY <2>1, <2>3, <2>4 DEF SearchInv, WalkInv, ExamineInv, ListInv
<1>8. ASSUME NEW p \in Places, Examine(p) PROVE SearchInv'
  <2>1. pc' = "examine"
    BY <1>8 DEF Examine
  <2> QED
    BY <1>8, <2>1, ExamineKeeps DEF SearchInv, WalkInv, ListInv
<1>9. ASSUME EndSearch PROVE SearchInv'
  <2>1. /\ UNCHANGED <<disk, path, matching, found, full, results, steady>>
        /\ pc = "examine" /\ found = {} /\ pc' = "list"
    BY <1>9 DEF EndSearch, searchVars, pageVars
  <2>2. \A p \in Places : Wanted(p)' => Wanted(p) /\ Canonical(p)' = Canonical(p)
    BY <2>1, SameWanted
  <2> QED
    BY <2>1, <2>2 DEF SearchInv, WalkInv, ExamineInv, ListInv
<1>10. ASSUME ListDirectory PROVE SearchInv'
  <2>1. /\ UNCHANGED <<disk, path, matching, full, results, steady>>
        /\ pc = "list" /\ pc' = "page"
    BY <1>10 DEF ListDirectory, searchVars
  <2>2. \A p \in Places : Wanted(p)' => Wanted(p) /\ Canonical(p)' = Canonical(p)
    BY <2>1, SameWanted
  <2> QED
    BY <2>1, <2>2 DEF SearchInv, WalkInv, ExamineInv, ListInv
<1>11. ASSUME ListFails PROVE SearchInv'
  BY <1>1, <1>11 DEF ListFails
<1>12. ASSUME LinkNext PROVE SearchInv'
  BY <1>1, <1>12 DEF LinkNext, CheckShareable, GenerateToken
<1>13. ASSUME NEW x \in Places, NEW what \in Contents, Change(x, what) PROVE SearchInv'
  BY <1>13, ChangeKeepsSearch
<1>14. ASSUME UNCHANGED vars PROVE SearchInv'
  <2>1. UNCHANGED <<disk, pc, path, matching, todo, found, full, results, steady>>
    BY <1>14 DEF vars, searchVars, pageVars
  <2>2. \A p \in Places : Wanted(p)' => Wanted(p) /\ Canonical(p)' = Canonical(p)
    BY <2>1, SameWanted
  <2>3. \A p \in Places : Awaited(p)' = Awaited(p)
    BY <2>1 DEF Awaited, Below
  <2> QED
    BY <2>1, <2>2, <2>3 DEF SearchInv, WalkInv, ExamineInv, ListInv
<1> QED
  BY <1>2, <1>3, <1>4, <1>5, <1>6, <1>7, <1>8, <1>9, <1>10, <1>11, <1>12, <1>13, <1>14
     DEF Next, PageNext

-----------------------------------------------------------------------------
(* What is offered.                                                        *)

\* Every step keeps what is offered, or touches it.
LEMMA OfferStep ==
    ASSUME TypeOK, OfferInv, [Next]_vars
    PROVE  OfferInv'
<1>1. ASSUME UNCHANGED disk, results' \subseteq results, steady' = steady
      PROVE  OfferInv'
  BY <1>1 DEF OfferInv, Offered, Canonical, Exists, Within
<1>2. ASSUME NEW p \in Places, Share(p) PROVE OfferInv'
  BY <1>1, <1>2 DEF Share, searchVars, pageVars
<1>3. ASSUME NEW p \in Places, Refuse(p) PROVE OfferInv'
  BY <1>1, <1>3 DEF Refuse, searchVars, pageVars
<1>4. ASSUME NEW p \in Places, NEW q \in Searches, Browse(p, q) PROVE OfferInv'
  BY <1>4 DEF Browse, OfferInv
<1>5. ASSUME NEW d \in Places, NEW n \in 0..MaxDepth, ReadDir(d, n) \/ SkipDir(d, n)
      PROVE  OfferInv'
  BY <1>1, <1>5 DEF ReadDir, SkipDir, pageVars
<1>6. ASSUME EndWalk \/ EndSearch \/ ListDirectory \/ ListFails PROVE OfferInv'
  BY <1>1, <1>6 DEF EndWalk, EndSearch, ListDirectory, ListFails, searchVars, pageVars
<1>7. ASSUME NEW x \in Places, Examine(x) PROVE OfferInv'
  <2>1. /\ UNCHANGED <<disk, steady>> /\ x \in Places
        /\ results' = results \cup
             (IF Reaches(x) /\ Within(Canonical(x), Root) THEN {Canonical(x)} ELSE {})
    BY <1>7 DEF Examine
  <2>2. Reaches(x) /\ Within(Canonical(x), Root) => Offered(Canonical(x))
    BY CanonicalType DEF Offered, Reaches
  <2>3. \A r \in results' \cap steady' : Offered(r)
    BY <2>1, <2>2 DEF OfferInv
  <2> QED
    BY <2>1, <2>3 DEF OfferInv, Offered, Canonical, Exists, Within
<1>8. ASSUME LinkNext PROVE OfferInv'
  BY <1>1, <1>8 DEF LinkNext, CheckShareable, GenerateToken, searchVars, pageVars
<1>9. ASSUME NEW x \in Places, NEW what \in Contents, Change(x, what) PROVE OfferInv'
  <2>1. ASSUME NEW r \in results' \cap steady' PROVE Offered(r)'
    <3>1. r \in steady /\ disk'[r] = disk[r] /\ Canonical(r)' = Canonical(r)
      BY <1>9, <2>1, LeftAlone
    <3>2. r \in results
      BY <1>9, <2>1 DEF Change, pageVars
    <3>3. Offered(r)
      BY <3>1, <3>2 DEF OfferInv
    <3> QED
      BY <3>1, <3>3 DEF Offered, Exists, Within
  <2> QED
    BY <2>1 DEF OfferInv
<1>10. ASSUME UNCHANGED vars PROVE OfferInv'
  BY <1>1, <1>10 DEF vars, pageVars
<1> QED
  BY <1>2, <1>3, <1>4, <1>5, <1>6, <1>7, <1>8, <1>9, <1>10 DEF Next, PageNext

\* A request for what is offered is refused for one reason only.
LEMMA OfferedStep ==
    ASSUME TypeOK, OfferInv, OfferedCanBeShared, [Next]_vars
    PROVE  OfferedCanBeShared'
<1>1. ASSUME pc' \notin {"404", "403"} PROVE OfferedCanBeShared'
  BY <1>1 DEF OfferedCanBeShared
<1>2. ASSUME NEW p \in Places, Share(p) PROVE OfferedCanBeShared'
  BY <1>1, <1>2 DEF Share
<1>3. ASSUME NEW p \in Places, Refuse(p) PROVE OfferedCanBeShared'
  <2>1. path' = p /\ results' = results /\ steady' = steady
        /\ ~(Reaches(p) /\ Within(Canonical(p), Root))
    BY <1>3 DEF Refuse, pageVars
  <2>2. ~(p \in results \cap steady)
    BY <2>1 DEF OfferInv, Offered, Reaches
  <2> QED
    BY <2>1, <2>2 DEF OfferedCanBeShared
<1>4. ASSUME NEW p \in Places, NEW q \in Searches, Browse(p, q) PROVE OfferedCanBeShared'
  BY <1>1, <1>4 DEF Browse
<1>5. ASSUME PageNext PROVE OfferedCanBeShared'
  BY <1>1, <1>5 DEF PageNext, ReadDir, SkipDir, EndWalk, Examine, EndSearch, ListDirectory, ListFails
<1>6. ASSUME CheckShareable PROVE OfferedCanBeShared'
  <2>1. /\ UNCHANGED <<disk, path, results, steady>>
        /\ pc' = "404" => ~Shareable(path)
        /\ pc' # "403"
    BY <1>6 DEF CheckShareable, pageVars
  <2>2. path \in results \cap steady => Reaches(path)
    BY DEF OfferInv, Offered, Reaches
  <2> QED
    BY <2>1, <2>2 DEF OfferedCanBeShared, Shareable, IsDir, Canonical
<1>7. ASSUME GenerateToken PROVE OfferedCanBeShared'
  BY <1>1, <1>7 DEF GenerateToken
<1>8. ASSUME NEW x \in Places, NEW what \in Contents, Change(x, what)
      PROVE  OfferedCanBeShared'
  <2>1. UNCHANGED <<pc, path, results>>
    BY <1>8 DEF Change, searchVars, pageVars
  <2>2. ASSUME path \in steady'
        PROVE  path \in steady /\ IsDir(path)' = IsDir(path)
    BY <1>8, <2>1, <2>2, LeftAlone DEF IsDir
  <2> QED
    BY <2>1, <2>2 DEF OfferedCanBeShared
<1>9. ASSUME UNCHANGED vars PROVE OfferedCanBeShared'
  BY <1>9 DEF vars, pageVars, OfferedCanBeShared, IsDir, Canonical
<1> QED
  BY <1>2, <1>3, <1>4, <1>5, <1>6, <1>7, <1>8, <1>9 DEF Next, LinkNext

-----------------------------------------------------------------------------
(* The theorems.                                                           *)

\* The invariant of the browser.
LEMMA InductiveInvariant == Spec => []Inductive
<1>1. Init => Inductive
  <2> SUFFICES ASSUME Init PROVE Inductive
    OBVIOUS
  <2>1. Cardinality({}) <= Limit
    BY FS_EmptySet, SearchAssumption
  <2>2. TypeOK
    <3>1. disk \in [Places -> Contents] /\ Consistent(disk)
      BY DEF Init
    <3>2. path \in Places /\ changes \in 0..MaxChanges
      BY TreeAssumption, OtherAssumption DEF Init
    <3>3. /\ pc = "idle" /\ matching = {} /\ todo = {} /\ found = {} /\ full = FALSE
          /\ results = {} /\ entries = {} /\ steady = {}
      BY DEF Init
    <3> QED
      BY <2>1, <3>1, <3>2, <3>3 DEF TypeOK, Answers
  <2> QED
    BY <2>2 DEF Init, Inductive, SearchInv, WalkInv, ExamineInv, ListInv, OfferInv,
                OfferedCanBeShared
<1>2. Inductive /\ [Next]_vars => Inductive'
  BY TypeStep, SearchStep, OfferStep, OfferedStep DEF Inductive, SearchInv
<1> QED
  BY <1>1, <1>2, PTL DEF Spec

\* Whatever is asked for, at whatever moment the owner changes the tree, the
\* handlers of the file browser keep to their types, and neither the matches
\* nor the results of a search ever exceed its limit.
THEOREM FileBrowserTypeOK == Spec => []TypeOK
BY InductiveInvariant, PTL DEF Inductive

\* A search that did not reach its limit has found everything that matches,
\* lies deep enough and stayed where it is while perform_search walked the
\* tree: for trees of every shape and size, every depth and limit.
THEOREM FileBrowserFindsWhatStays == Spec => []FindsWhatStays
<1>1. Inductive => FindsWhatStays
  BY DEF Inductive, SearchInv, ListInv, TypeOK, FindsWhatStays, Wanted
<1> QED
  BY <1>1, InductiveInvariant, PTL

\* A result that is offered on a page and has been left alone since can be
\* shared: admin_download_handler and the others refuse it only when it is a
\* directory and directories are not shared.
THEOREM FileBrowserOfferedCanBeShared == Spec => []OfferedCanBeShared
BY InductiveInvariant, PTL DEF Inductive
=============================================================================
