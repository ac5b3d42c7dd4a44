-------------------------- MODULE ZipStreamProofs --------------------------
(***************************************************************************)
(* What ZipStream's runs check on two entries, proved for directories,     *)
(* files and pipes of any size: whatever happens to the directory, the     *)
(* downloader has the beginning of one archive of the entries walked.      *)
(*                                                                         *)
(* ArchiveBegun speaks of the body alone and is not inductive.  The units  *)
(* still in the pipe continue the body (PipeContinues), and the unit       *)
(* written last is the one the task's next write may follow (TaskInStep).  *)
(***************************************************************************)
EXTENDS ZipStream, SequenceTheorems, TLAPS

LastOf(s) == IF s = <<>> THEN <<>> ELSE s[Len(s)]

\* The unit the task wrote last, wherever it is now.
Written == IF pipe = <<>> THEN LastOf(body) ELSE LastOf(pipe)

\* The walk collects at most one entry for each name, before anything is
\* written.
WalkFirst ==
    /\ Len(entries) <= N
    /\ pc = "walk" => Len(entries) < cur
    /\ pc = "entry" => cur <= Len(entries) + 1
    /\ pc \in {"walk", "error"} => body = <<>> /\ pipe = <<>>

\* Follows, of the kinds k and the entries e: it speaks of nothing else, so a
\* step that leaves both alone preserves it.
FollowsIn(k, e, u, v) ==
    LET After(i) == \/ i = 1 /\ u = <<>>
                    \/ /\ i > 1 /\ u # <<>> /\ u[2] = e[i - 1]
                       /\ u[1] = IF k[u[2]] = "dir" THEN "head" ELSE "close"
    IN  \/ v = Central /\ After(Len(e) + 1)
        \/ /\ v[1] = "head" /\ v[3] = 0
           /\ \E i \in 1..Len(e) : v[2] = e[i] /\ After(i)
        \/ /\ v[1] \in {"data", "close"} /\ k[v[2]] = "file"
           /\ u # <<>> /\ u[1] \in {"head", "data"} /\ u[2] = v[2]
           /\ v[3] = IF v[1] = "data" THEN u[3] + 1 ELSE u[3]

\* The units of s follow each other, the first of them u.
Chain(k, e, u, s) ==
    \A i \in 1..Len(s) : FollowsIn(k, e, IF i = 1 THEN u ELSE s[i - 1], s[i])

\* The pipe goes on where the body is.
PipeContinues == Chain(kind, entries, LastOf(body), pipe)

\* In the middle of a file, of which k reads have been written.
Amid(k) ==
    /\ kind[Entry] = "file"
    /\ Written # <<>> /\ Written[1] \in {"head", "data"}
    /\ Written[2] = Entry /\ Written[3] = k

TaskInStep ==
    reader = "open" =>
        /\ pc = "entry" => BeginsAfter(cur, Written)
        /\ pc = "open" => Amid(0)
        /\ pc \in {"read", "close"} => Amid(pos)
        /\ pc = "write" => pos > 0 /\ Amid(pos - 1)

IInv == TypeOK /\ WalkFirst /\ ArchiveBegun /\ PipeContinues /\ TaskInStep

-----------------------------------------------------------------------------
(* Chains.                                                                 *)

\* A chain goes on with a unit its last may be followed by.
LEMMA ChainAppends ==
    ASSUME NEW k, NEW e, NEW u, NEW S, NEW s \in Seq(S), NEW v \in S,
           Chain(k, e, u, s), FollowsIn(k, e, IF s = <<>> THEN u ELSE LastOf(s), v)
    PROVE  Chain(k, e, u, Append(s, v))
<1>1. Len(Append(s, v)) = Len(s) + 1 /\ Len(s) \in Nat
  OBVIOUS
<1>2. SUFFICES ASSUME NEW i \in 1..(Len(s) + 1)
               PROVE  FollowsIn(k, e, IF i = 1 THEN u ELSE Append(s, v)[i - 1], Append(s, v)[i])
  BY <1>1 DEF Chain
<1>3. CASE i <= Len(s)
  <2>1. i \in 1..Len(s) /\ Append(s, v)[i] = s[i]
    BY <1>1, <1>3
  <2>2. i # 1 => Append(s, v)[i - 1] = s[i - 1]
    BY <1>1, <1>3
  <2> QED
    BY <2>1, <2>2 DEF Chain
<1>4. CASE i = Len(s) + 1
  <2>1. Append(s, v)[i] = v
    BY <1>1, <1>4
  <2>2. CASE s = <<>>
    BY <1>1, <1>4, <2>1, <2>2
  <2>3. CASE s # <<>>
    <3>1. i # 1 /\ Append(s, v)[i - 1] = s[Len(s)]
      BY <1>1, <1>4, <2>3
    <3> QED
      BY <2>1, <2>3, <3>1 DEF LastOf
  <2> QED
    BY <2>2, <2>3
<1> QED
  BY <1>1, <1>3, <1>4

\* Without its first unit a chain begins after that unit.
LEMMA ChainShortens ==
    ASSUME NEW k, NEW e, NEW u, NEW S, NEW s \in Seq(S), s # <<>>,
           Chain(k, e, u, s)
    PROVE  FollowsIn(k, e, u, Head(s)) /\ Chain(k, e, Head(s), Tail(s))
<1>1. Len(s) \in Nat \ {0} /\ Head(s) = s[1] /\ Len(Tail(s)) = Len(s) - 1
  OBVIOUS
<1>2. FollowsIn(k, e, u, Head(s))
  BY <1>1 DEF Chain
<1>3. SUFFICES ASSUME NEW i \in 1..(Len(s) - 1)
               PROVE  FollowsIn(k, e, IF i = 1 THEN Head(s) ELSE Tail(s)[i - 1], Tail(s)[i])
  BY <1>1, <1>2 DEF Chain
<1>4. i + 1 \in 1..Len(s) /\ i + 1 # 1 /\ (i + 1) - 1 = i
  BY <1>1
<1>5. FollowsIn(k, e, s[i], s[i + 1])
  BY <1>4 DEF Chain
<1>6. Tail(s)[i] = s[i + 1] /\ (i # 1 => Tail(s)[i - 1] = s[i])
  BY <1>1
<1> QED
  BY <1>1, <1>5, <1>6

\* The empty sequence is a chain.
LEMMA ChainOfNothing ==
    ASSUME NEW k, NEW e, NEW u
    PROVE  Chain(k, e, u, <<>>)
BY DEF Chain

\* ArchiveBegun is the chain of the body.
LEMMA BodyIsChain ==
    /\ ArchiveBegun <=> Chain(kind, entries, <<>>, body)
    /\ ArchiveBegun' <=> Chain(kind', entries', <<>>, body')
<1>1. ArchiveBegun <=> Chain(kind, entries, <<>>, body)
  BY DEF ArchiveBegun, Chain, Follows, FollowsIn, BeginsAfter
<1>2. ArchiveBegun' <=> Chain(kind', entries', <<>>, body')
  BY DEF ArchiveBegun, Chain, Follows, FollowsIn, BeginsAfter
<1> QED
  BY <1>1, <1>2

-----------------------------------------------------------------------------
(* Units.                                                                  *)

\* A unit has a kind, a name and a position.
LEMMA UnitParts ==
    ASSUME NEW u \in Units
    PROVE  u # <<>> /\ u[3] \in 0..MaxReads
BY SizesAssumption DEF Units, Central

\* What the task makes up is a unit, and not the central directory.
LEMMA UnitMade ==
    ASSUME NEW w \in {"head", "data", "close"}, NEW n \in Names, NEW p \in 0..MaxReads
    PROVE  <<w, n, p>> \in Units /\ <<w, n, p>> # <<>> /\ <<w, n, p>> # Central
BY DEF Units, Central

\* The last of some units is one of them.
LEMMA LastTyped ==
    ASSUME NEW S, NEW s \in Seq(S), s # <<>>
    PROVE  LastOf(s) \in S
BY DEF LastOf

\* The last unit is the one appended.
LEMMA LastAppended ==
    ASSUME NEW S, NEW s \in Seq(S), NEW v \in S
    PROVE  Append(s, v) # <<>> /\ LastOf(Append(s, v)) = v
BY DEF LastOf

\* What was written last is in the pipe, or in the body if that is empty.
LEMMA WrittenTyped ==
    ASSUME TypeOK
    PROVE  /\ Written # <<>> => Written \in Units
           /\ Written = IF pipe = <<>> THEN LastOf(body) ELSE LastOf(pipe)
<1>1. pipe \in Seq(Units) /\ body \in Seq(Units)
  BY DEF TypeOK
<1>2. LastOf(<<>>) = <<>>
  BY DEF LastOf
<1> QED
  BY <1>1, <1>2, LastTyped DEF Written

\* What may follow something is what FollowsIn says.
LEMMA FollowsNow ==
    ASSUME NEW u, NEW v, Follows(u, v)
    PROVE  FollowsIn(kind, entries, u, v)
BY DEF Follows, FollowsIn, BeginsAfter

\* A unit that may follow is written.
LEMMA UnitWritten ==
    ASSUME TypeOK, ArchiveBegun, PipeContinues, NEW v \in Units,
           Follows(Written, v), Len(pipe) < Cap, pipe' = Append(pipe, v),
           UNCHANGED <<kind, entries, body>>
    PROVE  /\ pipe' \in Seq(Units) /\ Len(pipe') <= Cap
           /\ ArchiveBegun' /\ PipeContinues'
           /\ Written' = v
<1>1. pipe \in Seq(Units) /\ Cap \in Nat
  BY SizesAssumption DEF TypeOK
<1>2. pipe' \in Seq(Units) /\ Len(pipe') <= Cap
  BY <1>1
<1>3. ArchiveBegun'
  BY BodyIsChain
<1>4. FollowsIn(kind, entries, IF pipe = <<>> THEN LastOf(body) ELSE LastOf(pipe), v)
  BY FollowsNow, WrittenTyped
<1>5. Chain(kind, entries, LastOf(body), Append(pipe, v))
  BY <1>1, <1>4, ChainAppends DEF PipeContinues
<1>6. PipeContinues'
  BY <1>5 DEF PipeContinues
<1>7. Append(pipe, v) # <<>> /\ LastOf(Append(pipe, v)) = v
  BY <1>1, LastAppended
<1>8. Written' = v
  BY <1>7 DEF Written
<1> QED
  BY <1>2, <1>3, <1>6, <1>8

\* A unit is read.
LEMMA UnitRead ==
    ASSUME TypeOK, ArchiveBegun, PipeContinues, Read
    PROVE  /\ pipe' \in Seq(Units) /\ Len(pipe') <= Cap
           /\ body' \in Seq(Units)
           /\ ArchiveBegun' /\ PipeContinues'
           /\ Written' = Written
<1>1. /\ pipe \in Seq(Units) /\ body \in Seq(Units) /\ Len(pipe) <= Cap
      /\ pipe # <<>> /\ Cap \in Nat
  BY SizesAssumption DEF TypeOK, Read
<1>2. /\ body' = Append(body, Head(pipe)) /\ pipe' = Tail(pipe)
      /\ kind' = kind /\ entries' = entries
  BY DEF Read, diskVars, taskVars
<1>3. Head(pipe) \in Units /\ Len(Tail(pipe)) = Len(pipe) - 1 /\ Len(pipe) \in Nat
  BY <1>1
<1>4. pipe' \in Seq(Units) /\ Len(pipe') <= Cap /\ body' \in Seq(Units)
  BY <1>1, <1>2, <1>3
<1>5. /\ FollowsIn(kind, entries, LastOf(body), Head(pipe))
      /\ Chain(kind, entries, Head(pipe), Tail(pipe))
  BY <1>1, ChainShortens DEF PipeContinues
<1>6. LastOf(Append(body, Head(pipe))) = Head(pipe) /\ Append(body, Head(pipe)) # <<>>
  BY <1>1, <1>3, LastAppended
<1>7. PipeContinues'
  BY <1>2, <1>5, <1>6 DEF PipeContinues
<1>8. ArchiveBegun'
  <2>1. FollowsIn(kind, entries, IF body = <<>> THEN <<>> ELSE LastOf(body), Head(pipe))
    BY <1>5 DEF LastOf
  <2>2. Chain(kind, entries, <<>>, Append(body, Head(pipe)))
    BY <1>1, <1>3, <2>1, ChainAppends, BodyIsChain
  <2> QED
    BY <1>2, <2>2, BodyIsChain
<1>9. Written' = Written
  <2>1. CASE Tail(pipe) = <<>>
    <3>1. Len(Tail(pipe)) = 0
      BY <2>1, EmptySeq
    <3>2. Len(pipe) = 1
      <4>1. Len(pipe) \in Nat /\ 0 = Len(pipe) - 1
        BY <1>3, <3>1
      <4> QED
        BY <4>1
    <3>3. Head(pipe) = pipe[1]
      BY <1>1
    <3>4. LastOf(pipe) = Head(pipe)
      BY <1>1, <3>2, <3>3 DEF LastOf
    <3> QED
      BY <1>1, <1>2, <1>6, <2>1, <3>4 DEF Written
  <2>2. CASE Tail(pipe) # <<>>
    <3>1. Tail(pipe) \in Seq(Units) /\ Len(Tail(pipe)) # 0
      BY <1>1, <2>2, HeadTailProperties, EmptySeq
    <3>2. Len(pipe) - 1 \in 1..Len(Tail(pipe)) /\ (Len(pipe) - 1) + 1 = Len(pipe)
      BY <1>3, <3>1
    <3>3. Tail(pipe)[Len(pipe) - 1] = pipe[Len(pipe)]
      BY <1>1, <3>2
    <3>4. LastOf(Tail(pipe)) = LastOf(pipe)
      BY <1>1, <1>3, <2>2, <3>3 DEF LastOf
    <3> QED
      BY <1>1, <1>2, <2>2, <3>4 DEF Written
  <2> QED
    BY <2>1, <2>2
<1> QED
  BY <1>4, <1>7, <1>8, <1>9

-----------------------------------------------------------------------------
(* What the actions have in common.                                        *)

\* A step of the task that writes v, or finds the body gone.
LEMMA TaskWrites ==
    ASSUME TypeOK, ArchiveBegun, PipeContinues,
           NEW v \in Units, NEW then, Write(v, then),
           reader = "open" => Follows(Written, v),
           UNCHANGED <<kind, entries, body>>
    PROVE  /\ pipe' \in Seq(Units) /\ Len(pipe') <= Cap
           /\ ArchiveBegun' /\ PipeContinues'
           /\ reader = "open" => pc' = then /\ Written' = v
           /\ reader # "open" => pc' = "failed"
<1>1. CASE reader = "open" /\ Len(pipe) < Cap /\ pipe' = Append(pipe, v) /\ pc' = then
  BY <1>1, UnitWritten
<1>2. CASE reader # "open" /\ UNCHANGED pipe /\ pc' = "failed"
  BY <1>2, BodyIsChain DEF TypeOK, PipeContinues
<1> QED
  BY <1>1, <1>2 DEF Write

\* A step that neither writes nor reads.
LEMMA NothingMoves ==
    ASSUME TypeOK, ArchiveBegun, PipeContinues,
           UNCHANGED <<kind, entries, pipe, body>>
    PROVE  /\ pipe' \in Seq(Units) /\ Len(pipe') <= Cap
           /\ ArchiveBegun' /\ PipeContinues'
           /\ Written' = Written
BY BodyIsChain DEF TypeOK, PipeContinues, Written

\* The entry the task is at.
LEMMA EntryTyped ==
    ASSUME TypeOK, cur \in 1..Len(entries)
    PROVE  Entry \in Names /\ kind[Entry] \in {"dir", "file"} /\ length[Entry] \in 0..MaxReads
BY DEF TypeOK, Entry

\* Positions are numbers.
LEMMA Counted ==
    TypeOK => /\ N \in Nat /\ MaxReads \in Nat /\ cur \in Nat /\ Len(entries) \in Nat
              /\ pos \in Nat /\ entries \in Seq(Names)
BY SizesAssumption DEF TypeOK

-----------------------------------------------------------------------------
(* The invariant holds initially and is preserved.                         *)

\* The invariant holds before the walk.
LEMMA InitInvariant == Init => IInv
<1> SUFFICES ASSUME Init PROVE IInv
  OBVIOUS
<1>1. <<>> \in Seq(Names) /\ <<>> \in Seq(Units) /\ Len(<<>>) = 0
  BY EmptySeq
<1>2. TypeOK
  BY <1>1, SizesAssumption DEF Init, TypeOK
<1>3. WalkFirst
  BY <1>1, SizesAssumption DEF Init, WalkFirst
<1>4. ArchiveBegun /\ PipeContinues
  BY ChainOfNothing, BodyIsChain DEF Init, PipeContinues
<1>5. TaskInStep
  BY DEF Init, TaskInStep
<1> QED
  BY <1>2, <1>3, <1>4, <1>5 DEF IInv

\* The walk writes nothing.
LEMMA WalkPreserves == IInv /\ Walk => IInv'
<1> SUFFICES ASSUME IInv, Walk PROVE IInv'
  OBVIOUS
<1> USE DEF IInv, diskVars, taskVars
<1>0. pc = "walk" /\ body = <<>> /\ pipe = <<>>
  BY DEF Walk, WalkEntry, WalkFails, SpawnTask, WalkFirst
<1>1. UNCHANGED <<kind, disk, length, pos, pipe, body, reader>>
  BY DEF Walk, WalkEntry, WalkFails, SpawnTask
<1>2. ArchiveBegun' /\ PipeContinues'
  BY <1>0, <1>1, ChainOfNothing, BodyIsChain DEF PipeContinues
<1>3. CASE WalkEntry
  <2>1. cur \in Names /\ cur' = cur + 1 /\ pc' = pc
    BY <1>3, Counted DEF WalkEntry, TypeOK, Names
  <2>2. CASE entries' = entries
    <3>1. TypeOK'
      BY <1>0, <1>1, <2>1, <2>2, Counted DEF TypeOK, Names
    <3>2. WalkFirst'
      BY <1>0, <1>1, <2>1, <2>2, Counted DEF WalkFirst
    <3> QED
      BY <1>0, <1>2, <2>1, <3>1, <3>2 DEF TaskInStep
  <2>3. CASE entries' = Append(entries, cur)
    <3>1. entries' \in Seq(Names) /\ Len(entries') = Len(entries) + 1
      BY <2>1, <2>3, Counted
    <3>2. TypeOK'
      BY <1>0, <1>1, <2>1, <3>1, Counted DEF TypeOK, Names
    <3>3. WalkFirst'
      <4>1. Len(entries) < cur /\ cur <= N
        BY <1>0, <1>3 DEF WalkFirst, WalkEntry
      <4> QED
        BY <1>0, <1>1, <2>1, <3>1, <4>1, Counted DEF WalkFirst
    <3> QED
      BY <1>0, <1>2, <2>1, <3>2, <3>3 DEF TaskInStep
  <2> QED
    BY <1>3, <2>2, <2>3 DEF WalkEntry
<1>4. CASE WalkFails
  <2>1. pc' = "error" /\ cur' = cur /\ entries' = entries
    BY <1>4 DEF WalkFails
  <2>2. TypeOK'
    BY <1>1, <2>1 DEF TypeOK
  <2>3. WalkFirst'
    BY <1>0, <1>1, <2>1 DEF WalkFirst
  <2> QED
    BY <1>2, <2>1, <2>2, <2>3 DEF TaskInStep
<1>5. CASE SpawnTask
  <2>1. pc' = "entry" /\ cur' = 1 /\ entries' = entries
    BY <1>5 DEF SpawnTask
  <2>2. TypeOK'
    BY <1>1, <2>1, Counted DEF TypeOK
  <2>3. WalkFirst'
    BY <1>0, <1>1, <2>1, Counted DEF WalkFirst
  <2>4. Written' = <<>>
    BY <1>0, <1>1 DEF Written, LastOf
  <2>5. TaskInStep'
    BY <2>1, <2>4 DEF TaskInStep, BeginsAfter
  <2> QED
    BY <1>2, <2>2, <2>3, <2>5
<1> QED
  BY <1>3, <1>4, <1>5 DEF Walk

\* The head of a directory follows what was written.
LEMMA DirPreserves == IInv /\ WriteDir => IInv'
<1> SUFFICES ASSUME IInv, WriteDir PROVE IInv'
  OBVIOUS
<1> USE DEF IInv, diskVars
<1> DEFINE v == <<"head", Entry, 0>>
<1>1. /\ pc = "entry" /\ cur <= Len(entries) /\ kind[Entry] = "dir"
      /\ Write(v, "entry") /\ cur' = cur + 1
      /\ UNCHANGED <<kind, disk, length, entries, pos, body, reader>>
  BY DEF WriteDir
<1>2. cur \in 1..Len(entries)
  BY <1>1, Counted DEF TypeOK
<1>3. v \in Units
  BY <1>2, EntryTyped, UnitMade, SizesAssumption
<1>4. reader = "open" => Follows(Written, v)
  BY <1>1, <1>2 DEF TaskInStep, Follows, Entry
<1>5. /\ pipe' \in Seq(Units) /\ Len(pipe') <= Cap
      /\ ArchiveBegun' /\ PipeContinues'
      /\ reader = "open" => pc' = "entry" /\ Written' = v
      /\ reader # "open" => pc' = "failed"
  BY <1>1, <1>3, <1>4, TaskWrites
<1>6. cur' \in 1..(N + 1) /\ pc' \in {"entry", "failed"} /\ cur' <= Len(entries') + 1
  BY <1>1, <1>2, <1>5, Counted DEF WalkFirst
<1>7. TypeOK'
  BY <1>1, <1>5, <1>6 DEF TypeOK
<1>8. WalkFirst'
  BY <1>1, <1>6 DEF WalkFirst
<1>9. TaskInStep'
  <2>1. SUFFICES ASSUME reader' = "open" PROVE BeginsAfter(cur, Written)'
    BY <1>6 DEF TaskInStep
  <2>2. Written' = v /\ v # <<>> /\ cur' > 1 /\ cur' - 1 = cur
    BY <1>1, <1>2, <1>3, <1>5, <2>1, UnitParts, Counted
  <2> QED
    BY <1>1, <2>2 DEF BeginsAfter, Entry
<1> QED
  BY <1>5, <1>7, <1>8, <1>9

\* So does the head of a file.
LEMMA HeadPreserves == IInv /\ WriteHead => IInv'
<1> SUFFICES ASSUME IInv, WriteHead PROVE IInv'
  OBVIOUS
<1> USE DEF IInv, diskVars
<1> DEFINE v == <<"head", Entry, 0>>
<1>1. /\ pc = "entry" /\ cur <= Len(entries) /\ kind[Entry] = "file"
      /\ Write(v, "open")
      /\ UNCHANGED <<kind, disk, length, cur, entries, pos, body, reader>>
  BY DEF WriteHead
<1>2. cur \in 1..Len(entries)
  BY <1>1, Counted DEF TypeOK
<1>3. v \in Units
  BY <1>2, EntryTyped, UnitMade, SizesAssumption
<1>4. reader = "open" => Follows(Written, v)
  BY <1>1, <1>2 DEF TaskInStep, Follows, Entry
<1>5. /\ pipe' \in Seq(Units) /\ Len(pipe') <= Cap
      /\ ArchiveBegun' /\ PipeContinues'
      /\ reader = "open" => pc' = "open" /\ Written' = v
      /\ reader # "open" => pc' = "failed"
  BY <1>1, <1>3, <1>4, TaskWrites
<1>6. pc' \in {"open", "failed"}
  BY <1>5
<1>7. TypeOK'
  BY <1>1, <1>2, <1>5, <1>6 DEF TypeOK
<1>8. WalkFirst'
  BY <1>1, <1>6 DEF WalkFirst
<1>9. TaskInStep'
  <2>1. SUFFICES ASSUME reader' = "open" PROVE Amid(0)'
    BY <1>6 DEF TaskInStep
  <2>2. Written' = v /\ v # <<>>
    BY <1>1, <1>3, <1>5, <2>1, UnitParts
  <2> QED
    BY <1>1, <2>2 DEF Amid, Entry
<1> QED
  BY <1>5, <1>7, <1>8, <1>9

\* Opening a file writes nothing.
LEMMA OpenPreserves == IInv /\ OpenEntry => IInv'
<1> SUFFICES ASSUME IInv, OpenEntry PROVE IInv'
  OBVIOUS
<1> USE DEF IInv, diskVars
<1>1. /\ pc = "open" /\ pc' \in {"read", "failed"} /\ pos' = 0
      /\ UNCHANGED <<kind, disk, length, cur, entries, pipe, body, reader>>
  BY DEF OpenEntry
<1>2. /\ pipe' \in Seq(Units) /\ Len(pipe') <= Cap
      /\ ArchiveBegun' /\ PipeContinues' /\ Written' = Written
  BY <1>1, NothingMoves
<1>3. TypeOK'
  BY <1>1, <1>2, Counted DEF TypeOK
<1>4. WalkFirst'
  BY <1>1 DEF WalkFirst
<1>5. TaskInStep'
  BY <1>1, <1>2 DEF TaskInStep, Amid, Entry
<1> QED
  BY <1>2, <1>3, <1>4, <1>5

\* Nor does reading it.
LEMMA ReadEntryPreserves == IInv /\ ReadEntry => IInv'
<1> SUFFICES ASSUME IInv, ReadEntry PROVE IInv'
  OBVIOUS
<1> USE DEF IInv, diskVars
<1>1. /\ pc = "read"
      /\ UNCHANGED <<kind, disk, length, cur, entries, pipe, body, reader>>
      /\ \/ pc' \in {"failed", "close"} /\ pos' = pos
         \/ pc' = "write" /\ pos' = pos + 1 /\ pos < length[Entry]
  BY DEF ReadEntry
<1>2. /\ pipe' \in Seq(Units) /\ Len(pipe') <= Cap
      /\ ArchiveBegun' /\ PipeContinues' /\ Written' = Written
  BY <1>1, NothingMoves
<1>3. cur \in 1..Len(entries)
  BY <1>1 DEF TypeOK
<1>4. pos' \in 0..MaxReads
  <2> DEFINE n == length[Entry]
  <2>1. n \in 0..MaxReads
    BY <1>3, EntryTyped
  <2>2. MaxReads \in Nat /\ pos \in 0..MaxReads
    BY Counted DEF TypeOK
  <2>3. pos' = pos \/ (pos' = pos + 1 /\ pos < n)
    BY <1>1
  <2> HIDE DEF n
  <2> QED
    BY <2>1, <2>2, <2>3
<1>5. TypeOK'
  BY <1>1, <1>2, <1>3, <1>4 DEF TypeOK
<1>6. WalkFirst'
  BY <1>1 DEF WalkFirst
<1>7. TaskInStep'
  BY <1>1, <1>2, Counted DEF TaskInStep, Amid, Entry
<1> QED
  BY <1>2, <1>5, <1>6, <1>7

\* What was read follows the head or the read before.
LEMMA DataPreserves == IInv /\ WriteData => IInv'
<1> SUFFICES ASSUME IInv, WriteData PROVE IInv'
  OBVIOUS
<1> USE DEF IInv, diskVars
<1> DEFINE v == <<"data", Entry, pos>>
<1>1. /\ pc = "write" /\ Write(v, "read")
      /\ UNCHANGED <<kind, disk, length, cur, entries, pos, body, reader>>
  BY DEF WriteData
<1>2. cur \in 1..Len(entries)
  BY <1>1 DEF TypeOK
<1>3. v \in Units
  BY <1>2, EntryTyped, UnitMade DEF TypeOK
<1>4. reader = "open" => Follows(Written, v)
  <2>1. SUFFICES ASSUME reader = "open" PROVE Follows(Written, v)
    OBVIOUS
  <2>2. pos > 0 /\ Amid(pos - 1)
    BY <1>1, <2>1 DEF TaskInStep
  <2>3. v[3] = Written[3] + 1
    BY <2>2, Counted DEF Amid
  <2> QED
    BY <2>2, <2>3 DEF Follows, Amid
<1>5. /\ pipe' \in Seq(Units) /\ Len(pipe') <= Cap
      /\ ArchiveBegun' /\ PipeContinues'
      /\ reader = "open" => pc' = "read" /\ Written' = v
      /\ reader # "open" => pc' = "failed"
  BY <1>1, <1>3, <1>4, TaskWrites
<1>6. pc' \in {"read", "failed"}
  BY <1>5
<1>7. TypeOK'
  BY <1>1, <1>2, <1>5, <1>6 DEF TypeOK
<1>8. WalkFirst'
  BY <1>1, <1>6 DEF WalkFirst
<1>9. TaskInStep'
  <2>1. SUFFICES ASSUME reader' = "open" PROVE pc' = "read" => Amid(pos)'
    BY <1>6 DEF TaskInStep
  <2>2. Written' = v /\ v # <<>> /\ kind[Entry] = "file"
    BY <1>1, <1>3, <1>5, <2>1, UnitParts DEF TaskInStep, Amid
  <2> QED
    BY <1>1, <2>2 DEF Amid, Entry
<1> QED
  BY <1>5, <1>7, <1>8, <1>9

\* A file is closed after its last read.
LEMMA ClosePreserves == IInv /\ CloseEntry => IInv'
<1> SUFFICES ASSUME IInv, CloseEntry PROVE IInv'
  OBVIOUS
<1> USE DEF IInv, diskVars
<1> DEFINE v == <<"close", Entry, pos>>
<1>1. /\ pc = "close" /\ Write(v, "entry") /\ cur' = cur + 1
      /\ UNCHANGED <<kind, disk, length, entries, pos, body, reader>>
  BY DEF CloseEntry
<1>2. cur \in 1..Len(entries)
  BY <1>1 DEF TypeOK
<1>3. v \in Units
  BY <1>2, EntryTyped, UnitMade DEF TypeOK
<1>4. reader = "open" => Follows(Written, v) /\ kind[Entry] = "file"
  BY <1>1 DEF TaskInStep, Follows, Amid
<1>5. /\ pipe' \in Seq(Units) /\ Len(pipe') <= Cap
      /\ ArchiveBegun' /\ PipeContinues'
      /\ reader = "open" => pc' = "entry" /\ Written' = v
      /\ reader # "open" => pc' = "failed"
  BY <1>1, <1>3, <1>4, TaskWrites
<1>6. cur' \in 1..(N + 1) /\ pc' \in {"entry", "failed"} /\ cur' <= Len(entries') + 1
  BY <1>1, <1>2, <1>5, Counted DEF WalkFirst
<1>7. TypeOK'
  BY <1>1, <1>5, <1>6 DEF TypeOK
<1>8. WalkFirst'
  BY <1>1, <1>6 DEF WalkFirst
<1>9. TaskInStep'
  <2>1. SUFFICES ASSUME reader' = "open" PROVE BeginsAfter(cur, Written)'
    BY <1>6 DEF TaskInStep
  <2>2. Written' = v /\ v # <<>> /\ cur' > 1 /\ cur' - 1 = cur
    BY <1>1, <1>2, <1>3, <1>5, <2>1, UnitParts, Counted
  <2> QED
    BY <1>1, <1>4, <2>1, <2>2 DEF BeginsAfter, Entry
<1> QED
  BY <1>5, <1>7, <1>8, <1>9

\* The central directory follows the last entry.
LEMMA CentralPreserves == IInv /\ CloseZip => IInv'
<1> SUFFICES ASSUME IInv, CloseZip PROVE IInv'
  OBVIOUS
<1> USE DEF IInv, diskVars
<1>1. /\ pc = "entry" /\ cur > Len(entries) /\ Write(Central, "done")
      /\ UNCHANGED <<kind, disk, length, cur, entries, pos, body, reader>>
  BY DEF CloseZip
<1>2. cur = Len(entries) + 1
  BY <1>1, Counted DEF WalkFirst
<1>3. Central \in Units
  BY DEF Units
<1>4. reader = "open" => Follows(Written, Central)
  BY <1>1, <1>2 DEF TaskInStep, Follows
<1>5. /\ pipe' \in Seq(Units) /\ Len(pipe') <= Cap
      /\ ArchiveBegun' /\ PipeContinues'
      /\ reader = "open" => pc' = "done" /\ Written' = Central
      /\ reader # "open" => pc' = "failed"
  BY <1>1, <1>3, <1>4, TaskWrites
<1>6. pc' \in {"done", "failed"}
  BY <1>5
<1>7. TypeOK'
  BY <1>1, <1>5, <1>6 DEF TypeOK
<1>8. WalkFirst'
  BY <1>1, <1>6 DEF WalkFirst
<1>9. TaskInStep'
  BY <1>6 DEF TaskInStep
<1> QED
  BY <1>5, <1>7, <1>8, <1>9

\* The downloader moves units on, first in, first out.
LEMMA DownloaderPreserves == IInv /\ Downloader => IInv'
<1> SUFFICES ASSUME IInv, Downloader PROVE IInv'
  OBVIOUS
<1> USE DEF IInv, diskVars, taskVars
<1>1. UNCHANGED <<kind, disk, length, pc, cur, entries, pos>>
  BY DEF Downloader, Read, EndOfBody, Leave
<1>2. CASE Read
  <2>1. reader' = reader /\ pipe # <<>>
    BY <1>2 DEF Read
  <2>2. /\ pipe' \in Seq(Units) /\ Len(pipe') <= Cap /\ body' \in Seq(Units)
        /\ ArchiveBegun' /\ PipeContinues' /\ Written' = Written
    BY <1>2, UnitRead
  <2>3. TypeOK'
    BY <1>1, <2>1, <2>2 DEF TypeOK
  <2>4. WalkFirst'
    BY <1>1, <2>1 DEF WalkFirst
  <2>5. TaskInStep'
    BY <1>1, <2>1, <2>2 DEF TaskInStep, Amid, Entry, BeginsAfter
  <2> QED
    BY <2>2, <2>3, <2>4, <2>5
<1>3. CASE EndOfBody
  <2>1. reader' = "ended" /\ UNCHANGED <<pipe, body>>
    BY <1>3 DEF EndOfBody
  <2>2. ArchiveBegun' /\ PipeContinues'
    BY <1>1, <2>1, NothingMoves
  <2>3. TypeOK'
    BY <1>1, <2>1 DEF TypeOK
  <2>4. WalkFirst' /\ TaskInStep'
    BY <1>1, <2>1 DEF WalkFirst, TaskInStep
  <2> QED
    BY <2>2, <2>3, <2>4
<1>4. CASE Leave
  <2>1. reader' = "gone" /\ pipe' = <<>> /\ body' = body /\ pc \notin {"walk", "error"}
    BY <1>4 DEF Leave
  <2>2. pipe' \in Seq(Units) /\ Len(pipe') <= Cap
    BY <2>1, EmptySeq, SizesAssumption
  <2>3. ArchiveBegun' /\ PipeContinues'
    BY <1>1, <2>1, BodyIsChain, ChainOfNothing DEF PipeContinues
  <2>4. TypeOK'
    BY <1>1, <2>1, <2>2 DEF TypeOK
  <2>5. WalkFirst' /\ TaskInStep'
    BY <1>1, <2>1 DEF WalkFirst, TaskInStep
  <2> QED
    BY <2>3, <2>4, <2>5
<1> QED
  BY <1>2, <1>3, <1>4 DEF Downloader

\* Changes on disk touch neither pipe nor body.
LEMMA DiskPreserves ==
    ASSUME IInv, NEW n \in Names, DiskChanges(n)
    PROVE  IInv'
<1> USE DEF IInv, diskVars, taskVars
<1>1. UNCHANGED <<kind, pc, cur, entries, pos, pipe, body, reader>>
  BY DEF DiskChanges
<1>2. /\ disk' \in [Names -> {"readable", "failing", "gone"}]
      /\ length' \in [Names -> 0..MaxReads]
  <2>1. /\ disk \in [Names -> {"readable", "failing", "gone"}]
        /\ length \in [Names -> 0..MaxReads]
    BY DEF TypeOK
  <2>2. CASE \E s \in {"failing", "gone"} : disk' = [disk EXCEPT ![n] = s] /\ length' = length
    BY <2>1, <2>2
  <2>3. CASE \E k \in 0..MaxReads : length' = [length EXCEPT ![n] = k] /\ disk' = disk
    BY <2>1, <2>3
  <2> QED
    BY <2>2, <2>3 DEF DiskChanges
<1>3. ArchiveBegun' /\ PipeContinues' /\ Written' = Written
  BY <1>1, NothingMoves
<1>4. TypeOK'
  BY <1>1, <1>2 DEF TypeOK
<1>5. WalkFirst'
  BY <1>1 DEF WalkFirst
<1>6. TaskInStep'
  BY <1>1, <1>3 DEF TaskInStep, Amid, Entry, BeginsAfter
<1> QED
  BY <1>3, <1>4, <1>5, <1>6

\* A step in which nothing happens keeps the invariant.
LEMMA StutterPreserves == IInv /\ UNCHANGED vars => IInv'
<1> SUFFICES ASSUME IInv, UNCHANGED vars PROVE IInv'
  OBVIOUS
<1> USE DEF IInv, vars, diskVars, taskVars
<1>1. ArchiveBegun' /\ PipeContinues' /\ Written' = Written
  BY NothingMoves
<1>2. TypeOK'
  BY DEF TypeOK
<1>3. WalkFirst'
  BY DEF WalkFirst
<1>4. TaskInStep'
  BY <1>1 DEF TaskInStep, Amid, Entry, BeginsAfter
<1> QED
  BY <1>1, <1>2, <1>3, <1>4

\* Every step keeps the invariant.
LEMMA NextPreserves == IInv /\ [Next]_vars => IInv'
BY WalkPreserves, DirPreserves, HeadPreserves, OpenPreserves,
   ReadEntryPreserves, DataPreserves, ClosePreserves, CentralPreserves,
   DownloaderPreserves, DiskPreserves, StutterPreserves DEF Next, Task

\* The invariant of the archive.
LEMMA Invariance == Spec => []IInv
BY InitInvariant, NextPreserves, PTL DEF Spec

-----------------------------------------------------------------------------
(* The theorems.                                                           *)

\* The variables keep their types and the pipe its capacity, for every
\* number of names, length of files and capacity.
THEOREM ZipTypes == Spec => []TypeOK
<1>1. IInv => TypeOK
  BY DEF IInv
<1> QED
  BY <1>1, Invariance, PTL

\* What the downloader of a directory has is always the beginning of one
\* archive of all the entries that were walked, in their order and with every
\* read of their files, whatever happens to the directory meanwhile.
THEOREM BodyBeginsArchive == Spec => []ArchiveBegun
<1>1. IInv => ArchiveBegun
  BY DEF IInv
<1> QED
  BY <1>1, Invariance, PTL
=============================================================================
