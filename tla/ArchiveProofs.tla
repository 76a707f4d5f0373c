---------------------------- MODULE ArchiveProofs ----------------------------
(***************************************************************************)
(* Whatever is written to an archive, cut short, packed again, compressed  *)
(* or left behind, and wherever the replay stops and goes on: it executes  *)
(* consecutive epochs, reads only whole containers, and gets through a     *)
(* clean archive.                                                          *)
(***************************************************************************)
EXTENDS Archive, AscendingLemmas, SequenceTheorems

GroupRecord == [start : Nat \ {0}, count : Nat \ {0}]
FileRecord  == [entries : Seq(GroupRecord), size : Nat]
PlainPath   == [start : Nat, end : Nat, ext : {"cfxpack"}]

\* No file is longer than its container.
ArchiveOK ==
    /\ \A path \in DOMAIN archive : /\ archive[path] \in FileRecord
                                    /\ archive[path].size <= FullSize(archive[path].entries)
    /\ pack \in [at : Nat \ {0}, until : Nat, open : SUBSET PlainPath]

Steady(epochs) == \A i \in 1..(Len(epochs) - 1) : epochs[i + 1] = epochs[i] + 1

\* The group expected next is the one behind what was executed, and so is the
\* resume height before the first group.
ReplayOK ==
    /\ entries \in Seq(GroupRecord)
    /\ \A file \in opened : /\ file \in FileRecord /\ Parses(file)
                            /\ file.size <= FullSize(file.entries)
    /\ executed \in Seq(Nat \ {0}) /\ Steady(executed)
    /\ checkpoint \in Seq(Nat \ {0}) /\ Steady(checkpoint)
    /\ next_expected # {} => \E n \in Nat : /\ next_expected = {n} /\ executed # <<>>
                                            /\ Last(executed) = n - 1
    /\ pc = "reading" /\ next_expected = {} => resume_height = HeightOf(executed)

ArchiveInv == ArchiveOK /\ ReplayOK

LEMMA InitArchiveInv == Init => ArchiveInv
BY DEF Init, ArchiveInv, ArchiveOK, ReplayOK, NoPack, Steady

-----------------------------------------------------------------------------
(* Writing *)

\* The groups before a group that is not empty are not empty either.
LEMMA GroupsOK ==
    ASSUME pack.at \in Nat \ {0}, pack.until \in Nat, NEW n \in Nat \ {0},
           Groups(n)[n].count > 0
    PROVE  /\ Groups(n) \in Seq(GroupRecord) /\ Len(Groups(n)) = n
           /\ Named(Groups(n)) \in PlainPath
           /\ FullSize(Groups(n)) \in Nat
<1> DEFINE Start(i) == pack.at + (i - 1) * GroupEpochs
           Left(i)  == pack.until - Start(i) + 1
<1>1. GroupEpochs \in Nat \ {0}
  BY ArchiveAssumption
<1>2. ASSUME NEW i \in 1..n
      PROVE  /\ (i - 1) * GroupEpochs \in Nat
             /\ (i - 1) * GroupEpochs <= (n - 1) * GroupEpochs
             /\ (n - 1) * GroupEpochs \in Nat
  <2>1. i - 1 \in Nat /\ n - 1 \in Nat /\ n - i \in Nat
    OBVIOUS
  <2>2. (n - i) * GroupEpochs \in Nat /\ (i - 1) * GroupEpochs \in Nat
    BY <1>1, <2>1
  <2>3. (n - 1) * GroupEpochs = (i - 1) * GroupEpochs + (n - i) * GroupEpochs
    BY <1>1, <2>1
  <2>. QED  BY <2>2, <2>3
<1>3. \A i \in 1..n : Groups(n)[i] = [start |-> Start(i), count |-> Lower(GroupEpochs, Left(i))]
  BY DEF Groups
<1>4. Left(n) > 0
  <2>1. Lower(GroupEpochs, Left(n)) > 0
    <3>1. Groups(n)[n] = [start |-> Start(n), count |-> Lower(GroupEpochs, Left(n))]
      BY <1>3
    <3>2. Groups(n)[n].count = Lower(GroupEpochs, Left(n))
      BY <3>1
    <3>. QED  BY <3>2
  <2>2. Left(n) \in Int
    BY <1>2
  <2>. QED  BY <1>1, <2>1, <2>2 DEF Lower
<1>5. ASSUME NEW i \in 1..n
      PROVE  Start(i) \in Nat \ {0} /\ Lower(GroupEpochs, Left(i)) \in Nat \ {0}
  <2>1. Start(i) \in Nat \ {0} /\ Left(i) \in Int /\ Left(i) >= Left(n) /\ Left(n) \in Int
    BY <1>2
  <2>. QED  BY <1>1, <1>4, <2>1 DEF Lower
<1> HIDE DEF Start, Left
<1>6. Groups(n) \in [1..n -> GroupRecord]
  BY <1>3, <1>5 DEF Groups, GroupRecord
<1>7. Groups(n) \in Seq(GroupRecord) /\ Len(Groups(n)) = n
  BY <1>6
<1>8. Groups(n)[1] \in GroupRecord /\ Groups(n)[n] \in GroupRecord
  BY <1>6
<1>9. Named(Groups(n)) \in PlainPath
  BY <1>7, <1>8 DEF Named, PlainPath, GroupRecord, EndOf
<1>10. FullSize(Groups(n)) \in Nat
  BY <1>7 DEF FullSize, HEADER_LEN, DIR_ENTRY_LEN, PAYLOAD_LEN
<1>. QED  BY <1>7, <1>9, <1>10

LEMMA SizeNat ==
    ASSUME NEW groups \in Seq(GroupRecord)
    PROVE  FullSize(groups) \in Nat \ {0}
BY DEF FullSize, HEADER_LEN, DIR_ENTRY_LEN, PAYLOAD_LEN

LEMMA CreateArchiveOK ==
    ASSUME ArchiveOK, CreateContainer
    PROVE  ArchiveOK'
<1>1. PICK n \in 1..LastEpoch :
         /\ Groups(n)[n].count > 0
         /\ \E size \in 0..(FullSize(Groups(n)) - 1) :
               archive' = Put(Named(Groups(n)), [entries |-> Groups(n), size |-> size])
         /\ pack' = [pack EXCEPT !.open = {Named(Groups(n))}]
  BY DEF CreateContainer
<1>2. n \in Nat \ {0}
  BY ArchiveAssumption
<1>3. /\ Groups(n) \in Seq(GroupRecord) /\ Named(Groups(n)) \in PlainPath
      /\ FullSize(Groups(n)) \in Nat
  BY <1>1, <1>2, GroupsOK DEF ArchiveOK
<1>4. PICK size \in 0..(FullSize(Groups(n)) - 1) :
         archive' = Put(Named(Groups(n)), [entries |-> Groups(n), size |-> size])
  BY <1>1
<1>5. /\ [entries |-> Groups(n), size |-> size] \in FileRecord
      /\ size <= FullSize(Groups(n))
  BY <1>3 DEF FileRecord
<1>6. pack' \in [at : Nat \ {0}, until : Nat, open : SUBSET PlainPath]
  BY <1>1, <1>3 DEF ArchiveOK
<1>. QED  BY <1>4, <1>5, <1>6 DEF ArchiveOK, Put

LEMMA FinishArchiveOK ==
    ASSUME ArchiveOK, FinishContainer
    PROVE  ArchiveOK'
<1>1. PICK path \in pack.open :
         /\ archive' = [archive EXCEPT ![path].size = FullSize(archive[path].entries)]
         /\ pack' = [pack EXCEPT !.at = path.end + 1, !.open = {}]
  BY DEF FinishContainer
<1>2. path.end \in Nat
  BY DEF ArchiveOK, PlainPath
<1>3. pack' \in [at : Nat \ {0}, until : Nat, open : SUBSET PlainPath]
  <2>1. path.end + 1 \in Nat \ {0}
    BY <1>2
  <2>2. pack' = [at |-> path.end + 1, until |-> pack.until, open |-> {}]
    BY <1>1 DEF ArchiveOK
  <2>. QED  BY <2>1, <2>2 DEF ArchiveOK
<1>4. ASSUME NEW p \in DOMAIN archive'
      PROVE  archive'[p] \in FileRecord /\ archive'[p].size <= FullSize(archive'[p].entries)
  <2>1. p \in DOMAIN archive
    BY <1>1
  <2>2. archive[p] \in FileRecord /\ FullSize(archive[p].entries) \in Nat
    BY <2>1, SizeNat DEF ArchiveOK, FileRecord
  <2>3. CASE p = path
    <3>1. archive'[p] = [archive[p] EXCEPT !.size = FullSize(archive[p].entries)]
      BY <1>1, <2>1, <2>3
    <3>. QED  BY <2>2, <3>1 DEF FileRecord
  <2>4. CASE p # path
    BY <1>1, <2>1, <2>4 DEF ArchiveOK
  <2>. QED  BY <2>3, <2>4
<1>. QED  BY <1>3, <1>4 DEF ArchiveOK

LEMMA CompressArchiveOK ==
    ASSUME ArchiveOK, Compress
    PROVE  ArchiveOK'
<1>1. PICK path \in DOMAIN archive :
         LET both == Put([path EXCEPT !.ext = "cfxpack.zst"], archive[path])
         IN  \/ archive' = both
             \/ archive' = [p \in DOMAIN both \ {path} |-> both[p]]
  BY DEF Compress
<1>2. pack' = pack
  BY DEF Compress
<1>. QED  BY <1>1, <1>2 DEF ArchiveOK, Put

LEMMA LeaveTmpArchiveOK ==
    ASSUME ArchiveOK, LeaveTmp
    PROVE  ArchiveOK'
<1>1. PICK path \in DOMAIN archive :
         archive' = Put([path EXCEPT !.ext = "cfxpack.tmp"], [archive[path] EXCEPT !.size = 0])
  BY DEF LeaveTmp
<1>2. pack' = pack
  BY DEF LeaveTmp
<1>3. archive[path] \in FileRecord /\ FullSize(archive[path].entries) \in Nat
  BY SizeNat DEF ArchiveOK, FileRecord
<1>4. /\ [archive[path] EXCEPT !.size = 0] \in FileRecord
      /\ [archive[path] EXCEPT !.size = 0].size = 0
      /\ [archive[path] EXCEPT !.size = 0].entries = archive[path].entries
  BY <1>3 DEF FileRecord
<1>. QED  BY <1>1, <1>2, <1>3, <1>4 DEF ArchiveOK, Put

LEMMA WriteStepInv ==
    ASSUME ArchiveInv, WriteStep
    PROVE  ArchiveInv'
<1>1. UNCHANGED reading
  BY DEF WriteStep, StartPack, CreateContainer, FinishContainer, StopPack, Compress, LeaveTmp
<1>2. ReplayOK'
  BY <1>1 DEF ArchiveInv, ReplayOK, reading
<1>3. ASSUME StartPack \/ StopPack
      PROVE  ArchiveOK'
  <2>1. archive' = archive
    BY <1>3 DEF StartPack, StopPack
  <2>2. pack' \in [at : Nat \ {0}, until : Nat, open : SUBSET PlainPath]
    BY <1>3, ArchiveAssumption DEF StartPack, StopPack, NoPack, Epoch
  <2>. QED  BY <2>1, <2>2 DEF ArchiveInv, ArchiveOK
<1>. QED  BY <1>2, <1>3, CreateArchiveOK, FinishArchiveOK, CompressArchiveOK, LeaveTmpArchiveOK
          DEF WriteStep, ArchiveInv

-----------------------------------------------------------------------------
(* Reading *)

LEMMA FunctionIsSeq ==
    ASSUME NEW S, NEW n \in Nat, NEW f \in [1..n -> S]
    PROVE  f \in Seq(S) /\ Len(f) = n
OBVIOUS

LEMMA JoinedSeq ==
    ASSUME NEW S, NEW s \in Seq(S), NEW u \in Seq(S)
    PROVE  /\ s \o u \in Seq(S) /\ Len(s \o u) = Len(s) + Len(u)
           /\ \A i \in 1..Len(s) : (s \o u)[i] = s[i]
           /\ \A i \in 1..Len(u) : (s \o u)[Len(s) + i] = u[i]
OBVIOUS

\* The epochs of a group continue a run that ends right before it.
LEMMA ExecuteSteady ==
    ASSUME NEW epochs \in Seq(Nat \ {0}), Steady(epochs), NEW group \in GroupRecord,
           epochs # <<>> => Last(epochs) = group.start - 1
    PROVE  LET more == epochs \o [i \in 1..group.count |-> group.start + i - 1]
           IN  /\ more \in Seq(Nat \ {0}) /\ Steady(more) /\ more # <<>>
               /\ Last(more) = EndOf(group)
<1> DEFINE new  == [i \in 1..group.count |-> group.start + i - 1]
           more == epochs \o new
<1>1. group.start \in Nat \ {0} /\ group.count \in Nat \ {0}
  BY DEF GroupRecord
<1>2. new \in Seq(Nat \ {0}) /\ Len(new) = group.count
  <2>1. \A i \in 1..group.count : group.start + i - 1 \in Nat \ {0}
    BY <1>1
  <2>2. new \in [1..group.count -> Nat \ {0}]
    BY <2>1
  <2> HIDE DEF new
  <2>. QED  BY <1>1, <2>2, FunctionIsSeq
<1>3. \A i \in 1..group.count : new[i] = group.start + i - 1
  OBVIOUS
<1> HIDE DEF new
<1>4. /\ Len(epochs) \in Nat /\ (epochs # <<>> => Len(epochs) # 0)
      /\ more \in Seq(Nat \ {0}) /\ Len(more) = Len(epochs) + Len(new)
      /\ \A i \in 1..Len(epochs) : more[i] = epochs[i]
      /\ \A i \in 1..Len(new) : more[Len(epochs) + i] = new[i]
  <2> DEFINE S == Nat \ {0}
  <2>1. epochs \in Seq(S) /\ new \in Seq(S)
    BY <1>2
  <2>2. Len(epochs) \in Nat /\ (epochs # <<>> => Len(epochs) # 0)
    BY EmptySeq
  <2> HIDE DEF S
  <2>3. /\ more \in Seq(S) /\ Len(more) = Len(epochs) + Len(new)
        /\ \A i \in 1..Len(epochs) : more[i] = epochs[i]
        /\ \A i \in 1..Len(new) : more[Len(epochs) + i] = new[i]
    BY <2>1, JoinedSeq
  <2>. QED  BY <2>2, <2>3 DEF S
<1> HIDE DEF more
<1>5. /\ Len(more) = Len(epochs) + group.count
      /\ \A i \in 1..Len(epochs) : more[i] = epochs[i]
      /\ \A i \in 1..group.count : more[Len(epochs) + i] = group.start + i - 1
  BY <1>2, <1>3, <1>4
<1>6. epochs # <<>> => epochs[Len(epochs)] = group.start - 1
  BY DEF Last
<1>7. ASSUME NEW i \in 1..(Len(more) - 1)
      PROVE  more[i + 1] = more[i] + 1
  <2>1. i \in Nat \ {0}
    OBVIOUS
  <2>2. CASE i < Len(epochs)
    <3>1. /\ i \in 1..(Len(epochs) - 1)
          /\ i \in 1..Len(epochs) /\ i + 1 \in 1..Len(epochs)
      BY <1>4, <1>5, <2>1, <2>2
    <3>2. more[i] = epochs[i] /\ more[i + 1] = epochs[i + 1]
      BY <1>5, <3>1
    <3>. QED  BY <3>1, <3>2 DEF Steady
  <2>3. CASE i = Len(epochs)
    <3>1. more[i] = group.start - 1
      BY <1>4, <1>5, <1>6, <2>1, <2>3
    <3>2. more[i + 1] = group.start
      <4>1. 1 \in 1..group.count
        BY <1>1
      <4>2. more[Len(epochs) + 1] = group.start + 1 - 1
        BY <1>5, <4>1
      <4>. QED  BY <1>1, <2>3, <4>2
    <3>. QED  BY <1>1, <3>1, <3>2
  <2>4. CASE i > Len(epochs)
    <3>1. i - Len(epochs) \in 1..group.count /\ i + 1 - Len(epochs) \in 1..group.count
      <4>1. Len(epochs) \in Nat /\ group.count \in Nat
        BY <1>1, <1>4
      <4>2. i < Len(epochs) + group.count
        BY <1>5, <2>1, <4>1
      <4>. QED  BY <2>1, <2>4, <4>1, <4>2
    <3>2. /\ more[Len(epochs) + (i - Len(epochs))] = group.start + (i - Len(epochs)) - 1
          /\ more[Len(epochs) + (i + 1 - Len(epochs))] = group.start + (i + 1 - Len(epochs)) - 1
      BY <1>5, <3>1
    <3>3. Len(epochs) + (i - Len(epochs)) = i /\ Len(epochs) + (i + 1 - Len(epochs)) = i + 1
      BY <1>4, <2>1
    <3>. QED  BY <1>1, <1>4, <2>1, <3>2, <3>3
  <2>. QED  BY <1>4, <2>1, <2>2, <2>3, <2>4
<1>8. Last(more) = EndOf(group)
  <2>1. more[Len(epochs) + group.count] = group.start + group.count - 1
    <3>1. group.count \in 1..group.count
      BY <1>1
    <3>. QED  BY <1>5, <3>1
  <2>. QED  BY <1>5, <2>1 DEF Last, EndOf
<1>9. more # <<>>
  BY <1>1, <1>4, <1>5, EmptySeq
<1>. QED  BY <1>4, <1>7, <1>8, <1>9 DEF Steady, more, new

LEMMA OpenReplayOK ==
    ASSUME ArchiveInv, OpenFile
    PROVE  ReplayOK'
<1>1. UNCHANGED <<next_expected, resume_height, executed, checkpoint>> /\ pc = "reading"
  BY DEF OpenFile
<1>2. \/ UNCHANGED <<entries, opened>>
      \/ \E path \in DOMAIN archive : /\ Parses(archive[path])
                                      /\ entries' = archive[path].entries
                                      /\ opened' = {archive[path]}
  BY DEF OpenFile
<1>3. entries' \in Seq(GroupRecord)
  BY <1>2 DEF ArchiveInv, ArchiveOK, ReplayOK, FileRecord
<1>4. \A file \in opened' : /\ file \in FileRecord /\ Parses(file)
                            /\ file.size <= FullSize(file.entries)
  BY <1>2 DEF ArchiveInv, ArchiveOK, ReplayOK
<1>. QED  BY <1>1, <1>3, <1>4 DEF ArchiveInv, ReplayOK

LEMMA ReadReplayOK ==
    ASSUME ArchiveInv, ReadGroup
    PROVE  ReplayOK'
<1> DEFINE group == Head(entries)
<1>1. /\ pc = "reading" /\ entries # <<>> /\ entries' = Tail(entries)
      /\ UNCHANGED <<opened, resume_height, checkpoint>>
  BY DEF ReadGroup
<1>2. group \in GroupRecord /\ entries' \in Seq(GroupRecord)
  BY <1>1, HeadTailProperties DEF ArchiveInv, ReplayOK
<1>3. CASE UNCHANGED <<next_expected, executed>>
  BY <1>1, <1>2, <1>3 DEF ArchiveInv, ReplayOK
<1>4. CASE /\ Contiguous(group.start, next_expected, resume_height)
           /\ executed' = executed \o [i \in 1..group.count |-> group.start + i - 1]
           /\ next_expected' = {EndOf(group) + 1}
  <2>1. executed \in Seq(Nat \ {0}) /\ Steady(executed)
    BY DEF ArchiveInv, ReplayOK
  <2>2. ASSUME executed # <<>>
        PROVE  Last(executed) = group.start - 1
    <3>1. Last(executed) \in Nat \ {0} /\ group.start \in Nat
      BY <1>2, <2>1, <2>2, EmptySeq DEF Last, GroupRecord
    <3>2. CASE next_expected # {}
      BY <1>4, <3>1, <3>2 DEF Contiguous, ArchiveInv, ReplayOK
    <3>3. CASE next_expected = {}
      <4>1. resume_height = Last(executed)
        BY <1>1, <2>2, <3>3 DEF ArchiveInv, ReplayOK, HeightOf
      <4>. QED  BY <1>4, <3>1, <3>3, <4>1 DEF Contiguous
    <3>. QED  BY <3>2, <3>3
  <2>3. /\ executed' \in Seq(Nat \ {0}) /\ Steady(executed') /\ executed' # <<>>
        /\ Last(executed') = EndOf(group)
    BY <1>2, <1>4, <2>1, <2>2, ExecuteSteady
  <2>4. EndOf(group) \in Nat
    BY <1>2 DEF EndOf, GroupRecord
  <2>5. \E n \in Nat : next_expected' = {n} /\ Last(executed') = n - 1
    <3>1. EndOf(group) + 1 \in Nat /\ EndOf(group) = (EndOf(group) + 1) - 1
      BY <2>4
    <3>. QED  BY <1>4, <2>3, <3>1
  <2>6. next_expected' # {}
    BY <1>4
  <2>. QED  BY <1>1, <1>2, <2>3, <2>5, <2>6 DEF ArchiveInv, ReplayOK
<1>. QED  BY <1>3, <1>4 DEF ReadGroup

LEMMA ReadStepInv ==
    ASSUME ArchiveInv, ReadStep
    PROVE  ArchiveInv'
<1>1. UNCHANGED writing
  BY DEF ReadStep, StartReplay, OpenFile, ReadGroup, WriteCheckpoint, EndReplay, StopReplay
<1>2. ArchiveOK'
  BY <1>1 DEF ArchiveInv, ArchiveOK, writing
<1>3. CASE StartReplay
  <2>1. /\ executed' = checkpoint /\ resume_height' = HeightOf(checkpoint)
        /\ next_expected' = {} /\ entries' = <<>> /\ opened' = {} /\ checkpoint' = checkpoint
    BY <1>3 DEF StartReplay
  <2>. QED  BY <1>2, <2>1 DEF ArchiveInv, ReplayOK, Steady, HeightOf
<1>4. CASE WriteCheckpoint
  BY <1>2, <1>4 DEF WriteCheckpoint, ArchiveInv, ReplayOK
<1>5. CASE EndReplay
  BY <1>2, <1>5 DEF EndReplay, ArchiveInv, ReplayOK
<1>6. CASE StopReplay
  BY <1>2, <1>6 DEF StopReplay, ArchiveInv, ReplayOK
<1>. QED  BY <1>2, <1>3, <1>4, <1>5, <1>6, OpenReplayOK, ReadReplayOK DEF ReadStep, ArchiveInv

LEMMA ArchiveInvariance == Spec => []ArchiveInv
<1>1. ArchiveInv /\ [Next]_avars => ArchiveInv'
  <2> SUFFICES ASSUME ArchiveInv, [Next]_avars
               PROVE  ArchiveInv'
    OBVIOUS
  <2>1. CASE UNCHANGED avars
    BY <2>1 DEF avars, writing, reading, ArchiveInv, ArchiveOK, ReplayOK
  <2>. QED  BY <2>1, WriteStepInv, ReadStepInv DEF Next
<1>. QED  BY <1>1, InitArchiveInv, PTL DEF Spec

-----------------------------------------------------------------------------
\* No epoch is executed twice and none is left out, across files, groups,
\* listings, repacked archives and restarts.
THEOREM ExecutesConsecutivelyAlways == Spec => []ExecutesConsecutively
<1>1. ArchiveInv => ExecutesConsecutively
  BY DEF ArchiveInv, ReplayOK, Steady, ExecutesConsecutively
<1>. QED  BY <1>1, ArchiveInvariance, PTL

\* A file of which the directory parses is whole, at whatever byte a writer
\* may have stopped.
THEOREM OpensWholeFilesOnlyAlways == Spec => []OpensWholeFilesOnly
<1>1. ArchiveInv => OpensWholeFilesOnly
  <2> SUFFICES ASSUME ArchiveInv, NEW file \in opened
               PROVE  file.size = FullSize(file.entries)
    BY DEF OpensWholeFilesOnly
  <2>1. /\ file.entries \in Seq(GroupRecord) /\ file.size \in Nat /\ Parses(file)
        /\ file.size <= FullSize(file.entries)
    BY DEF ArchiveInv, ReplayOK, FileRecord
  <2> DEFINE n == Len(file.entries)
  <2>2. n \in Nat /\ DOMAIN file.entries = 1..n
    BY <2>1
  <2>3. CASE n = 0
    BY <2>1, <2>2, <2>3 DEF Parses, FullSize, HEADER_LEN, DIR_ENTRY_LEN, PAYLOAD_LEN
  <2>4. CASE n # 0
    <3>1. OffsetOf(file.entries, n) + PAYLOAD_LEN <= file.size
      BY <2>1, <2>2, <2>4 DEF Parses
    <3>. QED  BY <2>1, <2>2, <2>4, <3>1
              DEF OffsetOf, FullSize, HEADER_LEN, DIR_ENTRY_LEN, PAYLOAD_LEN
  <2>. QED  BY <2>3, <2>4
<1>. QED  BY <1>1, ArchiveInvariance, PTL

-----------------------------------------------------------------------------
(* The listing *)

\* What collect_files keeps of some of the paths of P: one for each start.
Kept(P) == {f \in UNION {[S -> P] : S \in SUBSET Nat} :
               \A s \in DOMAIN f : f[s].start = s /\ IsCfxpack(f[s])}

LEMMA PreferredIs ==
    ASSUME NEW P, \A p \in P : p.start \in Nat, NEW f \in Kept(P), NEW p \in P
    PROVE  /\ Preferred(f, p) \in Kept(P)
           /\ DOMAIN Preferred(f, p) = DOMAIN f \cup (IF IsCfxpack(p) THEN {p.start} ELSE {})
<1> DEFINE D == DOMAIN f
           E == D \cup {p.start}
           g == [s \in E |-> IF s = p.start THEN p ELSE f[s]]
<1>1. D \in SUBSET Nat /\ f \in [D -> P] /\ \A s \in D : f[s].start = s /\ IsCfxpack(f[s])
  BY DEF Kept
<1>2. E \in SUBSET Nat /\ g \in [E -> P] /\ DOMAIN g = E
  BY <1>1
<1>3. ASSUME IsCfxpack(p)
      PROVE  g \in Kept(P)
  <2>1. \A s \in E : g[s].start = s /\ IsCfxpack(g[s])
    BY <1>1, <1>3
  <2> HIDE DEF g, E
  <2>. QED  BY <1>2, <2>1 DEF Kept
<1>4. \/ IsCfxpack(p) /\ Preferred(f, p) = g
      \/ Preferred(f, p) = f /\ (IsCfxpack(p) => p.start \in D)
  BY DEF Preferred
<1>5. CASE IsCfxpack(p) /\ Preferred(f, p) = g
  BY <1>2, <1>3, <1>5
<1>6. CASE Preferred(f, p) = f /\ (IsCfxpack(p) => p.start \in D)
  BY <1>6
<1>. QED  BY <1>4, <1>5, <1>6

\* The starts among the first n paths of a listing.
Starts(listing, n) == {listing[i].start : i \in {j \in 1..n : IsCfxpack(listing[j])}}

LEMMA ByStartIs ==
    ASSUME NEW P, \A p \in P : p.start \in Nat, NEW listing \in Seq(P)
    PROVE  /\ ByStart(listing) \in Kept(P)
           /\ DOMAIN ByStart(listing) = Starts(listing, Len(listing))
<1> DEFINE N == Len(listing)
           V == Kept(P)
           G == [x \in (1..N) \X V |-> Preferred(x[2], listing[x[1]])]
           R(f) == f = [n \in 0..N |-> IF n = 0 THEN <<>> ELSE Preferred(f[n - 1], listing[n])]
           c == CHOOSE f : R(f)
<1>1. N \in Nat /\ N \in 0..N /\ \A i \in 1..N : listing[i] \in P
  OBVIOUS
<1>2. \A i \in 1..N : \A v \in V : G[<<i, v>>] = Preferred(v, listing[i]) /\ G[<<i, v>>] \in V
  <2>1. \A i \in 1..N : \A v \in V : G[<<i, v>>] = Preferred(v, listing[i])
    OBVIOUS
  <2>2. \A i \in 1..N : \A v \in V : Preferred(v, listing[i]) \in V
    BY <1>1, PreferredIs
  <2> HIDE DEF G, V, N
  <2>. QED  BY <2>1, <2>2, Zenon
<1>3. <<>> \in V
  <2>1. <<>> \in [{} -> P] /\ {} \in SUBSET Nat /\ DOMAIN <<>> = {}
    OBVIOUS
  <2>. QED  BY <2>1 DEF Kept
<1>4. PICK f \in [0..N -> V] : f[0] = <<>> /\ \A i \in 1..N : f[i] = G[<<i, f[i - 1]>>]
  <2> DEFINE v0 == <<>>
  <2>1. N \in Nat /\ v0 \in V /\ \A i \in 1..N : \A v \in V : G[<<i, v>>] \in V
    BY <1>1, <1>2, <1>3
  <2> HIDE DEF N, v0, V, G
  <2>2. Defines(N, V, v0, G)
    BY <2>1, RecursionExists
  <2>. QED  BY <2>2 DEF v0, Defines
<1> HIDE DEF N, V, G
<1>5. R(f)
  <2>1. ASSUME NEW i \in 1..N
        PROVE  f[i] = Preferred(f[i - 1], listing[i])
    <3>1. i - 1 \in 0..N
      BY <1>1
    <3>2. f[i - 1] \in V
      BY <3>1
    <3>. QED  BY <1>2, <1>4, <3>2
  <2>2. f = [n \in 0..N |-> f[n]]
    OBVIOUS
  <2>3. \A n \in 0..N : f[n] = IF n = 0 THEN <<>> ELSE Preferred(f[n - 1], listing[n])
    <3>1. \A n \in 0..N : n = 0 \/ n \in 1..N
      BY <1>1
    <3>. QED  BY <1>4, <2>1, <3>1
  <2>. QED  BY <2>2, <2>3
<1>6. R(c)
  BY <1>5
<1>7. ByStart(listing) = c[N]
  BY DEF ByStart, N
<1> HIDE DEF c
<1>8. c[0] = <<>> /\ \A i \in 1..N : c[i] = Preferred(c[i - 1], listing[i])
  <2>1. \A n \in 0..N : c[n] = IF n = 0 THEN <<>> ELSE Preferred(c[n - 1], listing[n])
    BY <1>6, Zenon
  <2>2. 0 \in 0..N /\ \A i \in 1..N : i \in 0..N /\ i # 0
    BY <1>1
  <2>. QED  BY <2>1, <2>2
<1> DEFINE Good(n) == c[n] \in V /\ DOMAIN c[n] = Starts(listing, n)
           S == {n \in Nat : n <= N => Good(n)}
<1>9. 0 \in S
  <2>1. Starts(listing, 0) = {}
    BY DEF Starts
  <2>2. DOMAIN <<>> = {}
    OBVIOUS
  <2>. QED  BY <1>3, <1>8, <2>1, <2>2
<1>10. ASSUME NEW n \in Nat, n \in S
       PROVE  n + 1 \in S
  <2> SUFFICES ASSUME n + 1 <= N
               PROVE  Good(n + 1)
    OBVIOUS
  <2>1. Good(n) /\ n + 1 \in 1..N /\ (n + 1) - 1 = n
    BY <1>1, <1>10
  <2>2. c[n + 1] = Preferred(c[n], listing[n + 1]) /\ listing[n + 1] \in P
    BY <1>1, <1>8, <2>1
  <2>3. /\ c[n + 1] \in V
        /\ DOMAIN c[n + 1]
             = DOMAIN c[n] \cup (IF IsCfxpack(listing[n + 1]) THEN {listing[n + 1].start} ELSE {})
    <3> DEFINE v == c[n]
               x == listing[n + 1]
    <3>1. v \in Kept(P) /\ x \in P
      BY <2>1, <2>2 DEF V
    <3> HIDE DEF v, x
    <3>2. /\ Preferred(v, x) \in Kept(P)
          /\ DOMAIN Preferred(v, x) = DOMAIN v \cup (IF IsCfxpack(x) THEN {x.start} ELSE {})
      BY <3>1, PreferredIs
    <3>. QED  BY <2>2, <3>2 DEF v, x, V
  <2>4. Starts(listing, n + 1)
          = Starts(listing, n) \cup (IF IsCfxpack(listing[n + 1]) THEN {listing[n + 1].start} ELSE {})
    <3>1. 1..(n + 1) = (1..n) \cup {n + 1}
      OBVIOUS
    <3>. QED  BY <3>1 DEF Starts
  <2>. QED  BY <2>1, <2>3, <2>4
<1>11. N \in S
  <2> HIDE DEF S
  <2>1. Nat \subseteq S
    BY <1>9, <1>10, InductionOnSet
  <2>. QED  BY <1>1, <2>1
<1>12. Good(N)
  BY <1>1, <1>11
<1>. QED  BY <1>7, <1>12 DEF V, N

\* Of an order of the directory: whole paths of it, ascending, one for each start.
LEMMA ListingIs ==
    ASSUME NEW D, IsFiniteSet(D), \A p \in D : p.start \in Nat, NEW listing \in SetToSeqs(D)
    PROVE  LET q == CollectFiles(listing)
           IN  /\ q \in Seq(D) /\ \A i \in 1..Len(q) : IsCfxpack(q[i])
               /\ \A i, j \in 1..Len(q) : i < j => q[i].start < q[j].start
               /\ \A p \in D : IsCfxpack(p) => \E i \in 1..Len(q) : q[i].start = p.start
<1> DEFINE n == Cardinality(D)
<1>1. n \in Nat /\ IsFiniteSet(1..n) /\ Cardinality(1..n) = n
  <2>1. n \in Nat
    BY FS_CardinalityType
  <2> HIDE DEF n
  <2>2. IsFiniteSet(1..n) /\ Cardinality(1..n) = IF 1 > n THEN 0 ELSE n - 1 + 1
    BY <2>1, FS_Interval
  <2>. QED  BY <2>1, <2>2
<1>2. listing \in [1..n -> D] /\ \A i, j \in 1..n : i # j => listing[i] # listing[j]
  BY DEF SetToSeqs
<1>3. listing \in Injection(1..n, D)
  BY <1>2 DEF Injection, IsInjective
<1>4. listing \in Surjection(1..n, D)
  BY <1>1, <1>3, FS_Injection
<1>5. listing \in Seq(D) /\ Len(listing) = n
  <2> HIDE DEF n
  <2>. QED  BY <1>1, <1>2
<1>6. \A p \in D : \E i \in 1..n : listing[i] = p
  BY <1>4 DEF Surjection
<1> HIDE DEF n
<1> DEFINE b == ByStart(listing)
           S == DOMAIN b
           q == CollectFiles(listing)
           m == Cardinality(S)
<1>7. b \in Kept(D) /\ S = Starts(listing, n)
  BY <1>5, ByStartIs
<1>8. S \in SUBSET Nat /\ b \in [S -> D] /\ \A s \in S : b[s].start = s /\ IsCfxpack(b[s])
  BY <1>7 DEF Kept
<1>9. IsFiniteSet(S)
  <2> DEFINE start(i) == listing[i].start
             I == {j \in 1..n : IsCfxpack(listing[j])}
             T == {start(i) : i \in 1..n}
  <2>1. S \in SUBSET T
    BY <1>7 DEF Starts
  <2>2. IsFiniteSet(T)
    <3> DEFINE h == [i \in 1..n |-> start(i)]
    <3>1. h \in Surjection(1..n, T)
      BY DEF Surjection
    <3> HIDE DEF h, T
    <3>. QED  BY <1>1, <3>1, FS_Surjection
  <2> HIDE DEF T
  <2>. QED  BY <2>1, <2>2, FS_Subset
<1> HIDE DEF b, S
<1>10. m \in Nat
  BY <1>9, FS_CardinalityType
<1> HIDE DEF m
<1>11. S \in SUBSET Int
  BY <1>8
<1>12. ASSUME NEW k \in 1..m
       PROVE  Nth(S, k) \in S /\ Rank(S, Nth(S, k)) = k
  BY <1>9, <1>11, RankReaches DEF m
<1>13. q = [k \in 1..m |-> b[Nth(S, k)]]
  <2>1. InOrder(S) = [k \in 1..m |-> Nth(S, k)]
    BY DEF InOrder, m
  <2>2. DOMAIN InOrder(S) = 1..m /\ \A k \in 1..m : InOrder(S)[k] = Nth(S, k)
    BY <2>1
  <2>3. q = [k \in DOMAIN InOrder(S) |-> b[InOrder(S)[k]]]
    BY DEF CollectFiles, b, S
  <2>. QED  BY <2>2, <2>3
<1> HIDE DEF q
<1>14. \A k \in 1..m : b[Nth(S, k)] \in D
  BY <1>8, <1>12
<1>15. q \in Seq(D) /\ Len(q) = m
  BY <1>10, <1>13, <1>14
<1>16. ASSUME NEW i \in 1..m
       PROVE  q[i].start = Nth(S, i) /\ IsCfxpack(q[i])
  BY <1>8, <1>12, <1>13
<1>17. ASSUME NEW i \in 1..m, NEW j \in 1..m, i < j
       PROVE  q[i].start < q[j].start
  <2>1. Nth(S, i) \in S /\ Nth(S, j) \in S /\ Nth(S, i) \in Int /\ Nth(S, j) \in Int
    BY <1>11, <1>12
  <2>2. Rank(S, Nth(S, i)) = i /\ Rank(S, Nth(S, j)) = j
    BY <1>12
  <2>3. CASE Nth(S, j) < Nth(S, i)
    BY <1>9, <1>11, <1>17, <2>1, <2>2, <2>3, RankGrows
  <2>4. CASE Nth(S, j) = Nth(S, i)
    BY <1>17, <2>2, <2>4
  <2>. QED  BY <1>16, <2>1, <2>3, <2>4
<1>18. ASSUME NEW p \in D, IsCfxpack(p)
       PROVE  \E i \in 1..m : q[i].start = p.start
  <2>1. PICK i \in 1..n : listing[i] = p
    BY <1>6
  <2>2. p.start \in S
    BY <1>7, <1>18, <2>1 DEF Starts
  <2>3. Rank(S, p.start) \in 1..m /\ Nth(S, Rank(S, p.start)) = p.start
    BY <1>9, <1>11, <2>2, RankBounds, NthOfRank DEF m
  <2>. QED  BY <1>16, <2>3
<1>. QED  BY <1>15, <1>16, <1>17, <1>18 DEF q

-----------------------------------------------------------------------------
(* What the name of a file tells of it *)

Path == [start : Nat \ {0}, end : Nat, ext : {"cfxpack", "cfxpack.zst", "cfxpack.tmp"}]

\* The groups of a file are those its name tells: all as long as a group is,
\* the last one as long as is left.
Cut(path, groups) ==
    /\ groups # <<>>
    /\ \A i \in 1..Len(groups) : groups[i].start = path.start + (i - 1) * GroupEpochs
    /\ \A i \in 1..(Len(groups) - 1) : groups[i].count = GroupEpochs
    /\ groups[Len(groups)].count <= GroupEpochs
    /\ EndOf(groups[Len(groups)]) = path.end

NamedOK ==
    /\ IsFiniteSet(DOMAIN archive) /\ DOMAIN archive \subseteq Path
    /\ \A path \in DOMAIN archive : Cut(path, archive[path].entries) /\ path.end \in Epoch
    /\ pack.until \in 0..LastEpoch

LEMMA InitNamedOK == Init => NamedOK
<1> SUFFICES ASSUME Init
             PROVE  NamedOK
  OBVIOUS
<1>1. DOMAIN archive = {}
  BY DEF Init
<1>2. IsFiniteSet(DOMAIN archive)
  BY <1>1, FS_EmptySet
<1>3. pack.until \in 0..LastEpoch
  BY ArchiveAssumption DEF Init, NoPack
<1>. QED  BY <1>1, <1>2, <1>3 DEF NamedOK

\* Numbers times the length of a group.
LEMMA Times ==
    ASSUME NEW m \in Nat, NEW n \in Nat, m <= n
    PROVE  /\ m * GroupEpochs \in Nat /\ n * GroupEpochs \in Nat
           /\ m * GroupEpochs <= n * GroupEpochs
           /\ (m + 1) * GroupEpochs = m * GroupEpochs + GroupEpochs
<1>1. GroupEpochs \in Nat
  BY ArchiveAssumption
<1>2. n - m \in Nat
  OBVIOUS
<1>3. m * GroupEpochs \in Nat /\ (n - m) * GroupEpochs \in Nat
  BY <1>1, <1>2
<1>4. n * GroupEpochs = m * GroupEpochs + (n - m) * GroupEpochs
  BY <1>1
<1>5. (m + 1) * GroupEpochs = m * GroupEpochs + GroupEpochs
  BY <1>1
<1>. QED  BY <1>3, <1>4, <1>5

LEMMA GroupsCut ==
    ASSUME pack.at \in Nat \ {0}, pack.until \in 0..LastEpoch, NEW n \in Nat \ {0},
           Groups(n)[n].count > 0
    PROVE  /\ Cut(Named(Groups(n)), Groups(n)) /\ Named(Groups(n)) \in Path
           /\ Named(Groups(n)).end \in Epoch
<1> DEFINE T(i) == (i - 1) * GroupEpochs
           g == Groups(n)
<1>0. GroupEpochs \in Nat \ {0} /\ LastEpoch \in Nat /\ pack.until \in Nat /\ pack.until <= LastEpoch
  BY ArchiveAssumption
<1>1. ASSUME NEW i \in 1..n
      PROVE  T(i) \in Nat /\ T(i) <= T(n) /\ (i < n => T(i) + GroupEpochs <= T(n))
  <2>1. i - 1 \in Nat /\ n - 1 \in Nat /\ i - 1 <= n - 1
    OBVIOUS
  <2>2. T(i) \in Nat /\ T(i) <= T(n)
    BY <2>1, Times
  <2>3. ASSUME i < n
        PROVE  T(i) + GroupEpochs <= T(n)
    <3>1. i \in Nat /\ i <= n - 1
      BY <2>3
    <3>2. i * GroupEpochs <= (n - 1) * GroupEpochs
      BY <2>1, <3>1, Times
    <3>3. ((i - 1) + 1) * GroupEpochs = (i - 1) * GroupEpochs + GroupEpochs
      BY <2>1, Times
    <3>4. (i - 1) + 1 = i
      OBVIOUS
    <3>. QED  BY <3>2, <3>3, <3>4
  <2>. QED  BY <2>2, <2>3
<1>2. \A i \in 1..n : g[i] = [start |-> pack.at + T(i),
                              count |-> Lower(GroupEpochs, pack.until - (pack.at + T(i)) + 1)]
  BY DEF Groups
<1>3. g \in Seq(GroupRecord) /\ Len(g) = n
  BY <1>0, GroupsOK
<1>4. T(1) = 0 /\ 1 \in 1..n /\ n \in 1..n
  BY <1>0
<1> HIDE DEF T, g
<1>5. \A i \in 1..n : /\ g[i].start = pack.at + T(i)
                      /\ g[i].count = Lower(GroupEpochs, pack.until - (pack.at + T(i)) + 1)
  <2> SUFFICES ASSUME NEW i \in 1..n
               PROVE  /\ g[i].start = pack.at + T(i)
                      /\ g[i].count = Lower(GroupEpochs, pack.until - (pack.at + T(i)) + 1)
    OBVIOUS
  <2> DEFINE c == Lower(GroupEpochs, pack.until - (pack.at + T(i)) + 1)
             s == pack.at + T(i)
             r == g[i]
  <2>1. r = [start |-> s, count |-> c]
    BY <1>2
  <2> HIDE DEF c, s, r
  <2>2. r.start = s /\ r.count = c
    BY <2>1
  <2>. QED  BY <2>2 DEF c, s, r
<1>6. pack.at + T(n) <= pack.until /\ T(n) \in Nat
  <2>1. T(n) \in Nat
    BY <1>1, <1>4
  <2>2. Lower(GroupEpochs, pack.until - (pack.at + T(n)) + 1) > 0
    BY <1>4, <1>5 DEF g
  <2>. QED  BY <1>0, <2>1, <2>2 DEF Lower
<1>7. ASSUME NEW i \in 1..(n - 1)
      PROVE  g[i].count = GroupEpochs
  <2>1. i \in 1..n /\ i < n
    OBVIOUS
  <2>2. T(i) \in Nat /\ T(i) + GroupEpochs <= T(n)
    BY <1>1, <2>1
  <2>3. pack.until - (pack.at + T(i)) + 1 > GroupEpochs
    BY <1>0, <1>6, <2>2
  <2>4. g[i].count = Lower(GroupEpochs, pack.until - (pack.at + T(i)) + 1)
    BY <1>5, <2>1
  <2>. QED  BY <2>3, <2>4 DEF Lower
<1>8. /\ g[n].count <= GroupEpochs /\ g[n].count > 0 /\ g[n].count \in Nat
      /\ EndOf(g[n]) <= pack.until /\ EndOf(g[n]) \in Nat \ {0}
  <2>1. /\ g[n].start = pack.at + T(n)
        /\ g[n].count = Lower(GroupEpochs, pack.until - (pack.at + T(n)) + 1)
    BY <1>4, <1>5
  <2>. QED  BY <1>0, <1>6, <2>1 DEF Lower, EndOf
<1>9. Named(g) = [start |-> pack.at, end |-> EndOf(g[n]), ext |-> "cfxpack"]
  <2>1. g[1].start = pack.at
    BY <1>4, <1>5
  <2>. QED  BY <1>3, <2>1 DEF Named
<1>10. Named(g) \in Path /\ Named(g).end \in Epoch /\ Named(g).start = pack.at
       /\ Named(g).end = EndOf(g[n])
  BY <1>0, <1>8, <1>9 DEF Path, Epoch
<1>11. Cut(Named(g), g)
  <2>1. g # <<>>
    BY <1>3
  <2>2. \A i \in 1..Len(g) : g[i].start = Named(g).start + (i - 1) * GroupEpochs
    BY <1>3, <1>5, <1>10 DEF T
  <2>. QED  BY <1>3, <1>7, <1>8, <1>10, <2>1, <2>2 DEF Cut
<1>. QED  BY <1>10, <1>11 DEF g

\* A file more, by a name that tells what is in it.
LEMMA PutNamed ==
    ASSUME NamedOK, NEW path \in Path, NEW content, Cut(path, content.entries), path.end \in Epoch,
           archive' = Put(path, content), pack.until = pack'.until
    PROVE  NamedOK'
<1>1. DOMAIN archive' = DOMAIN archive \cup {path}
  BY DEF Put
<1>2. IsFiniteSet(DOMAIN archive')
  BY <1>1, FS_AddElement DEF NamedOK
<1>3. \A p \in DOMAIN archive' : archive'[p] = IF p = path THEN content ELSE archive[p]
  BY DEF Put
<1>. QED  BY <1>1, <1>2, <1>3 DEF NamedOK, Epoch

LEMMA WriteNamedOK ==
    ASSUME NamedOK, ArchiveOK, WriteStep
    PROVE  NamedOK'
<1>1. CASE StartPack
  BY <1>1, ArchiveAssumption DEF StartPack, NamedOK, Epoch
<1>2. CASE CreateContainer
  <2>1. PICK n \in 1..LastEpoch :
           /\ Groups(n)[n].count > 0
           /\ \E size \in 0..(FullSize(Groups(n)) - 1) :
                 archive' = Put(Named(Groups(n)), [entries |-> Groups(n), size |-> size])
           /\ pack' = [pack EXCEPT !.open = {Named(Groups(n))}]
    BY <1>2 DEF CreateContainer
  <2>2. n \in Nat \ {0}
    BY ArchiveAssumption
  <2>3. /\ Cut(Named(Groups(n)), Groups(n)) /\ Named(Groups(n)) \in Path
        /\ Named(Groups(n)).end \in Epoch
    BY <2>1, <2>2, GroupsCut DEF NamedOK, ArchiveOK
  <2>4. pack'.until = pack.until
    BY <2>1 DEF ArchiveOK
  <2>5. PICK size : archive' = Put(Named(Groups(n)), [entries |-> Groups(n), size |-> size])
    BY <2>1
  <2>. QED  BY <2>3, <2>4, <2>5, PutNamed
<1>3. CASE FinishContainer
  <2>1. PICK path \in pack.open :
           /\ archive' = [archive EXCEPT ![path].size = FullSize(archive[path].entries)]
           /\ pack' = [pack EXCEPT !.at = path.end + 1, !.open = {}]
    BY <1>3 DEF FinishContainer
  <2>2. pack'.until = pack.until
    BY <2>1 DEF ArchiveOK
  <2>3. ASSUME NEW p \in DOMAIN archive'
        PROVE  p \in DOMAIN archive /\ archive'[p].entries = archive[p].entries
    BY <2>1 DEF ArchiveOK, FileRecord
  <2>4. DOMAIN archive' = DOMAIN archive
    BY <2>1
  <2>. QED  BY <2>2, <2>3, <2>4 DEF NamedOK, Epoch
<1>4. CASE StopPack
  BY <1>4, ArchiveAssumption DEF StopPack, NoPack, NamedOK, Epoch
<1>5. CASE Compress
  <2>1. PICK path \in DOMAIN archive :
           LET both == Put([path EXCEPT !.ext = "cfxpack.zst"], archive[path])
           IN  \/ archive' = both
               \/ archive' = [p \in DOMAIN both \ {path} |-> both[p]]
    BY <1>5 DEF Compress
  <2> DEFINE zst == [path EXCEPT !.ext = "cfxpack.zst"]
             both == Put(zst, archive[path])
  <2>2. path \in Path /\ Cut(path, archive[path].entries) /\ path.end \in Epoch
    BY DEF NamedOK
  <2>3. zst \in Path /\ zst.start = path.start /\ zst.end = path.end
    BY <2>2 DEF Path
  <2>4. Cut(zst, archive[path].entries) /\ zst.end \in Epoch
    BY <2>2, <2>3 DEF Cut
  <2>5. DOMAIN both = DOMAIN archive \cup {zst}
    BY DEF Put
  <2>6. \A p \in DOMAIN both : both[p] = IF p = zst THEN archive[path] ELSE archive[p]
    BY DEF Put
  <2>7. IsFiniteSet(DOMAIN both)
    BY <2>5, FS_AddElement DEF NamedOK
  <2>8. pack' = pack
    BY <1>5 DEF Compress
  <2> HIDE DEF zst
  <2>9. \A p \in DOMAIN both : p \in Path /\ Cut(p, both[p].entries) /\ p.end \in Epoch
    BY <2>3, <2>4, <2>5, <2>6 DEF NamedOK
  <2>10. archive' = both \/ archive' = [p \in DOMAIN both \ {path} |-> both[p]]
    BY <2>1 DEF zst
  <2> HIDE DEF both
  <2>11. /\ DOMAIN archive' \in SUBSET DOMAIN both
         /\ \A p \in DOMAIN archive' : archive'[p] = both[p]
    BY <2>10
  <2>12. IsFiniteSet(DOMAIN archive')
    BY <2>7, <2>11, FS_Subset
  <2>. QED  BY <2>8, <2>9, <2>11, <2>12 DEF NamedOK, Epoch
<1>6. CASE LeaveTmp
  <2>1. PICK path \in DOMAIN archive :
           archive' = Put([path EXCEPT !.ext = "cfxpack.tmp"], [archive[path] EXCEPT !.size = 0])
    BY <1>6 DEF LeaveTmp
  <2> DEFINE tmp == [path EXCEPT !.ext = "cfxpack.tmp"]
             content == [archive[path] EXCEPT !.size = 0]
  <2>2. path \in Path /\ Cut(path, archive[path].entries) /\ path.end \in Epoch
    BY DEF NamedOK
  <2>3. tmp \in Path /\ tmp.start = path.start /\ tmp.end = path.end
    BY <2>2 DEF Path
  <2>4. content.entries = archive[path].entries
    BY DEF ArchiveOK, FileRecord
  <2>5. Cut(tmp, content.entries) /\ tmp.end \in Epoch
    BY <2>2, <2>3, <2>4 DEF Cut
  <2>6. pack' = pack
    BY <1>6 DEF LeaveTmp
  <2> HIDE DEF tmp, content
  <2>7. archive' = Put(tmp, content)
    BY <2>1 DEF tmp, content
  <2>. QED  BY <2>3, <2>5, <2>6, <2>7, PutNamed
<1>. QED  BY <1>1, <1>2, <1>3, <1>4, <1>5, <1>6 DEF WriteStep

-----------------------------------------------------------------------------
(* What a replay has before it *)

Undisturbed == ~disturbed /\ Clean /\ ResumeFits

\* Each thing starts right behind the one before it, and so behind all of them.
FilesInLine(paths) ==
    /\ \A i \in 1..(Len(paths) - 1) : paths[i + 1].start = paths[i].end + 1
    /\ \A i, j \in 1..Len(paths) : i < j => paths[i].end < paths[j].start

GroupsInLine(groups) ==
    /\ \A i \in 1..(Len(groups) - 1) : groups[i + 1].start = EndOf(groups[i]) + 1
    /\ \A i, j \in 1..Len(groups) : i < j => EndOf(groups[i]) < groups[j].start

\* The groups a replay has not looked at yet.
Ahead == Range(entries) \cup UNION {Range(archive[path].entries) : path \in Range(queue)}

\* What is still to be read of an archive without a fault is in line, and
\* the group that is expected is its first or the first past the checkpoint.
InLine ==
    /\ Range(queue) \subseteq Listed
    /\ FilesInLine(queue) /\ GroupsInLine(entries)
    /\ entries # <<>> /\ queue # <<>> => queue[1].start = EndOf(entries[Len(entries)]) + 1
    /\ \A i \in 1..Len(entries), j \in 1..Len(queue) : EndOf(entries[i]) < queue[j].start
    /\ \A n \in next_expected : /\ n > resume_height
                                /\ entries # <<>> => entries[1].start = n
                                /\ entries = <<>> /\ queue # <<>> => queue[1].start = n
    /\ next_expected = {} /\ resume_height # 0 =>
          \/ \A group \in Ahead : EndOf(group) <= resume_height
          \/ \E group \in Ahead : group.start = resume_height + 1

TrackOK ==
    /\ queue \in Seq(Path) /\ resume_height \in Nat
    /\ Undisturbed => pc # "refused" /\ (pc = "reading" => InLine)

\* The first of a sequence and the others.
LEMMA HeadAndTail ==
    ASSUME NEW S, NEW s \in Seq(S), s # <<>>
    PROVE  /\ Head(s) = s[1] /\ s[1] \in S /\ Len(s) \in Nat \ {0}
           /\ Tail(s) \in Seq(S) /\ Len(Tail(s)) = Len(s) - 1
           /\ \A i \in 1..(Len(s) - 1) : Tail(s)[i] = s[i + 1]
           /\ Range(s) = {s[1]} \cup Range(Tail(s))
<1>1. Len(s) \in Nat \ {0} /\ s[1] \in S /\ Head(s) = s[1]
  BY EmptySeq
<1>2. Tail(s) \in Seq(S) /\ Len(Tail(s)) = Len(s) - 1
  BY HeadTailProperties
<1>3. \A i \in 1..(Len(s) - 1) : Tail(s)[i] = s[i + 1]
  BY <1>2, HeadTailProperties
<1>4. DOMAIN s = 1..Len(s) /\ DOMAIN Tail(s) = 1..(Len(s) - 1)
  BY <1>2
<1>5. ASSUME NEW x \in Range(s)
      PROVE  x \in {s[1]} \cup Range(Tail(s))
  <2>1. PICK i \in 1..Len(s) : x = s[i]
    BY <1>4 DEF Range
  <2>2. CASE i = 1
    BY <2>1, <2>2
  <2>3. CASE i # 1
    <3>1. i - 1 \in 1..(Len(s) - 1) /\ (i - 1) + 1 = i
      BY <1>1, <2>3
    <3>2. x = Tail(s)[i - 1]
      BY <1>3, <2>1, <3>1
    <3>. QED  BY <1>4, <3>1, <3>2 DEF Range
  <2>. QED  BY <2>2, <2>3
<1>6. ASSUME NEW x \in Range(Tail(s))
      PROVE  x \in Range(s)
  <2>1. PICK i \in 1..(Len(s) - 1) : x = Tail(s)[i]
    BY <1>4 DEF Range
  <2>2. x = s[i + 1] /\ i + 1 \in 1..Len(s)
    BY <1>1, <1>3, <2>1
  <2>. QED  BY <1>4, <2>2 DEF Range
<1>7. s[1] \in Range(s)
  <2>1. 1 \in DOMAIN s
    BY <1>1, <1>4
  <2>. QED  BY <2>1 DEF Range
<1>. QED  BY <1>1, <1>2, <1>3, <1>5, <1>6, <1>7

\* What follows of a file from its name.
LEMMA CutIs ==
    ASSUME NEW path \in Path, NEW groups \in Seq(GroupRecord), Cut(path, groups)
    PROVE  /\ Len(groups) \in Nat \ {0} /\ groups[1].start = path.start
           /\ EndOf(groups[Len(groups)]) = path.end
           /\ GroupsInLine(groups) /\ path.start <= path.end
           /\ \A i \in 1..Len(groups) : /\ groups[i] \in GroupRecord
                                        /\ path.start <= groups[i].start
                                        /\ EndOf(groups[i]) <= path.end
<1> DEFINE n == Len(groups)
           T(i) == (i - 1) * GroupEpochs
<1>0. GroupEpochs \in Nat \ {0} /\ path.start \in Nat \ {0} /\ path.end \in Nat
  BY ArchiveAssumption DEF Path
<1>1. n \in Nat \ {0} /\ \A i \in 1..n : groups[i] \in GroupRecord
  BY EmptySeq DEF Cut
<1>2. \A i \in 1..n : groups[i].start \in Nat \ {0} /\ groups[i].count \in Nat \ {0}
  BY <1>1 DEF GroupRecord
<1> HIDE DEF n
<1>3. ASSUME NEW i \in 1..n, NEW j \in 1..n, i <= j
      PROVE  T(i) \in Nat /\ T(j) \in Nat /\ T(i) <= T(j) /\ (i < j => T(i) + GroupEpochs <= T(j))
  <2>1. i - 1 \in Nat /\ j - 1 \in Nat /\ i - 1 <= j - 1
    BY <1>3
  <2>2. T(i) \in Nat /\ T(j) \in Nat /\ T(i) <= T(j)
    BY <2>1, Times
  <2>3. ASSUME i < j
        PROVE  T(i) + GroupEpochs <= T(j)
    <3>1. i \in Nat /\ i <= j - 1
      BY <2>3
    <3>2. i * GroupEpochs <= (j - 1) * GroupEpochs
      BY <2>1, <3>1, Times
    <3>3. ((i - 1) + 1) * GroupEpochs = (i - 1) * GroupEpochs + GroupEpochs
      BY <2>1, Times
    <3>4. (i - 1) + 1 = i
      OBVIOUS
    <3>. QED  BY <3>2, <3>3, <3>4
  <2>. QED  BY <2>2, <2>3
<1>4. \A i \in 1..n : groups[i].start = path.start + T(i)
  BY DEF Cut, n
<1>5. T(1) = 0 /\ 1 \in 1..n /\ n \in 1..n
  BY <1>0, <1>1
<1>6. ASSUME NEW i \in 1..(n - 1)
      PROVE  /\ i \in 1..n /\ i + 1 \in 1..n /\ T(i + 1) = T(i) + GroupEpochs /\ T(i) \in Nat
             /\ groups[i].count = GroupEpochs
  <2>1. /\ i - 1 \in Nat /\ i - 1 <= i - 1 /\ (i + 1) - 1 = (i - 1) + 1
        /\ i \in 1..n /\ i + 1 \in 1..n
    BY <1>1
  <2>2. ((i - 1) + 1) * GroupEpochs = (i - 1) * GroupEpochs + GroupEpochs
        /\ (i - 1) * GroupEpochs \in Nat
    BY <2>1, Times
  <2>3. groups[i].count = GroupEpochs
    BY DEF Cut, n
  <2>. QED  BY <2>1, <2>2, <2>3
<1>7. groups[n].count <= GroupEpochs /\ EndOf(groups[n]) = path.end
  BY DEF Cut, n
<1> HIDE DEF T
<1>8. groups[1].start = path.start
  BY <1>0, <1>4, <1>5
<1>9. \A i \in 1..(n - 1) : groups[i + 1].start = EndOf(groups[i]) + 1
  <2> SUFFICES ASSUME NEW i \in 1..(n - 1)
               PROVE  groups[i + 1].start = EndOf(groups[i]) + 1
    OBVIOUS
  <2>1. groups[i].start = path.start + T(i) /\ groups[i + 1].start = path.start + T(i + 1)
    BY <1>4, <1>6
  <2>. QED  BY <1>0, <1>6, <2>1 DEF EndOf
<1>10. ASSUME NEW i \in 1..n
       PROVE  /\ groups[i].count <= GroupEpochs /\ T(i) \in Nat
              /\ EndOf(groups[i]) = path.start + T(i) + groups[i].count - 1
  <2>1. groups[i].count <= GroupEpochs
    <3>1. i = n \/ i \in 1..(n - 1)
      BY <1>1
    <3>. QED  BY <1>0, <1>6, <1>7, <3>1
  <2>2. T(i) \in Nat
    BY <1>3
  <2>. QED  BY <1>4, <2>1, <2>2 DEF EndOf
<1>11. ASSUME NEW i \in 1..n, NEW j \in 1..n, i < j
       PROVE  EndOf(groups[i]) < groups[j].start
  <2>1. T(i) + GroupEpochs <= T(j) /\ T(j) \in Nat
    BY <1>3, <1>11
  <2>2. groups[j].start = path.start + T(j)
    BY <1>4
  <2>3. /\ groups[i].count <= GroupEpochs /\ T(i) \in Nat
        /\ EndOf(groups[i]) = path.start + T(i) + groups[i].count - 1
    BY <1>10
  <2>4. groups[i].count \in Nat
    BY <1>2
  <2>. QED  BY <1>0, <2>1, <2>2, <2>3, <2>4, SMTT(30)
<1>12. ASSUME NEW i \in 1..n
       PROVE  path.start <= groups[i].start /\ EndOf(groups[i]) <= path.end
  <2>1. T(i) \in Nat /\ groups[i].start = path.start + T(i)
    BY <1>3, <1>4
  <2>2. CASE i = n
    BY <1>0, <1>7, <2>1, <2>2
  <2>3. CASE i # n
    <3>1. EndOf(groups[i]) < groups[n].start
      BY <1>5, <1>11, <2>3
    <3>2. groups[n].start <= EndOf(groups[n])
      BY <1>2, <1>5 DEF EndOf
    <3>3. groups[n].start \in Nat /\ EndOf(groups[i]) \in Nat
      BY <1>2, <1>5 DEF EndOf
    <3>. QED  BY <1>0, <1>7, <2>1, <3>1, <3>2, <3>3
  <2>. QED  BY <2>2, <2>3
<1>13. path.start <= path.end
  <2>1. path.start <= groups[n].start /\ EndOf(groups[n]) = path.end
    BY <1>5, <1>7, <1>12
  <2>2. groups[n].start <= EndOf(groups[n]) /\ EndOf(groups[n]) \in Nat /\ groups[n].start \in Nat
    BY <1>2, <1>5 DEF EndOf
  <2>. QED  BY <1>0, <2>1, <2>2
<1>14. GroupsInLine(groups)
  BY <1>9, <1>11 DEF GroupsInLine, n
<1>. QED  BY <1>1, <1>7, <1>8, <1>12, <1>13, <1>14 DEF n

\* Two files of the same epochs have their groups at the same epochs.
LEMMA Twins ==
    ASSUME NEW p \in Path, NEW q \in Path, p.start = q.start, p.end = q.end,
           NEW g \in Seq(GroupRecord), NEW h \in Seq(GroupRecord), Cut(p, g), Cut(q, h)
    PROVE  Len(g) <= Len(h) /\ \A i \in 1..Len(g) : g[i].start = h[i].start
<1> DEFINE n == Len(g)
           m == Len(h)
<1>0. GroupEpochs \in Nat \ {0} /\ q.start \in Nat /\ q.end \in Nat
  BY ArchiveAssumption DEF Path
<1>1. /\ n \in Nat \ {0} /\ m \in Nat \ {0} /\ n \in 1..n /\ m \in 1..m
      /\ \A i \in 1..n : g[i] \in GroupRecord
      /\ \A i \in 1..m : h[i] \in GroupRecord
  BY CutIs
<1>2. /\ \A i \in 1..n : g[i].start = p.start + (i - 1) * GroupEpochs
      /\ \A i \in 1..m : h[i].start = q.start + (i - 1) * GroupEpochs
      /\ h[m].count <= GroupEpochs /\ EndOf(h[m]) = q.end /\ EndOf(g[n]) = p.end
  BY DEF Cut
<1> HIDE DEF n, m
<1>3. n <= m
  <2> SUFFICES ASSUME m < n
               PROVE  FALSE
    BY <1>1
  <2> DEFINE a == (m - 1) * GroupEpochs
             b == (n - 1) * GroupEpochs
  <2>1. /\ m - 1 \in Nat /\ n - 1 \in Nat /\ m \in Nat /\ m <= n - 1 /\ (m - 1) + 1 = m
        /\ m - 1 <= m - 1
    BY <1>1
  <2>2. m * GroupEpochs <= b /\ m * GroupEpochs \in Nat /\ b \in Nat
    BY <2>1, Times
  <2>3. ((m - 1) + 1) * GroupEpochs = a + GroupEpochs /\ a \in Nat
    BY <2>1, Times
  <2>4. a + GroupEpochs <= b /\ a \in Nat /\ b \in Nat
    BY <2>1, <2>2, <2>3
  <2>5. g[n].start = q.start + b /\ h[m].start = q.start + a
    BY <1>1, <1>2
  <2>6. /\ g[n].count \in Nat \ {0} /\ h[m].count \in Nat \ {0}
    BY <1>1 DEF GroupRecord
  <2> HIDE DEF a, b
  <2>7. q.end = q.start + b + g[n].count - 1 /\ q.end = q.start + a + h[m].count - 1
    BY <1>2, <2>5 DEF EndOf
  <2>8. h[m].count <= GroupEpochs
    BY <1>2
  <2> DEFINE x == g[n].count
             y == h[m].count
             k == q.start
  <2>9. /\ x \in Nat \ {0} /\ y \in Nat /\ k \in Nat /\ y <= GroupEpochs
        /\ k + b + x - 1 = k + a + y - 1
    BY <1>0, <2>6, <2>7, <2>8
  <2> HIDE DEF x, y, k
  <2>10. y <= GroupEpochs /\ a + y <= b
    BY <1>0, <2>4, <2>9
  <2>. QED  BY <2>4, <2>9, <2>10
<1>4. \A i \in 1..n : i \in 1..m
  BY <1>1, <1>3
<1>. QED  BY <1>2, <1>3, <1>4 DEF n, m

LEMMA FileIs ==
    ASSUME ArchiveOK, NamedOK, NEW path \in DOMAIN archive
    PROVE  /\ path \in Path /\ path.start \in Nat \ {0} /\ path.end \in Epoch
           /\ archive[path].entries \in Seq(GroupRecord)
           /\ Cut(path, archive[path].entries) /\ path.start <= path.end
<1>1. path \in Path /\ path.end \in Epoch /\ Cut(path, archive[path].entries)
  BY DEF NamedOK
<1>2. archive[path].entries \in Seq(GroupRecord)
  BY DEF ArchiveOK, FileRecord
<1>3. path.start \in Nat \ {0}
  BY <1>1 DEF Path
<1>. QED  BY <1>1, <1>2, <1>3, CutIs

\* Two files of a clean archive with the same start are of the same epochs;
\* of any others one is before the other.
LEMMA CleanSpans ==
    ASSUME ArchiveOK, NamedOK, Clean, NEW p \in Listed, NEW q \in Listed
    PROVE  /\ p.start = q.start => p.end = q.end
           /\ p.start < q.start => p.end < q.start
<1>1. /\ p.start \in Nat \ {0} /\ p.end \in Nat /\ p.start <= p.end
      /\ q.start \in Nat \ {0} /\ q.end \in Nat /\ q.start <= q.end
  BY FileIs DEF Listed, Epoch
<1>2. Span(p) = Span(q) \/ Span(p) \cap Span(q) = {}
  BY DEF Clean
<1>3. \A e \in Int : /\ e \in Span(p) <=> p.start <= e /\ e <= p.end
                     /\ e \in Span(q) <=> q.start <= e /\ e <= q.end
  BY <1>1 DEF Span
<1>4. ASSUME p.start = q.start
      PROVE  p.end = q.end
  <2>1. p.start \in Span(p) /\ p.start \in Span(q)
    BY <1>1, <1>3, <1>4
  <2>2. Span(p) = Span(q)
    BY <1>2, <2>1
  <2>3. p.end \in Span(q) /\ q.end \in Span(p)
    BY <1>1, <1>3, <2>2
  <2>. QED  BY <1>1, <1>3, <2>3
<1>5. ASSUME p.start < q.start
      PROVE  p.end < q.start
  <2> SUFFICES ASSUME q.start <= p.end
               PROVE  FALSE
    BY <1>1
  <2>1. q.start \in Span(p) /\ q.start \in Span(q)
    BY <1>1, <1>3, <1>5
  <2>2. p.start \in Span(q)
    BY <1>1, <1>2, <1>3, <2>1
  <2>. QED  BY <1>1, <1>3, <1>5, <2>2
<1>. QED  BY <1>4, <1>5

\* The listing of a clean archive leaves no epoch out.
LEMMA QueueInLine ==
    ASSUME ArchiveOK, NamedOK, Clean,
           NEW q \in Seq(DOMAIN archive), \A i \in 1..Len(q) : IsCfxpack(q[i]),
           \A i, j \in 1..Len(q) : i < j => q[i].start < q[j].start,
           \A p \in Listed : \E i \in 1..Len(q) : q[i].start = p.start
    PROVE  /\ q # <<>> /\ Range(q) \subseteq Listed /\ FilesInLine(q)
           /\ \A p \in Listed : \E f \in Range(q) : f.start = p.start /\ f.end = p.end
<1> DEFINE n == Len(q)
<1>1. n \in Nat /\ DOMAIN q = 1..n /\ \A i \in 1..n : q[i] \in Listed /\ q[i] \in Range(q)
  BY DEF Listed, Range
<1>2. Range(q) \subseteq Listed
  BY <1>1 DEF Range
<1>3. q # <<>>
  <2>1. PICK p \in Listed : TRUE
    BY DEF Clean
  <2>2. PICK i \in 1..n : q[i].start = p.start
    BY <2>1
  <2>. QED  BY <2>2
<1> HIDE DEF n
<1>4. \A p \in Listed : \E i \in 1..n : q[i].start = p.start /\ q[i].end = p.end
  <2> SUFFICES ASSUME NEW p \in Listed
               PROVE  \E i \in 1..n : q[i].start = p.start /\ q[i].end = p.end
    OBVIOUS
  <2>1. PICK i \in 1..n : q[i].start = p.start
    BY DEF n
  <2>2. q[i].end = p.end
    BY <1>1, <2>1, CleanSpans
  <2>. QED  BY <2>1, <2>2
<1>5. ASSUME NEW i \in 1..n, NEW j \in 1..n, i < j
      PROVE  q[i].end < q[j].start
  BY <1>1, <1>5, CleanSpans DEF n
<1>6. ASSUME NEW i \in 1..n
      PROVE  /\ q[i].start \in Nat \ {0} /\ q[i].end \in Nat /\ q[i].start <= q[i].end
             /\ q[i].end \in Epoch
  BY <1>1, FileIs DEF Listed, Epoch
<1>7. ASSUME NEW i \in 1..(n - 1)
      PROVE  q[i + 1].start = q[i].end + 1
  <2>1. i \in 1..n /\ i + 1 \in 1..n /\ i < i + 1
    BY <1>1
  <2> DEFINE e == q[i].end + 1
             k == i + 1
  <2>2. /\ q[i].start \in Nat \ {0} /\ q[i].end \in Nat /\ q[i].start <= q[i].end
        /\ q[k].start \in Nat \ {0} /\ q[k].end \in Nat /\ q[k].start <= q[k].end
        /\ q[k].end \in Epoch /\ q[i].end < q[k].start
    BY <1>5, <1>6, <2>1
  <2>3. LastEpoch \in Nat
    BY ArchiveAssumption
  <2> SUFFICES ASSUME e < q[k].start
               PROVE  FALSE
    BY <2>2
  <2>4. e \in Epoch
    BY <2>2, <2>3 DEF Epoch
  <2>5. /\ q[i] \in Listed /\ q[i].start <= e
        /\ q[k] \in Listed /\ q[k].end >= e
    <3>1. q[i].start <= e /\ q[k].end >= e
      BY <2>2
    <3>2. q[i] \in Listed /\ q[k] \in Listed
      BY <1>1, <2>1
    <3>. QED  BY <3>1, <3>2
  <2>6. PICK p \in Listed : e \in Span(p)
    BY <2>4, <2>5 DEF Clean
  <2>7. PICK j \in 1..n : q[j].start = p.start /\ q[j].end = p.end
    BY <1>4
  <2>8. /\ q[j].start \in Nat /\ q[j].end \in Nat /\ q[j].start <= q[j].end
        /\ q[j].start <= e /\ e <= q[j].end
    BY <1>6, <2>6, <2>7 DEF Span
  <2>9. CASE j <= i
    <3>1. j = i \/ q[j].end < q[i].start
      BY <1>5, <2>1, <2>9
    <3>. QED  BY <2>2, <2>8, <3>1
  <2>10. CASE j = k
    BY <2>2, <2>8, <2>10
  <2>11. CASE j > k
    <3>1. q[k].end < q[j].start
      BY <1>5, <2>1, <2>11
    <3>. QED  BY <2>2, <2>8, <3>1, SMTT(30) DEF Epoch
  <2>. QED  BY <1>1, <2>1, <2>9, <2>10, <2>11
<1>8. FilesInLine(q)
  BY <1>5, <1>7 DEF FilesInLine, n
<1>9. \A p \in Listed : \E f \in Range(q) : f.start = p.start /\ f.end = p.end
  BY <1>1, <1>4
<1>. QED  BY <1>2, <1>3, <1>8, <1>9

-----------------------------------------------------------------------------
(* Steps *)

LEMMA SeqInto ==
    ASSUME NEW S, NEW T, S \subseteq T, NEW s \in Seq(S)
    PROVE  s \in Seq(T)
OBVIOUS

LEMMA StartTrackOK ==
    ASSUME ArchiveInv, NamedOK, StartReplay
    PROVE  TrackOK'
<1>1. /\ archive' = archive /\ entries' = <<>> /\ next_expected' = {}
      /\ resume_height' = HeightOf(checkpoint)
      /\ pc' = IF queue' = <<>> THEN "refused" ELSE "reading"
  BY DEF StartReplay, writing
<1>2. resume_height' \in Nat
  <2>1. checkpoint \in Seq(Nat \ {0})
    BY DEF ArchiveInv, ReplayOK
  <2>2. checkpoint # <<>> => Last(checkpoint) \in Nat
    BY <2>1, EmptySeq DEF Last
  <2>. QED  BY <1>1, <2>2 DEF HeightOf
<1> DEFINE D == DOMAIN archive
           q == queue'
<1>3. PICK listing \in SetToSeqs(D) : q = CollectFiles(listing)
  BY DEF StartReplay
<1>4. \A p \in D : p \in Path /\ p.start \in Nat
  BY FileIs DEF ArchiveInv
<1>5. /\ q \in Seq(D) /\ \A i \in 1..Len(q) : IsCfxpack(q[i])
      /\ \A i, j \in 1..Len(q) : i < j => q[i].start < q[j].start
      /\ \A p \in D : IsCfxpack(p) => \E i \in 1..Len(q) : q[i].start = p.start
  <2>1. IsFiniteSet(D)
    BY DEF NamedOK
  <2> HIDE DEF D, q
  <2>. QED  BY <1>3, <1>4, <2>1, ListingIs
<1>6. q \in Seq(Path)
  BY <1>4, <1>5, SeqInto
<1>7. ASSUME Undisturbed'
      PROVE  pc' # "refused" /\ InLine'
  <2>1. Clean /\ Listed' = Listed
    BY <1>1, <1>7 DEF Undisturbed, Clean, Listed
  <2>2. /\ q # <<>> /\ Range(q) \subseteq Listed /\ FilesInLine(q)
        /\ \A p \in Listed : \E f \in Range(q) : f.start = p.start /\ f.end = p.end
    <3>1. \A p \in Listed : \E i \in 1..Len(q) : q[i].start = p.start
      BY <1>5 DEF Listed
    <3> HIDE DEF q
    <3>. QED  BY <1>5, <2>1, <3>1, QueueInLine DEF ArchiveInv
  <2>3. pc' # "refused"
    BY <1>1, <2>2
  <2>4. /\ GroupsInLine(entries') /\ Len(entries') = 0
        /\ \A i \in 1..Len(entries'), j \in 1..Len(q) : EndOf(entries'[i]) < q[j].start
    BY <1>1 DEF GroupsInLine
  <2>5. Ahead' = UNION {Range(archive[path].entries) : path \in Range(q)}
    BY <1>1 DEF Ahead, Range
  <2>6. ASSUME resume_height' # 0
        PROVE  \/ \A group \in Ahead' : EndOf(group) <= resume_height'
               \/ \E group \in Ahead' : group.start = resume_height' + 1
    <3> DEFINE r == resume_height'
    <3>1. \/ \A p \in Listed : p.end <= r
          \/ \E p \in Listed : \E i \in DOMAIN archive[p].entries :
                archive[p].entries[i].start = r + 1
      BY <1>1, <1>7, <2>1, <2>6 DEF Undisturbed, ResumeFits
    <3>2. CASE \A p \in Listed : p.end <= r
      <4>1. ASSUME NEW group \in Ahead'
            PROVE  EndOf(group) <= r
        <5>1. PICK p \in Range(q) : group \in Range(archive[p].entries)
          BY <2>5
        <5>2. p \in Listed /\ p \in D
          BY <2>2, <5>1 DEF Listed
        <5>3. /\ archive[p].entries \in Seq(GroupRecord) /\ Cut(p, archive[p].entries)
              /\ p \in Path
          BY <5>2, FileIs DEF ArchiveInv
        <5>4. PICK i \in 1..Len(archive[p].entries) : group = archive[p].entries[i]
          BY <5>1, <5>3 DEF Range
        <5>5. EndOf(group) <= p.end /\ group \in GroupRecord
          BY <5>3, <5>4, CutIs
        <5>6. EndOf(group) \in Nat /\ p.end \in Nat /\ p.end <= r
          BY <3>2, <5>2, <5>3, <5>5 DEF EndOf, GroupRecord, Path
        <5>. QED  BY <1>2, <5>5, <5>6
      <4>. QED  BY <4>1
    <3>3. CASE \E p \in Listed : \E i \in DOMAIN archive[p].entries :
                  archive[p].entries[i].start = r + 1
      <4>1. PICK p \in Listed : \E i \in DOMAIN archive[p].entries :
                    archive[p].entries[i].start = r + 1
        BY <3>3
      <4>2. PICK f \in Range(q) : f.start = p.start /\ f.end = p.end
        BY <2>2
      <4> DEFINE g == archive[p].entries
                 h == archive[f].entries
      <4>3. f \in D /\ p \in D
        BY <2>2, <4>2 DEF Listed
      <4>4. /\ p \in Path /\ g \in Seq(GroupRecord) /\ Cut(p, g)
            /\ f \in Path /\ h \in Seq(GroupRecord) /\ Cut(f, h)
        BY <4>3, FileIs DEF ArchiveInv
      <4>5. PICK i \in DOMAIN g : g[i].start = r + 1
        BY <4>1
      <4> HIDE DEF g, h
      <4>6. Len(g) <= Len(h) /\ \A j \in 1..Len(g) : g[j].start = h[j].start
        BY <4>2, <4>4, Twins
      <4>7. i \in 1..Len(g) /\ i \in DOMAIN h
        BY <4>4, <4>5, <4>6
      <4>8. h[i].start = r + 1
        BY <4>5, <4>6, <4>7
      <4>9. h[i] \in Ahead'
        BY <2>5, <4>2, <4>7 DEF h, Range
      <4>. QED  BY <4>8, <4>9
    <3>. QED  BY <3>1, <3>2, <3>3
  <2>. QED  BY <1>1, <2>1, <2>2, <2>3, <2>4, <2>6 DEF InLine
<1>. QED  BY <1>2, <1>6, <1>7 DEF TrackOK

\* What is left of files in line is in line.
LEMMA TailInLine ==
    ASSUME NEW S, NEW s \in Seq(S), s # <<>>
    PROVE  /\ FilesInLine(s) => FilesInLine(Tail(s))
           /\ GroupsInLine(s) => GroupsInLine(Tail(s))
<1> DEFINE n == Len(s)
           u == Tail(s)
<1>1. n \in Nat \ {0} /\ Len(u) = n - 1 /\ \A i \in 1..(n - 1) : u[i] = s[i + 1]
  BY HeadAndTail
<1> HIDE DEF n, u
<1>2. ASSUME NEW i \in 1..(Len(u) - 1)
      PROVE  /\ i + 1 \in 1..(n - 1) /\ u[i] = s[i + 1] /\ u[i + 1] = s[(i + 1) + 1]
  <2>1. i \in 1..(n - 1) /\ i + 1 \in 1..(n - 1)
    BY <1>1
  <2>. QED  BY <1>1, <2>1
<1>3. ASSUME NEW i \in 1..Len(u), NEW j \in 1..Len(u), i < j
      PROVE  /\ i + 1 \in 1..n /\ j + 1 \in 1..n /\ i + 1 < j + 1
             /\ u[i] = s[i + 1] /\ u[j] = s[j + 1]
  BY <1>1, <1>3
<1>4. FilesInLine(s) => FilesInLine(u)
  BY <1>2, <1>3 DEF FilesInLine, n
<1>5. GroupsInLine(s) => GroupsInLine(u)
  BY <1>2, <1>3 DEF GroupsInLine, n
<1>. QED  BY <1>4, <1>5 DEF u

LEMMA OpenTrackOK ==
    ASSUME ArchiveInv, NamedOK, TrackOK, OpenFile
    PROVE  TrackOK'
<1> DEFINE path == Head(queue)
           rest == Tail(queue)
<1>1. /\ pc = "reading" /\ entries = <<>> /\ queue # <<>> /\ queue' = rest
      /\ UNCHANGED <<archive, next_expected, resume_height, disturbed>>
  BY DEF OpenFile, writing
<1>2. /\ path = queue[1] /\ path \in Path /\ Len(queue) \in Nat \ {0}
      /\ rest \in Seq(Path) /\ Len(rest) = Len(queue) - 1
      /\ \A i \in 1..(Len(queue) - 1) : rest[i] = queue[i + 1]
      /\ Range(queue) = {path} \cup Range(rest)
  BY <1>1, HeadAndTail DEF TrackOK
<1>3. resume_height \in Nat
  BY DEF TrackOK
<1> SUFFICES ASSUME Undisturbed'
             PROVE  pc' # "refused" /\ InLine'
  BY <1>1, <1>2, <1>3 DEF TrackOK
<1>4. Undisturbed /\ Clean /\ Listed' = Listed
  BY <1>1 DEF Undisturbed, Clean, Listed, ResumeFits
<1>5. InLine
  BY <1>1, <1>4 DEF TrackOK
<1>6. path \in Listed /\ Range(rest) \subseteq Listed
  BY <1>2, <1>5 DEF InLine
<1>7. path \in DOMAIN archive /\ Parses(archive[path])
  BY <1>4, <1>6 DEF Listed, Clean
<1> DEFINE groups == archive[path].entries
<1>8. /\ groups \in Seq(GroupRecord) /\ Cut(path, groups)
      /\ path.start \in Nat \ {0} /\ path.end \in Nat /\ path.start <= path.end
  BY <1>7, FileIs DEF ArchiveInv, Epoch
<1> HIDE DEF path, rest, groups
<1>9. /\ Len(groups) \in Nat \ {0} /\ groups[1].start = path.start
      /\ EndOf(groups[Len(groups)]) = path.end /\ GroupsInLine(groups)
      /\ \A i \in 1..Len(groups) : /\ groups[i] \in GroupRecord
                                   /\ path.start <= groups[i].start
                                   /\ EndOf(groups[i]) <= path.end
  <2>1. path \in Path
    BY <1>2
  <2>. QED  BY <1>8, <2>1, CutIs
<1>10. FilesInLine(rest)
  BY <1>1, <1>5, TailInLine DEF InLine, rest, TrackOK
<1>11. rest # <<>> => rest[1].start = path.end + 1
  <2> SUFFICES ASSUME rest # <<>>
               PROVE  rest[1].start = path.end + 1
    OBVIOUS
  <2>1. Len(rest) # 0
    BY <1>2, EmptySeq
  <2>2. 1 \in 1..(Len(queue) - 1)
    BY <1>2, <2>1
  <2>3. rest[1] = queue[1 + 1]
    BY <1>2, <2>2
  <2>4. queue[1 + 1].start = queue[1].end + 1
    BY <1>5, <2>2 DEF InLine, FilesInLine
  <2>. QED  BY <1>2, <2>3, <2>4
<1>12. \A j \in 1..Len(rest) : path.end < rest[j].start
  <2> SUFFICES ASSUME NEW j \in 1..Len(rest)
               PROVE  path.end < rest[j].start
    OBVIOUS
  <2>1. /\ j \in 1..(Len(queue) - 1) /\ 1 \in 1..Len(queue) /\ j + 1 \in 1..Len(queue)
        /\ 1 < j + 1
    BY <1>2
  <2>2. rest[j] = queue[j + 1]
    BY <1>2, <2>1
  <2>3. queue[1].end < queue[j + 1].start
    BY <1>5, <2>1 DEF InLine, FilesInLine
  <2>. QED  BY <1>2, <2>2, <2>3
<1>13. Ahead = Range(groups) \cup UNION {Range(archive[p].entries) : p \in Range(rest)}
  <2>1. Range(entries) = {}
    BY <1>1 DEF Range
  <2>2. UNION {Range(archive[p].entries) : p \in {path} \cup Range(rest)}
          = Range(archive[path].entries) \cup UNION {Range(archive[p].entries) : p \in Range(rest)}
    OBVIOUS
  <2>. QED  BY <1>2, <2>1, <2>2 DEF Ahead, groups
<1>14. \A n \in next_expected : n > resume_height /\ path.start = n
  BY <1>1, <1>2, <1>5 DEF InLine
<1>15. \A group \in Range(groups) : group \in GroupRecord /\ EndOf(group) <= path.end
  BY <1>8, <1>9 DEF Range
<1>16. CASE path.end <= resume_height
  <2>1. UNCHANGED <<pc, entries>>
    BY <1>16 DEF OpenFile, path
  <2>2. next_expected = {}
    BY <1>3, <1>8, <1>14, <1>16
  <2>3. Ahead' = UNION {Range(archive[p].entries) : p \in Range(rest)}
    BY <1>1, <2>1 DEF Ahead, Range
  <2>4. ASSUME resume_height # 0
        PROVE  \/ \A group \in Ahead' : EndOf(group) <= resume_height
               \/ \E group \in Ahead' : group.start = resume_height + 1
    <3>1. CASE \A group \in Ahead : EndOf(group) <= resume_height
      BY <1>13, <2>3, <3>1
    <3>2. CASE \E group \in Ahead : group.start = resume_height + 1
      <4>1. PICK group \in Ahead : group.start = resume_height + 1
        BY <3>2
      <4>2. group \notin Range(groups)
        <5> SUFFICES ASSUME group \in Range(groups)
                     PROVE  FALSE
          OBVIOUS
        <5>1. group.start <= EndOf(group) /\ EndOf(group) <= path.end /\ EndOf(group) \in Nat
          BY <1>15 DEF GroupRecord, EndOf
        <5>. QED  BY <1>3, <1>8, <1>16, <4>1, <5>1
      <4>. QED  BY <1>13, <2>3, <4>1, <4>2
    <3>. QED  BY <1>5, <2>2, <2>4, <3>1, <3>2 DEF InLine
  <2>5. /\ GroupsInLine(entries') /\ entries' = <<>> /\ Len(entries') = 0
        /\ \A i \in 1..Len(entries'), j \in 1..Len(rest) : EndOf(entries'[i]) < rest[j].start
    BY <1>1, <1>5, <2>1 DEF InLine
  <2>. QED  BY <1>1, <1>4, <1>6, <1>10, <2>1, <2>2, <2>4, <2>5 DEF InLine
<1>17. CASE ~(path.end <= resume_height)
  <2>1. pc' = pc /\ entries' = groups
    BY <1>7, <1>17 DEF OpenFile, path, groups
  <2>2. Ahead' = Ahead
    BY <1>1, <1>13, <2>1 DEF Ahead
  <2>3. \A i \in 1..Len(groups), j \in 1..Len(rest) : EndOf(groups[i]) < rest[j].start
    <3> SUFFICES ASSUME NEW i \in 1..Len(groups), NEW j \in 1..Len(rest)
                 PROVE  EndOf(groups[i]) < rest[j].start
      OBVIOUS
    <3>1. EndOf(groups[i]) <= path.end /\ path.end < rest[j].start
      BY <1>9, <1>12
    <3>2. EndOf(groups[i]) \in Int /\ rest[j].start \in Int
      <4>1. groups[i] \in GroupRecord /\ rest[j] \in Path
        BY <1>2, <1>9
      <4>. QED  BY <4>1 DEF GroupRecord, EndOf, Path
    <3>. QED  BY <1>8, <3>1, <3>2
  <2>4. groups # <<>>
    BY <1>8 DEF Cut
  <2>5. rest # <<>> => rest[1].start = EndOf(groups[Len(groups)]) + 1
    BY <1>9, <1>11
  <2>6. \A n \in next_expected : n > resume_height /\ groups[1].start = n
    BY <1>9, <1>14
  <2>7. next_expected = {} /\ resume_height # 0 =>
          \/ \A group \in Ahead' : EndOf(group) <= resume_height
          \/ \E group \in Ahead' : group.start = resume_height + 1
    BY <1>5, <2>2 DEF InLine
  <2>. QED  BY <1>1, <1>4, <1>6, <1>9, <1>10, <2>1, <2>3, <2>4, <2>5, <2>6, <2>7 DEF InLine
<1>. QED  BY <1>16, <1>17

LEMMA ReadTrackOK ==
    ASSUME ArchiveInv, NamedOK, TrackOK, ReadGroup
    PROVE  TrackOK'
<1> DEFINE group == Head(entries)
           rest == Tail(entries)
           r == resume_height
<1>1. /\ pc = "reading" /\ entries # <<>> /\ entries' = rest
      /\ UNCHANGED <<archive, queue, resume_height, disturbed>>
  BY DEF ReadGroup, writing
<1>2. /\ group = entries[1] /\ group \in GroupRecord /\ Len(entries) \in Nat \ {0}
      /\ rest \in Seq(GroupRecord) /\ Len(rest) = Len(entries) - 1
      /\ \A i \in 1..(Len(entries) - 1) : rest[i] = entries[i + 1]
      /\ Range(entries) = {group} \cup Range(rest)
  BY <1>1, HeadAndTail DEF ArchiveInv, ReplayOK
<1>3. r \in Nat /\ queue \in Seq(Path)
  BY DEF TrackOK
<1> SUFFICES ASSUME Undisturbed'
             PROVE  pc' # "refused" /\ InLine'
  BY <1>1, <1>3 DEF TrackOK
<1>4. Undisturbed /\ Clean /\ Listed' = Listed
  BY <1>1 DEF Undisturbed, Clean, Listed, ResumeFits
<1>5. InLine
  BY <1>1, <1>4 DEF TrackOK
<1>6. GroupsInLine(rest)
  BY <1>1, <1>5, TailInLine DEF InLine, ArchiveInv, ReplayOK
<1> HIDE DEF group, rest, r
<1>7. /\ group.start \in Nat \ {0} /\ EndOf(group) \in Nat /\ group.start <= EndOf(group)
  BY <1>2 DEF GroupRecord, EndOf
<1> DEFINE Others == Range(rest) \cup UNION {Range(archive[p].entries) : p \in Range(queue)}
<1>8. Ahead = {group} \cup Others /\ Ahead' = Others
  BY <1>1, <1>2 DEF Ahead
<1>9. rest # <<>> => /\ Len(rest) \in Nat \ {0} /\ rest[1].start = EndOf(group) + 1
                     /\ rest[Len(rest)] = entries[Len(entries)]
  <2> SUFFICES ASSUME rest # <<>>
               PROVE  /\ Len(rest) \in Nat \ {0} /\ rest[1].start = EndOf(group) + 1
                      /\ rest[Len(rest)] = entries[Len(entries)]
    OBVIOUS
  <2>1. Len(rest) \in Nat \ {0}
    BY <1>2, EmptySeq
  <2>2. /\ 1 \in 1..(Len(entries) - 1) /\ Len(rest) \in 1..(Len(entries) - 1)
        /\ Len(rest) + 1 = Len(entries)
    BY <1>2, <2>1
  <2>3. rest[1] = entries[1 + 1] /\ rest[Len(rest)] = entries[Len(rest) + 1]
    BY <1>2, <2>2
  <2>4. entries[1 + 1].start = EndOf(entries[1]) + 1
    BY <1>5, <2>2 DEF InLine, GroupsInLine
  <2>. QED  BY <1>2, <2>1, <2>2, <2>3, <2>4
<1>10. queue # <<>> => /\ rest # <<>> => queue[1].start = EndOf(rest[Len(rest)]) + 1
                       /\ rest = <<>> => queue[1].start = EndOf(group) + 1
  <2> SUFFICES ASSUME queue # <<>>
               PROVE  /\ rest # <<>> => queue[1].start = EndOf(rest[Len(rest)]) + 1
                      /\ rest = <<>> => queue[1].start = EndOf(group) + 1
    OBVIOUS
  <2>1. queue[1].start = EndOf(entries[Len(entries)]) + 1
    BY <1>1, <1>5 DEF InLine
  <2>2. rest = <<>> => Len(entries) = 1
    BY <1>2
  <2>. QED  BY <1>2, <1>9, <2>1, <2>2
<1>11. \A i \in 1..Len(rest), j \in 1..Len(queue) : EndOf(rest[i]) < queue[j].start
  <2> SUFFICES ASSUME NEW i \in 1..Len(rest), NEW j \in 1..Len(queue)
               PROVE  EndOf(rest[i]) < queue[j].start
    OBVIOUS
  <2>1. i \in 1..(Len(entries) - 1) /\ i + 1 \in 1..Len(entries)
    BY <1>2
  <2>2. rest[i] = entries[i + 1]
    BY <1>2, <2>1
  <2>. QED  BY <1>5, <2>1, <2>2 DEF InLine
<1>12. \A other \in Others : EndOf(group) < other.start
  <2> SUFFICES ASSUME NEW other \in Others
               PROVE  EndOf(group) < other.start
    OBVIOUS
  <2>1. 1 \in 1..Len(entries)
    BY <1>2
  <2>2. CASE other \in Range(rest)
    <3>1. PICK i \in 1..Len(rest) : other = rest[i]
      BY <1>2, <2>2 DEF Range
    <3>2. /\ i \in 1..(Len(entries) - 1) /\ i + 1 \in 1..Len(entries) /\ 1 < i + 1
      BY <1>2
    <3>3. rest[i] = entries[i + 1]
      BY <1>2, <3>2
    <3>4. EndOf(entries[1]) < entries[i + 1].start
      BY <1>5, <2>1, <3>2 DEF InLine, GroupsInLine
    <3>. QED  BY <1>2, <3>1, <3>3, <3>4
  <2>3. CASE other \in UNION {Range(archive[p].entries) : p \in Range(queue)}
    <3>1. PICK p \in Range(queue) : other \in Range(archive[p].entries)
      BY <2>3
    <3>2. PICK j \in 1..Len(queue) : p = queue[j]
      BY <1>3, <3>1 DEF Range
    <3>3. EndOf(group) < p.start
      BY <1>2, <1>5, <2>1, <3>2 DEF InLine
    <3>4. p \in DOMAIN archive
      BY <1>5, <3>1 DEF InLine, Listed
    <3>5. /\ p \in Path /\ p.start \in Nat \ {0} /\ archive[p].entries \in Seq(GroupRecord)
          /\ Cut(p, archive[p].entries)
      BY <3>4, FileIs DEF ArchiveInv
    <3>6. PICK i \in 1..Len(archive[p].entries) : other = archive[p].entries[i]
      BY <3>1, <3>5 DEF Range
    <3>7. other \in GroupRecord /\ p.start <= other.start
      BY <3>5, <3>6, CutIs
    <3>8. other.start \in Nat
      BY <3>7 DEF GroupRecord
    <3>. QED  BY <1>7, <3>3, <3>5, <3>7, <3>8
  <2>. QED  BY <2>2, <2>3
<1>13. \A n \in next_expected : n > r /\ group.start = n
  BY <1>1, <1>2, <1>5 DEF InLine, r
<1> HIDE DEF Others
<1>14. next_expected = {} /\ r # 0 => \/ \A g \in Ahead : EndOf(g) <= r
                                      \/ \E g \in Ahead : g.start = r + 1
  BY <1>5 DEF InLine, r
<1>15. /\ Range(queue) \subseteq Listed /\ FilesInLine(queue)
  BY <1>5 DEF InLine
<1>16. CASE EndOf(group) <= r
  <2>1. UNCHANGED <<pc, next_expected>>
    BY <1>16 DEF ReadGroup, group, r
  <2>2. next_expected = {}
    BY <1>3, <1>7, <1>13, <1>16
  <2>3. r # 0 => \/ \A g \in Ahead' : EndOf(g) <= r
                 \/ \E g \in Ahead' : g.start = r + 1
    <3>1. group.start # r + 1
      BY <1>3, <1>7, <1>16
    <3>. QED  BY <1>8, <1>14, <2>2, <3>1
  <2>. QED  BY <1>1, <1>4, <1>6, <1>10, <1>11, <1>15, <2>1, <2>2, <2>3 DEF InLine, r
<1>17. CASE ~(EndOf(group) <= r)
  <2>1. Contiguous(group.start, next_expected, r)
    <3>1. CASE next_expected # {}
      BY <1>13, <3>1 DEF Contiguous
    <3>2. CASE next_expected = {} /\ r = 0
      BY <3>2 DEF Contiguous
    <3>3. CASE next_expected = {} /\ r # 0
      <4>1. PICK g \in Ahead : g.start = r + 1
        BY <1>8, <1>14, <1>17, <3>3
      <4>2. g = group
        <5> SUFFICES ASSUME g \in Others
                     PROVE  FALSE
          BY <1>8
        <5>1. EndOf(group) < r + 1
          BY <1>12, <4>1
        <5>. QED  BY <1>3, <1>7, <1>17, <5>1
      <4>. QED  BY <3>3, <4>1, <4>2 DEF Contiguous
    <3>. QED  BY <3>1, <3>2, <3>3
  <2>2. pc' = pc /\ next_expected' = {EndOf(group) + 1}
    BY <1>17, <2>1 DEF ReadGroup, group, r
  <2>3. \A n \in next_expected' : /\ n > r
                                  /\ rest # <<>> => rest[1].start = n
                                  /\ rest = <<>> /\ queue # <<>> => queue[1].start = n
    <3>1. EndOf(group) + 1 > r
      BY <1>3, <1>7, <1>17
    <3>. QED  BY <1>9, <1>10, <2>2, <3>1
  <2>4. next_expected' # {}
    BY <2>2
  <2>. QED  BY <1>1, <1>4, <1>6, <1>10, <1>11, <1>15, <2>2, <2>3, <2>4 DEF InLine, r
<1>. QED  BY <1>16, <1>17

LEMMA InitTrackOK == Init => TrackOK
BY DEF Init, TrackOK

LEMMA WriteTrackOK ==
    ASSUME TrackOK, WriteStep
    PROVE  TrackOK'
<1>1. UNCHANGED reading
  BY DEF WriteStep, StartPack, CreateContainer, FinishContainer, StopPack, Compress, LeaveTmp
<1>2. queue' \in Seq(Path) /\ resume_height' \in Nat
  BY <1>1 DEF reading, TrackOK
<1>3. disturbed' = TRUE \/ UNCHANGED <<archive, disturbed>>
  BY DEF WriteStep, StartPack, CreateContainer, FinishContainer, StopPack, Compress, LeaveTmp
<1>4. CASE disturbed' = TRUE
  BY <1>2, <1>4 DEF TrackOK, Undisturbed
<1>5. CASE UNCHANGED <<archive, disturbed>>
  BY <1>1, <1>2, <1>5 DEF reading, TrackOK, Undisturbed, Clean, ResumeFits, Listed, InLine, Ahead
<1>. QED  BY <1>3, <1>4, <1>5

LEMMA ReadStepTrackOK ==
    ASSUME ArchiveInv, NamedOK, TrackOK, ReadStep
    PROVE  TrackOK'
<1>1. CASE WriteCheckpoint \/ EndReplay
  <2>1. /\ UNCHANGED <<archive, queue, entries, next_expected, resume_height, disturbed>>
        /\ pc = "reading" /\ pc' \in {"reading", "done"}
    BY <1>1 DEF WriteCheckpoint, EndReplay, writing
  <2>2. Undisturbed' = Undisturbed /\ InLine' = InLine
    BY <2>1 DEF Undisturbed, Clean, ResumeFits, Listed, InLine, Ahead
  <2>. QED  BY <2>1, <2>2 DEF TrackOK
<1>2. CASE StopReplay
  BY <1>2 DEF StopReplay, TrackOK
<1>. QED  BY <1>1, <1>2, StartTrackOK, OpenTrackOK, ReadTrackOK DEF ReadStep

LEMMA TrackInvariance == Spec => [](NamedOK /\ TrackOK)
<1>1. ArchiveInv /\ NamedOK /\ TrackOK /\ [Next]_avars => (NamedOK /\ TrackOK)'
  <2> SUFFICES ASSUME ArchiveInv, NamedOK, TrackOK, [Next]_avars
               PROVE  NamedOK' /\ TrackOK'
    OBVIOUS
  <2>1. CASE UNCHANGED avars
    BY <2>1 DEF avars, writing, reading, NamedOK, TrackOK, Undisturbed, Clean, ResumeFits,
                Listed, InLine, Ahead
  <2>2. CASE WriteStep
    BY <2>2, WriteNamedOK, WriteTrackOK DEF ArchiveInv
  <2>3. CASE ReadStep
    <3>1. UNCHANGED writing
      BY <2>3 DEF ReadStep, StartReplay, OpenFile, ReadGroup, WriteCheckpoint, EndReplay, StopReplay
    <3>2. NamedOK'
      BY <3>1 DEF writing, NamedOK
    <3>. QED  BY <2>3, <3>2, ReadStepTrackOK
  <2>. QED  BY <2>1, <2>2, <2>3 DEF Next
<1>. QED  BY <1>1, ArchiveInvariance, InitNamedOK, InitTrackOK, PTL DEF Spec

-----------------------------------------------------------------------------
\* A replay of a clean archive is not refused: validate_contiguity accepts each
\* group collect_files leads to, from the start or from behind a checkpoint, and
\* whichever of a plain and a compressed file of the same epochs is listed.
THEOREM CleanArchiveReplaysAlways == Spec => []CleanArchiveReplays
<1>1. TrackOK => CleanArchiveReplays
  BY DEF TrackOK, Undisturbed, CleanArchiveReplays
<1>. QED  BY <1>1, TrackInvariance, PTL
=============================================================================
