------------------------- MODULE DurableStoreProofs --------------------------
(***************************************************************************)
(* The durable cycle store keeps its promises for every number of          *)
(* processes, cycles, transactions and deaths.  Two of them depend on      *)
(* which write fails, and the theorems say on which:                       *)
(*                                                                         *)
(*   - evidence is consumed once, and the index covers every journal, as   *)
(*     long as no index write of a commit throws: a commit that dies there *)
(*     leaves nothing behind, one that throws leaves the evidence in the   *)
(*     memory of the process only;                                         *)
(*   - the journals of one process are append-only as long as no journal   *)
(*     write throws.                                                       *)
(*                                                                         *)
(* Both rest on the lock: while a process is between two writes, nobody    *)
(* else changes what it checked.                                           *)
(***************************************************************************)
EXTENDS DurableStore, SequenceTheorems, TLAPS

Transaction == [cycle : Cycle, base : Seq(Entry), effect : Effects]

Busy == {"index", "journal", "archiveIndex", "archiveUnlink"}

DiskTyped ==
    /\ index \in Index /\ active \in [Cycle -> Seq(Entry)] /\ archive \in [Cycle -> Seq(Entry)]

MemoryTyped ==
    /\ seen \in [Process -> Index] /\ hot \in [Process -> [Cycle -> Seq(Entry)]]
    /\ hotOwner \in [Process -> [Evidence -> Owner]] /\ activeIds \in [Process -> SUBSET Cycle]

PendingTyped == pending \in [Process -> SUBSET Transaction]

PlacesTyped ==
    /\ phase \in [Process -> Phases] /\ current \in [Process -> Owner]
    /\ lock \in Process \cup {NoProcess} /\ failures \in 0..MaxFailures

\* A process between two writes owns the lock and works on a cycle.
LockHeld == \A p \in Process : phase[p] \in Busy => lock = p /\ current[p] \in Cycle

Typing == DiskTyped /\ MemoryTyped /\ PendingTyped /\ PlacesTyped /\ LockHeld

-----------------------------------------------------------------------------
(* Typing *)

LEMMA EmptyIndexType == EmptyIndex \in Index
BY DEF EmptyIndex, Index, Owner

LEMMA NothingHotType == NothingHot \in [Cycle -> Seq(Entry)]
<1>1. << >> \in Seq(Entry)
  OBVIOUS
<1> QED BY <1>1 DEF NothingHot

\* What a transaction stages leaves an index.
LEMMA ApplyType ==
    ASSUME NEW ix \in Index, NEW c \in Cycle, NEW effect \in Effects
    PROVE  ApplyToIndex(ix, c, effect) \in Index
<1>1. effect.kind \in {"none", "consume", "reserve", "replace", "release"}
  BY DEF Effects
<1>2. CASE effect.kind = "none"
  BY <1>2 DEF ApplyToIndex
<1>3. CASE effect.kind = "consume"
  BY <1>3 DEF ApplyToIndex, Effects, Index, Owner
<1>4. CASE effect.kind \in {"reserve", "replace"}
  BY <1>4 DEF ApplyToIndex, Effects, Index, Owner
<1>5. CASE effect.kind = "release"
  BY <1>5 DEF ApplyToIndex, Effects, Index, Owner
<1> QED BY <1>1, <1>2, <1>3, <1>4, <1>5

\* Only evidence is consumed.
LEMMA UsesType ==
    ASSUME NEW effect \in Effects
    PROVE  Uses(effect) \subseteq Evidence
BY DEF Uses, Effects

LEMMA EvidenceOfType ==
    ASSUME NEW ix \in Index, NEW ids
    PROVE  EvidenceOf(ix, ids) \in [Evidence -> Owner]
BY DEF EvidenceOf, Index, Owner

LEMMA InitTypes == Init => Typing
<1> SUFFICES ASSUME Init PROVE Typing
  OBVIOUS
<1>1. EmptyIndex.owner \in [Evidence -> Owner]
  BY DEF EmptyIndex, Owner
<1>2. PendingTyped
  BY DEF Init, PendingTyped
<1>3. PlacesTyped /\ LockHeld
  BY StoreAssumption DEF Init, PlacesTyped, LockHeld, Phases, Busy, Owner
<1>4. DiskTyped /\ MemoryTyped
  BY <1>1, EmptyIndexType, NothingHotType DEF Init, DiskTyped, MemoryTyped
<1> QED BY <1>2, <1>3, <1>4 DEF Typing

\* Everything that happens under the lock is one of these.
LEMMA Steps ==
    ASSUME [Next]_vars
    PROVE  \/ UNCHANGED vars
           \/ \E p \in Process :
                \/ Open(p) \/ Crash(p) \/ ReadGlobalKey(p)
                \/ \E c \in Cycle, effect \in Effects : Begin(p, c, effect)
                \/ \E c \in Cycle, effect \in Effects : ChangeGlobalKey(p, c, effect)
                \/ \E t \in pending[p] : Commit(p, t)
                \/ \E t \in pending[p] : RefuseCommit(p, t) \/ Contend(p, t)
                \/ WriteIndex(p) \/ WriteJournal(p) \/ FailWrite(p)
                \/ \E c \in Cycle : ArchiveCycle(p, c)
                \/ ArchiveIndex(p) \/ ArchiveUnlink(p)
BY Zenon DEF Next

LEMMA StepPlaces ==
    ASSUME Typing, [Next]_vars
    PROVE  PlacesTyped' /\ LockHeld'
<1> USE StoreAssumption DEF Typing, PlacesTyped, LockHeld
<1>1. ASSUME NEW p \in Process, Open(p) PROVE PlacesTyped' /\ LockHeld'
  BY <1>1 DEF Open, Phases, Busy
<1>2. ASSUME NEW p \in Process, Crash(p) PROVE PlacesTyped' /\ LockHeld'
  BY <1>2 DEF Crash, Phases, Busy, Owner
<1>3. ASSUME NEW p \in Process, ReadGlobalKey(p) PROVE PlacesTyped' /\ LockHeld'
  BY <1>3, Zenon DEF ReadGlobalKey
<1>4. ASSUME NEW p \in Process, NEW c \in Cycle, NEW effect \in Effects,
             Begin(p, c, effect) \/ ChangeGlobalKey(p, c, effect)
      PROVE  PlacesTyped' /\ LockHeld'
  BY <1>4, Zenon DEF Begin, ChangeGlobalKey
<1>5. ASSUME NEW p \in Process, NEW t \in pending[p], Commit(p, t) PROVE PlacesTyped' /\ LockHeld'
  <2>1. t.cycle \in Cycle
    BY DEF PendingTyped, Transaction
  <2> QED BY <1>5, <2>1 DEF Commit, Locked, Phases, Busy, Owner
<1>6. ASSUME NEW p \in Process, NEW t \in pending[p], RefuseCommit(p, t) \/ Contend(p, t)
      PROVE  PlacesTyped' /\ LockHeld'
  BY <1>6, Zenon DEF RefuseCommit, Contend
<1>7. ASSUME NEW p \in Process, WriteIndex(p) \/ ArchiveIndex(p) PROVE PlacesTyped' /\ LockHeld'
  BY <1>7 DEF WriteIndex, ArchiveIndex, Phases, Busy
<1>8. ASSUME NEW p \in Process, WriteJournal(p) \/ ArchiveUnlink(p) PROVE PlacesTyped' /\ LockHeld'
  <2>1. phase[p] \in Busy /\ Finish(p) /\ failures' = failures
    BY <1>8 DEF WriteJournal, ArchiveUnlink, Busy
  <2> QED BY <2>1 DEF Finish, Phases, Busy, Owner
<1>9. ASSUME NEW p \in Process, FailWrite(p) PROVE PlacesTyped' /\ LockHeld'
  <2>1. phase[p] \in Busy /\ Finish(p) /\ failures' \in 0..MaxFailures
    BY <1>9 DEF FailWrite, Busy, Phases
  <2> QED BY <2>1 DEF Finish, Phases, Busy, Owner
<1>10. ASSUME NEW p \in Process, NEW c \in Cycle, ArchiveCycle(p, c) PROVE PlacesTyped' /\ LockHeld'
  BY <1>10 DEF ArchiveCycle, Locked, Phases, Busy, Owner
<1>11. CASE UNCHANGED vars
  BY <1>11, Zenon DEF vars
<1> QED BY <1>1, <1>2, <1>3, <1>4, <1>5, <1>6, <1>7, <1>8, <1>9, <1>10, <1>11, Steps, Zenon

LEMMA StepPending ==
    ASSUME Typing, [Next]_vars
    PROVE  PendingTyped'
<1> USE DEF Typing, PendingTyped
<1>1. ASSUME NEW p \in Process, NEW c \in Cycle, NEW effect \in Effects, Begin(p, c, effect)
      PROVE  PendingTyped'
  <2>1. [cycle |-> c, base |-> hot[p][c], effect |-> effect] \in Transaction
    BY DEF MemoryTyped, Transaction
  <2> QED BY <1>1, <2>1 DEF Begin
<1>2. ASSUME NEW p \in Process, NEW t \in pending[p], Commit(p, t) \/ RefuseCommit(p, t) \/ Contend(p, t)
      PROVE  PendingTyped'
  BY <1>2 DEF Commit, RefuseCommit, Contend
<1>3. ASSUME NEW p \in Process, Crash(p) PROVE PendingTyped'
  BY <1>3 DEF Crash
<1>4. ASSUME NEW p \in Process,
             \/ Open(p) \/ ReadGlobalKey(p) \/ WriteIndex(p) \/ WriteJournal(p) \/ FailWrite(p)
             \/ ArchiveIndex(p) \/ ArchiveUnlink(p)
             \/ \E c \in Cycle, effect \in Effects : ChangeGlobalKey(p, c, effect)
             \/ \E c \in Cycle : ArchiveCycle(p, c)
      PROVE  PendingTyped'
  BY <1>4, Zenon DEF Open, ReadGlobalKey, WriteIndex, WriteJournal, FailWrite, ArchiveIndex, ArchiveUnlink,
     ChangeGlobalKey, ArchiveCycle
<1>5. CASE UNCHANGED vars
  BY <1>5, Zenon DEF vars
<1> QED BY <1>1, <1>2, <1>3, <1>4, <1>5, Steps, Zenon

LEMMA StepStore ==
    ASSUME Typing, [Next]_vars
    PROVE  DiskTyped' /\ MemoryTyped'
<1> USE DEF Typing, DiskTyped, MemoryTyped
<1>n. << >> \in Seq(Entry)
  OBVIOUS
<1>1. ASSUME NEW p \in Process, Open(p) PROVE DiskTyped' /\ MemoryTyped'
  <2> DEFINE kept == [c \in Cycle |-> IF c \in index.archived THEN <<>> ELSE active[c]]
             ids == {c \in Cycle : kept[c] # <<>>}
  <2>1. kept \in [Cycle -> Seq(Entry)]
    BY <1>n
  <2>2. EvidenceOf(index, ids) \in [Evidence -> Owner]
    BY EvidenceOfType
  <2>3. ids \in SUBSET Cycle
    OBVIOUS
  <2>4. /\ active' = kept /\ hot' = [hot EXCEPT ![p] = kept]
        /\ hotOwner' = [hotOwner EXCEPT ![p] = EvidenceOf(index, ids)]
        /\ activeIds' = [activeIds EXCEPT ![p] = ids]
        /\ seen' = [seen EXCEPT ![p] = index] /\ UNCHANGED <<index, archive>>
    BY <1>1, Zenon DEF Open
  <2> HIDE DEF kept, ids
  <2> QED BY <2>1, <2>2, <2>3, <2>4
<1>2. ASSUME NEW p \in Process, Crash(p) PROVE DiskTyped' /\ MemoryTyped'
  <2>1. EmptyIndex.owner \in [Evidence -> Owner]
    BY DEF EmptyIndex, Owner
  <2> QED BY <1>2, <2>1, EmptyIndexType, NothingHotType DEF Crash, disk
<1>3. ASSUME NEW p \in Process, ReadGlobalKey(p) PROVE DiskTyped' /\ MemoryTyped'
  BY <1>3 DEF ReadGlobalKey, disk
<1>4. ASSUME NEW p \in Process, NEW c \in Cycle, NEW effect \in Effects, ChangeGlobalKey(p, c, effect)
      PROVE  DiskTyped' /\ MemoryTyped'
  <2>1. index' \in Index
    BY <1>4, ApplyType DEF ChangeGlobalKey
  <2> QED BY <1>4, <2>1 DEF ChangeGlobalKey
<1>5. ASSUME NEW p \in Process, NEW t \in pending[p], Commit(p, t) PROVE DiskTyped' /\ MemoryTyped'
  <2>1. t.cycle \in Cycle /\ t.effect \in Effects
    BY DEF PendingTyped, Transaction
  <2>2. seen' \in [Process -> Index]
    <3>1. ApplyToIndex(index, t.cycle, t.effect) \in Index
      BY <2>1, ApplyType
    <3> QED BY <1>5, <3>1 DEF Commit
  <2>3. hot' \in [Process -> [Cycle -> Seq(Entry)]]
    <3> DEFINE entry == [by |-> p, uses |-> Uses(t.effect)]
    <3>1. entry \in Entry
      BY <2>1, UsesType DEF Entry
    <3>2. hot' = [hot EXCEPT ![p][t.cycle] = Append(@, entry)]
      BY <1>5 DEF Commit
    <3> HIDE DEF entry
    <3>3. Append(hot[p][t.cycle], entry) \in Seq(Entry)
      BY <2>1, <3>1
    <3> QED BY <2>1, <3>2, <3>3
  <2>4. hotOwner' \in [Process -> [Evidence -> Owner]]
    BY <1>5, <2>1 DEF Commit, Owner
  <2> QED BY <1>5, <2>2, <2>3, <2>4 DEF Commit, disk
<1>6. ASSUME NEW p \in Process, NEW t \in pending[p], RefuseCommit(p, t) \/ Contend(p, t)
      PROVE  DiskTyped' /\ MemoryTyped'
  BY <1>6 DEF RefuseCommit, Contend, disk, memory
<1>7. ASSUME NEW p \in Process, WriteIndex(p) \/ ArchiveIndex(p) PROVE DiskTyped' /\ MemoryTyped'
  BY <1>7 DEF WriteIndex, ArchiveIndex, memory
<1>8. ASSUME NEW p \in Process, WriteJournal(p) PROVE DiskTyped' /\ MemoryTyped'
  <2>1. current[p] \in Cycle
    BY <1>8 DEF WriteJournal, LockHeld, Busy
  <2> QED BY <1>8, <2>1 DEF WriteJournal
<1>9. ASSUME NEW p \in Process, FailWrite(p) PROVE DiskTyped' /\ MemoryTyped'
  <2>1. phase[p] = "journal" => current[p] \in Cycle
    BY DEF LockHeld, Busy
  <2>2. UNCHANGED memory /\ archive' = archive
    BY <1>9 DEF FailWrite, disk
  <2>3. MemoryTyped'
    BY <2>2 DEF memory
  <2>4. index' \in {index, seen[p]}
        /\ (active' = active \/ active' = [active EXCEPT ![current[p]] = hot[p][current[p]]])
        /\ (phase[p] # "journal" => active' = active)
    BY <1>9, Zenon DEF FailWrite, disk
  <2>5. active' \in [Cycle -> Seq(Entry)]
    <3>1. CASE active' = active
      BY <3>1
    <3>2. CASE current[p] \in Cycle /\ active' = [active EXCEPT ![current[p]] = hot[p][current[p]]]
      BY <3>2
    <3> QED BY <2>1, <2>4, <3>1, <3>2, Zenon
  <2>6. index' \in Index
    BY <2>4
  <2>7. DiskTyped'
    BY <2>2, <2>5, <2>6
  <2> QED BY <2>3, <2>7
<1>10. ASSUME NEW p \in Process, NEW c \in Cycle, ArchiveCycle(p, c) PROVE DiskTyped' /\ MemoryTyped'
  <2>1. [index EXCEPT !.archived = @ \cup {c}] \in Index
    BY DEF Index
  <2> QED BY <1>10, <2>1 DEF ArchiveCycle
<1>11. ASSUME NEW p \in Process, ArchiveUnlink(p) PROVE DiskTyped' /\ MemoryTyped'
  <2> DEFINE ids == activeIds[p] \ {current[p]}
             left == [c \in Cycle |-> IF c \in ids THEN hot[p][c] ELSE <<>>]
  <2>1. left \in [Cycle -> Seq(Entry)] /\ ids \in SUBSET Cycle
    BY <1>n
  <2>2. EvidenceOf(seen[p], ids) \in [Evidence -> Owner]
    BY EvidenceOfType
  <2>3. /\ activeIds' = [activeIds EXCEPT ![p] = ids]
        /\ hotOwner' = [hotOwner EXCEPT ![p] = EvidenceOf(seen[p], ids)]
        /\ active' = [active EXCEPT ![current[p]] = <<>>]
        /\ UNCHANGED <<index, archive, seen>>
    BY <1>11, Zenon DEF ArchiveUnlink
  <2>4. hot' = [hot EXCEPT ![p] = left]
    BY <1>11 DEF ArchiveUnlink
  <2> HIDE DEF ids, left
  <2> QED BY <1>n, <2>1, <2>2, <2>3, <2>4
<1>12. ASSUME NEW p \in Process, NEW c \in Cycle, NEW effect \in Effects, Begin(p, c, effect)
       PROVE  DiskTyped' /\ MemoryTyped'
  BY <1>12, Zenon DEF Begin, disk, memory
<1>13. CASE UNCHANGED vars
  BY <1>13, Zenon DEF vars, disk, memory
<1> QED
  BY <1>1, <1>2, <1>3, <1>4, <1>5, <1>6, <1>7, <1>8, <1>9, <1>10, <1>11, <1>12, <1>13, Steps, Zenon

LEMMA TypeInvariance == Spec => []Typing
<1>1. Typing /\ [Next]_vars => Typing'
  BY StepPlaces, StepPending, StepStore DEF Typing
<1> QED BY <1>1, InitTypes, PTL DEF Spec

\* The files and the memory of every opened store have the shape the store
\* reads back, whatever fails and whoever dies.
THEOREM TypeCorrect == Spec => []TypeOK
<1>1. PendingTyped => \A p \in Process : \A t \in pending[p] :
                        t.cycle \in Cycle /\ t.base \in Seq(Entry) /\ t.effect \in Effects
  BY DEF PendingTyped, Transaction
<1>2. Typing => TypeOK
  BY <1>1, Zenon DEF Typing, TypeOK, DiskTyped, MemoryTyped, PlacesTyped
<1> QED BY <1>2, TypeInvariance, PTL

-----------------------------------------------------------------------------
(***************************************************************************)
(* Evidence.  Whatever a journal used is registered to its cycle: on disk  *)
(* and, for the journals in the memory of any process, in the index on     *)
(* disk too, except between the first write of a commit and its decision,  *)
(* when it is registered in the index about to be written.                 *)
(***************************************************************************)

Covers(owner, s, c) == \A i \in DOMAIN s : \A e \in s[i].uses : owner[e] = c

\* No evidence changes hands.
Continues(new, old) == \A e \in Evidence : old[e] # NoCycle => new[e] = old[e]

FilesCovered == \A c \in Cycle : Covers(index.owner, active[c], c) /\ Covers(index.owner, archive[c], c)

MemoryCovered ==
    \A p \in Process, c \in Cycle :
        /\ phase[p] # "index" => Covers(index.owner, hot[p][c], c)
        /\ phase[p] = "index" => Covers(seen[p].owner, hot[p][c], c)

NextIndex ==
    \A p \in Process : phase[p] \in {"index", "archiveIndex"} => Continues(seen[p].owner, index.owner)

CoverInv == FilesCovered /\ MemoryCovered /\ NextIndex

LEMMA EmptyCovered ==
    ASSUME NEW owner, NEW c
    PROVE  Covers(owner, << >>, c)
BY DEF Covers

LEMMA StillCovered ==
    ASSUME NEW old, NEW new, NEW s, s \in Seq(Entry), NEW c, c \in Cycle,
           Covers(old, s, c), Continues(new, old)
    PROVE  Covers(new, s, c)
<1>1. ASSUME NEW i \in DOMAIN s, NEW e \in s[i].uses PROVE new[e] = c
  <2>1. s[i] \in Entry
    OBVIOUS
  <2>2. e \in Evidence
    BY <2>1 DEF Entry
  <2> QED BY <2>2, StoreAssumption DEF Covers, Continues
<1> QED BY <1>1, Zenon DEF Covers

LEMMA AppendCovered ==
    ASSUME NEW owner, NEW s, s \in Seq(Entry), NEW x, x \in Entry, NEW c,
           Covers(owner, s, c), \A e \in x.uses : owner[e] = c
    PROVE  Covers(owner, Append(s, x), c)
<1>1. ASSUME NEW i \in DOMAIN Append(s, x) PROVE \A e \in Append(s, x)[i].uses : owner[e] = c
  <2>1. (i \in DOMAIN s /\ Append(s, x)[i] = s[i]) \/ Append(s, x)[i] = x
    OBVIOUS
  <2> QED BY <2>1 DEF Covers
<1> QED BY <1>1, Zenon DEF Covers

\* A record that passes the check of the index takes nothing from a cycle, and
\* registers the evidence it uses.
LEMMA PassedContinues ==
    ASSUME NEW ix \in Index, NEW c \in Cycle, NEW effect \in Effects, PassesIndex(ix, c, effect)
    PROVE  /\ Continues(ApplyToIndex(ix, c, effect).owner, ix.owner)
           /\ \A e \in Uses(effect) : ApplyToIndex(ix, c, effect).owner[e] = c
<1>1. effect.kind \in {"none", "consume", "reserve", "replace", "release"}
  BY DEF Effects
<1>2. CASE effect.kind = "consume"
  BY <1>2 DEF ApplyToIndex, PassesIndex, Effects, Index, Continues, Uses
<1>3. CASE effect.kind # "consume"
  <2>1. ApplyToIndex(ix, c, effect).owner = ix.owner /\ Uses(effect) = {}
    BY <1>1, <1>3 DEF ApplyToIndex, Index, Uses
  <2> QED BY <2>1 DEF Continues
<1> QED BY <1>2, <1>3

\* What concerns no commit leaves the owners alone.
LEMMA OwnersUnchanged ==
    ASSUME CoverInv, UNCHANGED hot,
           \A c \in Cycle : active'[c] \in {active[c], << >>} /\ archive'[c] = archive[c],
           index'.owner = index.owner,
           \A p \in Process : phase'[p] = phase[p],
           \A p \in Process : phase[p] \in {"index", "archiveIndex"} => seen'[p] = seen[p]
    PROVE  CoverInv'
<1>1. FilesCovered'
  <2> SUFFICES ASSUME NEW c \in Cycle
               PROVE  Covers(index'.owner, active'[c], c) /\ Covers(index'.owner, archive'[c], c)
    BY DEF FilesCovered
  <2> QED BY EmptyCovered DEF CoverInv, FilesCovered
<1>2. MemoryCovered'
  BY DEF CoverInv, MemoryCovered
<1>3. NextIndex'
  BY DEF CoverInv, NextIndex
<1> QED BY <1>1, <1>2, <1>3 DEF CoverInv

LEMMA StepCover ==
    ASSUME "index" \notin FailPoints, Typing, Typing', CoverInv, [Next]_vars
    PROVE  CoverInv'
<1> USE StoreAssumption
<1>t. /\ index \in Index /\ active \in [Cycle -> Seq(Entry)] /\ archive \in [Cycle -> Seq(Entry)]
      /\ seen \in [Process -> Index] /\ hot \in [Process -> [Cycle -> Seq(Entry)]]
      /\ phase \in [Process -> Phases]
  BY DEF Typing, DiskTyped, MemoryTyped, PlacesTyped
<1>1. ASSUME NEW p \in Process, Open(p) PROVE CoverInv'
  <2>1. /\ index' = index /\ archive' = archive /\ phase[p] = "down" /\ phase' = [phase EXCEPT ![p] = "open"]
        /\ seen' = [seen EXCEPT ![p] = index]
    BY <1>1, Zenon DEF Open
  <2>2. \A c \in Cycle : active'[c] \in {active[c], << >>} /\ hot'[p][c] = active'[c]
    BY <1>1, <1>t DEF Open
  <2>3. \A q \in Process : q # p => hot'[q] = hot[q]
    BY <1>1, <1>t DEF Open
  <2>4. FilesCovered'
    <3> SUFFICES ASSUME NEW c \in Cycle
                 PROVE  Covers(index'.owner, active'[c], c) /\ Covers(index'.owner, archive'[c], c)
      BY DEF FilesCovered
    <3> QED BY <2>1, <2>2, EmptyCovered DEF CoverInv, FilesCovered
  <2>5. MemoryCovered'
    <3> SUFFICES ASSUME NEW q \in Process, NEW c \in Cycle
                 PROVE  /\ phase'[q] # "index" => Covers(index'.owner, hot'[q][c], c)
                        /\ phase'[q] = "index" => Covers(seen'[q].owner, hot'[q][c], c)
      BY DEF MemoryCovered
    <3>1. CASE q = p
      BY <1>t, <2>1, <2>2, <2>4, <3>1 DEF FilesCovered
    <3>2. CASE q # p
      BY <1>t, <2>1, <2>3, <3>2 DEF CoverInv, MemoryCovered
    <3> QED BY <3>1, <3>2
  <2>6. NextIndex'
    BY <1>t, <2>1 DEF CoverInv, NextIndex
  <2> QED BY <2>4, <2>5, <2>6 DEF CoverInv
<1>2. ASSUME NEW p \in Process, Crash(p) PROVE CoverInv'
  <2>1. /\ UNCHANGED <<index, active, archive>> /\ phase' = [phase EXCEPT ![p] = "down"]
        /\ seen' = [seen EXCEPT ![p] = EmptyIndex] /\ hot' = [hot EXCEPT ![p] = NothingHot]
    BY <1>2 DEF Crash, disk
  <2>2. FilesCovered'
    BY <2>1 DEF CoverInv, FilesCovered
  <2>3. \A c \in Cycle : hot'[p][c] = << >>
    BY <1>t, <2>1 DEF NothingHot
  <2>4. MemoryCovered'
    <3> SUFFICES ASSUME NEW q \in Process, NEW c \in Cycle
                 PROVE  /\ phase'[q] # "index" => Covers(index'.owner, hot'[q][c], c)
                        /\ phase'[q] = "index" => Covers(seen'[q].owner, hot'[q][c], c)
      BY DEF MemoryCovered
    <3>1. CASE q = p
      BY <1>t, <2>1, <2>3, <3>1, EmptyCovered
    <3>2. CASE q # p
      BY <1>t, <2>1, <3>2 DEF CoverInv, MemoryCovered
    <3> QED BY <3>1, <3>2
  <2>5. NextIndex'
    BY <1>t, <2>1 DEF CoverInv, NextIndex
  <2> QED BY <2>2, <2>4, <2>5 DEF CoverInv
<1>3. ASSUME NEW p \in Process, ReadGlobalKey(p) PROVE CoverInv'
  <2>1. /\ UNCHANGED <<index, active, archive, hot, phase>> /\ phase[p] = "open"
        /\ seen' = [seen EXCEPT ![p] = index]
    BY <1>3 DEF ReadGlobalKey, disk, Locked
  <2> QED BY <1>t, <2>1, OwnersUnchanged
<1>4. ASSUME NEW p \in Process, NEW c \in Cycle, NEW effect \in Effects, ChangeGlobalKey(p, c, effect)
      PROVE  CoverInv'
  <2>1. /\ UNCHANGED <<active, archive, hot, phase>> /\ phase[p] = "open"
        /\ effect.kind \in {"reserve", "release"} /\ index' = ApplyToIndex(index, c, effect)
        /\ seen' = [seen EXCEPT ![p] = index']
    BY <1>4 DEF ChangeGlobalKey, Locked
  <2>2. index'.owner = index.owner
    BY <1>t, <2>1 DEF ApplyToIndex, Index
  <2>3. \A q \in Process : phase[q] \in {"index", "archiveIndex"} => seen'[q] = seen[q]
    BY <1>t, <2>1
  <2> QED BY <2>1, <2>2, <2>3, OwnersUnchanged
<1>5. ASSUME NEW p \in Process, NEW t \in pending[p], Commit(p, t) PROVE CoverInv'
  <2> DEFINE c == t.cycle
             x == [by |-> p, uses |-> Uses(t.effect)]
             ix == ApplyToIndex(index, t.cycle, t.effect)
  <2>1. c \in Cycle /\ t.effect \in Effects
    BY DEF Typing, PendingTyped, Transaction
  <2>2. /\ UNCHANGED <<index, active, archive>> /\ phase' = [phase EXCEPT ![p] = "index"]
        /\ seen' = [seen EXCEPT ![p] = ix] /\ phase[p] = "open"
        /\ hot' = [hot EXCEPT ![p][c] = Append(@, x)] /\ PassesIndex(index, c, t.effect)
    BY <1>5 DEF Commit, Committable, disk, Locked
  <2>3. x \in Entry /\ x.uses = Uses(t.effect)
    BY <2>1, UsesType DEF Entry
  <2>4. Continues(ix.owner, index.owner) /\ \A e \in x.uses : ix.owner[e] = c
    BY <1>t, <2>1, <2>2, <2>3, PassedContinues
  <2> HIDE DEF c, x, ix
  <2>5. FilesCovered'
    BY <2>2 DEF CoverInv, FilesCovered
  <2>6. MemoryCovered'
    <3> SUFFICES ASSUME NEW q \in Process, NEW d \in Cycle
                 PROVE  /\ phase'[q] # "index" => Covers(index'.owner, hot'[q][d], d)
                        /\ phase'[q] = "index" => Covers(seen'[q].owner, hot'[q][d], d)
      BY DEF MemoryCovered
    <3>1. CASE q # p
      BY <1>t, <2>2, <3>1 DEF CoverInv, MemoryCovered
    <3>2. CASE q = p
      <4>1. phase'[q] = "index" /\ seen'[q] = ix
        BY <1>t, <2>2, <3>2
      <4>2. hot[q][d] \in Seq(Entry) /\ Covers(index.owner, hot[q][d], d)
        <5>1. phase[q] # "index"
          BY <2>2, <3>2
        <5>2. Covers(index.owner, hot[q][d], d)
          BY <5>1, Zenon DEF CoverInv, MemoryCovered
        <5> QED BY <1>t, <5>2
      <4>3. Covers(ix.owner, hot[q][d], d)
        BY <2>4, <4>2, StillCovered
      <4>4. CASE d = c
        <5>1. hot'[q][d] = Append(hot[q][d], x)
          BY <1>t, <2>2, <3>2, <4>4
        <5>2. Covers(ix.owner, Append(hot[q][d], x), d)
          BY <2>3, <2>4, <4>2, <4>3, <4>4, AppendCovered
        <5> QED BY <4>1, <5>1, <5>2
      <4>5. CASE d # c
        <5>1. hot'[q][d] = hot[q][d]
          BY <1>t, <2>2, <3>2, <4>5
        <5> QED BY <4>1, <4>3, <5>1
      <4> QED BY <4>4, <4>5
    <3> QED BY <3>1, <3>2
  <2>7. NextIndex'
    BY <1>t, <2>2, <2>4 DEF CoverInv, NextIndex
  <2> QED BY <2>5, <2>6, <2>7 DEF CoverInv
<1>6. ASSUME NEW p \in Process, NEW t \in pending[p], RefuseCommit(p, t) \/ Contend(p, t) PROVE CoverInv'
  <2>1. UNCHANGED <<index, active, archive, hot, phase>> /\ phase[p] = "open"
    BY <1>6 DEF RefuseCommit, Contend, disk, memory, Locked
  <2>2. \A q \in Process : q # p => seen'[q] = seen[q]
    BY <1>6, <1>t DEF RefuseCommit, Contend, memory
  <2> QED BY <2>1, <2>2, OwnersUnchanged
<1>7. ASSUME NEW p \in Process, WriteIndex(p) \/ ArchiveIndex(p) PROVE CoverInv'
  <2>1. /\ UNCHANGED <<active, archive, hot, seen>> /\ index' = seen[p] /\ phase[p] \in {"index", "archiveIndex"}
        /\ phase'[p] \in {"journal", "archiveUnlink"} /\ \A q \in Process : q # p => phase'[q] = phase[q]
    BY <1>7, <1>t DEF WriteIndex, ArchiveIndex, memory
  <2>2. Continues(index'.owner, index.owner)
    BY <2>1 DEF CoverInv, NextIndex
  <2>3. \A q \in Process : q # p => phase'[q] \notin {"index", "archiveIndex"}
    BY <2>1 DEF Typing, LockHeld, Busy
  <2>4. FilesCovered'
    <3> SUFFICES ASSUME NEW c \in Cycle
                 PROVE  Covers(index'.owner, active'[c], c) /\ Covers(index'.owner, archive'[c], c)
      BY DEF FilesCovered
    <3>1. active[c] \in Seq(Entry) /\ archive[c] \in Seq(Entry)
      BY <1>t
    <3>2. Covers(index.owner, active[c], c) /\ Covers(index.owner, archive[c], c)
      BY DEF CoverInv, FilesCovered
    <3> QED BY <2>1, <2>2, <3>1, <3>2, StillCovered
  <2>5. MemoryCovered'
    <3> SUFFICES ASSUME NEW q \in Process, NEW c \in Cycle
                 PROVE  Covers(index'.owner, hot'[q][c], c) /\ phase'[q] # "index"
      BY DEF MemoryCovered
    <3>1. phase'[q] # "index"
      BY <2>1, <2>3
    <3>2. hot[q][c] \in Seq(Entry)
      BY <1>t
    <3>3. CASE phase[q] = "index"
      BY <2>1, <2>3, <3>1, <3>3 DEF CoverInv, MemoryCovered
    <3>4. CASE phase[q] # "index"
      <4>1. Covers(index.owner, hot[q][c], c)
        BY <3>4 DEF CoverInv, MemoryCovered
      <4> QED BY <2>1, <2>2, <3>1, <3>2, <4>1, StillCovered
    <3> QED BY <3>3, <3>4
  <2>6. NextIndex'
    BY <2>1, <2>3 DEF NextIndex
  <2> QED BY <2>4, <2>5, <2>6 DEF CoverInv
<1>8. ASSUME NEW p \in Process, UNCHANGED <<index, archive, hot, seen>>,
             phase[p] \in {"journal", "archiveIndex", "archiveUnlink"}, phase' = [phase EXCEPT ![p] = "open"],
             \A c \in Cycle : active'[c] \in {active[c], hot[p][c]}
      PROVE  CoverInv'
  <2>1. FilesCovered'
    <3> SUFFICES ASSUME NEW c \in Cycle
                 PROVE  Covers(index'.owner, active'[c], c) /\ Covers(index'.owner, archive'[c], c)
      BY DEF FilesCovered
    <3> QED BY <1>8 DEF CoverInv, FilesCovered, MemoryCovered
  <2>2. MemoryCovered'
    BY <1>t, <1>8 DEF CoverInv, MemoryCovered
  <2>3. NextIndex'
    BY <1>t, <1>8 DEF CoverInv, NextIndex
  <2> QED BY <2>1, <2>2, <2>3 DEF CoverInv
<1>9. ASSUME NEW p \in Process, WriteJournal(p) PROVE CoverInv'
  <2>1. /\ UNCHANGED <<index, archive, hot, seen>> /\ phase[p] = "journal" /\ phase' = [phase EXCEPT ![p] = "open"]
        /\ active' = [active EXCEPT ![current[p]] = hot[p][current[p]]]
    BY <1>9 DEF WriteJournal, Finish
  <2>2. \A c \in Cycle : active'[c] \in {active[c], hot[p][c]}
    BY <1>t, <2>1
  <2> QED BY <1>8, <2>1, <2>2
<1>10. ASSUME NEW p \in Process, FailWrite(p) PROVE CoverInv'
  <2>1. /\ UNCHANGED <<archive, hot, seen>> /\ phase[p] \in {"journal", "archiveIndex", "archiveUnlink"}
        /\ phase' = [phase EXCEPT ![p] = "open"]
    BY <1>10 DEF FailWrite, Finish, disk, memory, Phases
  <2>2. CASE UNCHANGED disk
    BY <1>8, <2>1, <2>2 DEF disk
  <2>3. CASE phase[p] = "journal" /\ active' = [active EXCEPT ![current[p]] = hot[p][current[p]]] /\ index' = index
    <3>1. \A c \in Cycle : active'[c] \in {active[c], hot[p][c]}
      BY <1>t, <2>3
    <3> QED BY <1>8, <2>1, <2>3, <3>1
  <2>4. CASE phase[p] = "archiveIndex" /\ index' = seen[p] /\ active' = active
    <3>1. Continues(index'.owner, index.owner)
      BY <2>4 DEF CoverInv, NextIndex
    <3>2. \A q \in Process : phase'[q] \notin {"index", "archiveIndex"} /\ phase[q] # "index"
      BY <1>t, <2>1, <2>4 DEF Typing, LockHeld, Busy
    <3>3. FilesCovered'
      <4> SUFFICES ASSUME NEW c \in Cycle
                   PROVE  Covers(index'.owner, active'[c], c) /\ Covers(index'.owner, archive'[c], c)
        BY DEF FilesCovered
      <4>1. active[c] \in Seq(Entry) /\ archive[c] \in Seq(Entry)
        BY <1>t
      <4>2. Covers(index.owner, active[c], c) /\ Covers(index.owner, archive[c], c)
        BY DEF CoverInv, FilesCovered
      <4> QED BY <2>1, <2>4, <3>1, <4>1, <4>2, StillCovered
    <3>4. MemoryCovered'
      <4> SUFFICES ASSUME NEW q \in Process, NEW c \in Cycle PROVE Covers(index'.owner, hot'[q][c], c)
        BY <3>2 DEF MemoryCovered
      <4>1. hot[q][c] \in Seq(Entry)
        BY <1>t
      <4>2. Covers(index.owner, hot[q][c], c)
        BY <3>2 DEF CoverInv, MemoryCovered
      <4> QED BY <2>1, <3>1, <4>1, <4>2, StillCovered
    <3>5. NextIndex'
      BY <3>2 DEF NextIndex
    <3> QED BY <3>3, <3>4, <3>5 DEF CoverInv
  <2> QED BY <1>10, <2>1, <2>2, <2>3, <2>4 DEF FailWrite
<1>11. ASSUME NEW p \in Process, NEW c \in Cycle, ArchiveCycle(p, c) PROVE CoverInv'
  <2>1. /\ UNCHANGED <<index, active, hot>> /\ phase[p] = "open" /\ archive' = [archive EXCEPT ![c] = hot[p][c]]
        /\ seen' = [seen EXCEPT ![p] = [index EXCEPT !.archived = @ \cup {c}]]
        /\ phase' = [phase EXCEPT ![p] = "archiveIndex"]
    BY <1>11 DEF ArchiveCycle, Locked
  <2>2. seen'[p].owner = index.owner
    BY <1>t, <2>1 DEF Index
  <2>3. \A d \in Cycle : archive'[d] \in {archive[d], hot[p][d]}
    BY <1>t, <2>1
  <2>4. FilesCovered'
    <3> SUFFICES ASSUME NEW d \in Cycle
                 PROVE  Covers(index'.owner, active'[d], d) /\ Covers(index'.owner, archive'[d], d)
      BY DEF FilesCovered
    <3> QED BY <2>1, <2>3 DEF CoverInv, FilesCovered, MemoryCovered
  <2>5. MemoryCovered'
    BY <1>t, <2>1 DEF CoverInv, MemoryCovered
  <2>6. NextIndex'
    BY <1>t, <2>1, <2>2 DEF CoverInv, NextIndex, Continues
  <2> QED BY <2>4, <2>5, <2>6 DEF CoverInv
<1>12. ASSUME NEW p \in Process, ArchiveUnlink(p) PROVE CoverInv'
  <2>1. /\ UNCHANGED <<index, archive, seen>> /\ phase[p] = "archiveUnlink"
        /\ phase' = [phase EXCEPT ![p] = "open"] /\ active' = [active EXCEPT ![current[p]] = << >>]
    BY <1>12 DEF ArchiveUnlink, Finish
  <2>2. \A c \in Cycle : active'[c] \in {active[c], << >>} /\ hot'[p][c] \in {hot[p][c], << >>}
    BY <1>12, <1>t DEF ArchiveUnlink
  <2>3. \A q \in Process : q # p => hot'[q] = hot[q]
    BY <1>12, <1>t DEF ArchiveUnlink
  <2>4. FilesCovered'
    <3> SUFFICES ASSUME NEW d \in Cycle
                 PROVE  Covers(index'.owner, active'[d], d) /\ Covers(index'.owner, archive'[d], d)
      BY DEF FilesCovered
    <3> QED BY <2>1, <2>2, EmptyCovered DEF CoverInv, FilesCovered
  <2>5. MemoryCovered'
    <3> SUFFICES ASSUME NEW q \in Process, NEW c \in Cycle
                 PROVE  /\ phase'[q] # "index" => Covers(index'.owner, hot'[q][c], c)
                        /\ phase'[q] = "index" => Covers(seen'[q].owner, hot'[q][c], c)
      BY DEF MemoryCovered
    <3>1. CASE q = p
      <4>1. phase'[q] = "open" /\ phase[q] # "index"
        BY <1>t, <2>1, <3>1
      <4>2. Covers(index.owner, hot[q][c], c)
        BY <4>1, Zenon DEF CoverInv, MemoryCovered
      <4>3. Covers(index.owner, << >>, c)
        BY EmptyCovered
      <4>4. hot'[q][c] = hot[q][c] \/ hot'[q][c] = << >>
        BY <2>2, <3>1
      <4> QED BY <2>1, <4>1, <4>2, <4>3, <4>4
    <3>2. CASE q # p
      BY <1>t, <2>1, <2>3, <3>2 DEF CoverInv, MemoryCovered
    <3> QED BY <3>1, <3>2
  <2>6. NextIndex'
    BY <1>t, <2>1 DEF CoverInv, NextIndex
  <2> QED BY <2>4, <2>5, <2>6 DEF CoverInv
<1>13. ASSUME NEW p \in Process, NEW c \in Cycle, NEW effect \in Effects, Begin(p, c, effect) PROVE CoverInv'
  BY <1>13, Zenon DEF Begin, disk, memory, CoverInv, FilesCovered, MemoryCovered, NextIndex
<1>14. CASE UNCHANGED vars
  BY <1>14, Zenon DEF vars, disk, memory, CoverInv, FilesCovered, MemoryCovered, NextIndex
<1> QED
  BY <1>1, <1>2, <1>3, <1>4, <1>5, <1>6, <1>7, <1>9, <1>10, <1>11, <1>12, <1>13, <1>14, Steps, Zenon

LEMMA CoverInvariance ==
    ASSUME "index" \notin FailPoints PROVE Spec => []CoverInv
<1>1. Init => CoverInv
  BY DEF Init, NothingHot, CoverInv, FilesCovered, MemoryCovered, NextIndex, Covers
<1>2. Typing /\ Typing' /\ CoverInv /\ [Next]_vars => CoverInv'
  BY StepCover
<1> QED BY <1>1, <1>2, TypeInvariance, PTL DEF Spec

LEMMA CoveredFiles ==
    ASSUME CoverInv
    PROVE  IndexCoversJournal
<1> SUFFICES ASSUME NEW c \in Cycle, NEW e \in Consumed(c) PROVE index.owner[e] = c
  BY DEF IndexCoversJournal
<1>1. PICK i \in DOMAIN DurableJournal(c) : e \in DurableJournal(c)[i].uses
  BY DEF Consumed
<1>2. Covers(index.owner, DurableJournal(c), c)
  BY DEF CoverInv, FilesCovered, DurableJournal
<1> QED BY <1>1, <1>2 DEF Covers

\* As long as no index write of a commit throws, every piece of evidence that a
\* journal on disk consumed is registered to its cycle in the index on disk:
\* for every number of processes, and between any two writes.
THEOREM IndexNeverBehind ==
    ASSUME "index" \notin FailPoints PROVE Spec => []IndexCoversJournal
BY CoveredFiles, CoverInvariance, PTL

\* Under the same condition no two cycles consume the same authorization,
\* nonce or receipt: not after an archive, a death, a stale memory or a race of
\* two processes for it.
THEOREM EvidenceIsConsumedOnce ==
    ASSUME "index" \notin FailPoints PROVE Spec => []EvidenceConsumedOnce
<1>1. IndexCoversJournal => EvidenceConsumedOnce
  BY DEF IndexCoversJournal, EvidenceConsumedOnce
<1> QED BY <1>1, IndexNeverBehind, PTL

-----------------------------------------------------------------------------
(***************************************************************************)
(* Append-only journals.  Of a cycle that is not archived, what is on disk *)
(* is the beginning of what the process has in memory, and the process     *)
(* knows the cycle as active: so a rebuild of its memory keeps the cycle.  *)
(* What is archived was in memory when it was written, and stays.          *)
(***************************************************************************)

OneProcess == \A p, q \in Process : p = q

Ahead ==
    \A p \in Process : phase[p] # "down" =>
        \A c \in Cycle : c \notin index.archived =>
            IsPrefix(active[c], hot[p][c]) /\ (active[c] # << >> => c \in activeIds[p])

Archiving ==
    \A p \in Process :
        /\ phase[p] = "index" => seen[p].archived = index.archived
        /\ phase[p] = "archiveIndex" => /\ seen[p].archived = index.archived \cup {current[p]}
                                        /\ archive[current[p]] = hot[p][current[p]]
        /\ phase[p] = "archiveUnlink" => current[p] \in index.archived

AppendInv == Ahead /\ Archiving

AppendsOnly == \A c \in Cycle : IsPrefix(DurableJournal(c), DurableJournal(c)')

LEMMA PrefixDef ==
    ASSUME NEW s, s \in Seq(Entry), NEW t, t \in Seq(Entry)
    PROVE  IsPrefix(s, t) <=> Len(s) <= Len(t) /\ \A i \in 1..Len(s) : s[i] = t[i]
<1>1. Len(s) \in Nat /\ Len(t) \in Nat
  OBVIOUS
<1>2. SubSeq(s, 1, Len(s)) = [i \in 1..Len(s) |-> s[i]]
  OBVIOUS
<1>3. ASSUME Len(s) <= Len(t) PROVE SubSeq(t, 1, Len(s)) = [i \in 1..Len(s) |-> t[i]]
  BY <1>1, <1>3
<1> QED BY <1>1, <1>2, <1>3 DEF IsPrefix

LEMMA PrefixSelf ==
    ASSUME NEW s, s \in Seq(Entry)
    PROVE  IsPrefix(s, s)
BY DEF IsPrefix

LEMMA PrefixEmpty ==
    ASSUME NEW s, s \in Seq(Entry)
    PROVE  IsPrefix(<< >>, s)
<1>1. << >> \in Seq(Entry) /\ Len(<< >>) = 0 /\ Len(s) \in Nat
  OBVIOUS
<1>2. Len(<< >>) <= Len(s) /\ \A i \in 1..Len(<< >>) : << >>[i] = s[i]
  BY <1>1
<1> QED BY <1>1, <1>2, PrefixDef

LEMMA PrefixAppend ==
    ASSUME NEW s, s \in Seq(Entry), NEW t, t \in Seq(Entry), NEW x, x \in Entry, IsPrefix(s, t)
    PROVE  IsPrefix(s, Append(t, x))
<1>1. Append(t, x) \in Seq(Entry) /\ Len(Append(t, x)) = Len(t) + 1 /\ Len(t) \in Nat /\ Len(s) \in Nat
      /\ \A i \in 1..Len(t) : Append(t, x)[i] = t[i]
  OBVIOUS
<1>2. Len(s) <= Len(t) /\ \A i \in 1..Len(s) : s[i] = t[i]
  BY PrefixDef
<1>3. Len(s) <= Len(Append(t, x)) /\ \A i \in 1..Len(s) : s[i] = Append(t, x)[i]
  BY <1>1, <1>2
<1> QED BY <1>1, <1>3, PrefixDef

LEMMA ApplyArchived ==
    ASSUME NEW ix \in Index, NEW c \in Cycle, NEW effect \in Effects
    PROVE  ApplyToIndex(ix, c, effect).archived = ix.archived
<1>1. effect.kind \in {"none", "consume", "reserve", "replace", "release"}
  BY DEF Effects
<1> QED BY <1>1 DEF ApplyToIndex, Index

\* No file changes, and what the process has in memory at most grows.
LEMMA FilesUnchanged ==
    ASSUME Typing, UNCHANGED <<active, archive>>, index'.archived = index.archived
    PROVE  AppendsOnly
<1> SUFFICES ASSUME NEW c \in Cycle PROVE IsPrefix(DurableJournal(c), DurableJournal(c)')
  BY DEF AppendsOnly
<1>1. DurableJournal(c)' = DurableJournal(c)
  BY DEF DurableJournal
<1>2. DurableJournal(c) \in Seq(Entry)
  BY DEF DurableJournal, Typing, DiskTyped
<1> QED BY <1>1, <1>2, PrefixSelf

LEMMA StepAppend ==
    ASSUME OneProcess, "journal" \notin FailPoints, Typing, Typing', AppendInv, [Next]_vars
    PROVE  AppendInv' /\ AppendsOnly
<1> USE StoreAssumption
<1>t. /\ index \in Index /\ active \in [Cycle -> Seq(Entry)] /\ archive \in [Cycle -> Seq(Entry)]
      /\ seen \in [Process -> Index] /\ hot \in [Process -> [Cycle -> Seq(Entry)]]
      /\ phase \in [Process -> Phases] /\ current \in [Process -> Owner]
      /\ activeIds \in [Process -> SUBSET Cycle]
  BY DEF Typing, DiskTyped, MemoryTyped, PlacesTyped
<1>u. /\ index' \in Index /\ active' \in [Cycle -> Seq(Entry)] /\ archive' \in [Cycle -> Seq(Entry)]
      /\ hot' \in [Process -> [Cycle -> Seq(Entry)]]
  BY DEF Typing, DiskTyped, MemoryTyped
<1>a. ASSUME NEW p \in Process, phase'[p] # "down",
             \A c \in Cycle : c \notin index'.archived =>
                IsPrefix(active'[c], hot'[p][c]) /\ (active'[c] # << >> => c \in activeIds'[p])
      PROVE  Ahead'
  BY <1>a DEF Ahead, OneProcess
<1>b. ASSUME NEW p \in Process,
             /\ phase'[p] = "index" => seen'[p].archived = index'.archived
             /\ phase'[p] = "archiveIndex" => /\ seen'[p].archived = index'.archived \cup {current'[p]}
                                              /\ archive'[current'[p]] = hot'[p][current'[p]]
             /\ phase'[p] = "archiveUnlink" => current'[p] \in index'.archived
      PROVE  Archiving'
  BY <1>b DEF Archiving, OneProcess
<1>c. ASSUME NEW p \in Process, phase[p] = "open", UNCHANGED <<active, archive, hot, activeIds, phase>>,
             index'.archived = index.archived
      PROVE  AppendInv' /\ AppendsOnly
  <2>1. Ahead'
    BY <1>c, <1>a DEF AppendInv, Ahead
  <2>2. Archiving'
    BY <1>c, <1>b
  <2> QED BY <1>c, <2>1, <2>2, FilesUnchanged DEF AppendInv
<1>1. ASSUME NEW p \in Process, Open(p) PROVE AppendInv' /\ AppendsOnly
  <2>1. index' = index /\ archive' = archive /\ phase'[p] = "open"
    BY <1>1, <1>t DEF Open
  <2>2. \A c \in Cycle : /\ active'[c] = (IF c \in index.archived THEN << >> ELSE active[c])
                         /\ hot'[p][c] = active'[c]
                         /\ active'[c] # << >> => c \in activeIds'[p]
    BY <1>1, <1>t DEF Open
  <2>3. Ahead'
    <3> SUFFICES ASSUME NEW c \in Cycle PROVE IsPrefix(active'[c], hot'[p][c])
      BY <1>a, <2>1, <2>2
    <3> QED BY <1>u, <2>2, PrefixSelf
  <2>4. Archiving'
    BY <1>b, <2>1
  <2>5. AppendsOnly
    <3> SUFFICES ASSUME NEW c \in Cycle PROVE IsPrefix(DurableJournal(c), DurableJournal(c)')
      BY DEF AppendsOnly
    <3>1. DurableJournal(c)' = DurableJournal(c)
      BY <2>1, <2>2 DEF DurableJournal
    <3>2. DurableJournal(c) \in Seq(Entry)
      BY <1>t DEF DurableJournal
    <3> QED BY <3>1, <3>2, PrefixSelf
  <2> QED BY <2>3, <2>4, <2>5 DEF AppendInv
<1>2. ASSUME NEW p \in Process, Crash(p) PROVE AppendInv' /\ AppendsOnly
  <2>1. UNCHANGED <<index, active, archive>> /\ phase'[p] = "down"
    BY <1>2, <1>t DEF Crash, disk
  <2>2. Ahead'
    BY <2>1 DEF Ahead, OneProcess
  <2>3. Archiving'
    BY <1>b, <2>1
  <2> QED BY <2>1, <2>2, <2>3, FilesUnchanged DEF AppendInv
<1>3. ASSUME NEW p \in Process, ReadGlobalKey(p) PROVE AppendInv' /\ AppendsOnly
  BY <1>3, <1>c DEF ReadGlobalKey, Locked, disk
<1>4. ASSUME NEW p \in Process, NEW c \in Cycle, NEW effect \in Effects, ChangeGlobalKey(p, c, effect)
      PROVE  AppendInv' /\ AppendsOnly
  <2>1. index'.archived = index.archived
    BY <1>4, <1>t, ApplyArchived DEF ChangeGlobalKey
  <2> QED BY <1>4, <1>c, <2>1 DEF ChangeGlobalKey, Locked
<1>5. ASSUME NEW p \in Process, NEW t \in pending[p], Commit(p, t) PROVE AppendInv' /\ AppendsOnly
  <2> DEFINE c == t.cycle
             x == [by |-> p, uses |-> Uses(t.effect)]
             ix == ApplyToIndex(index, t.cycle, t.effect)
  <2>1. c \in Cycle /\ t.effect \in Effects
    BY DEF Typing, PendingTyped, Transaction
  <2>2. /\ UNCHANGED <<index, active, archive, activeIds>> /\ phase' = [phase EXCEPT ![p] = "index"]
        /\ seen' = [seen EXCEPT ![p] = ix] /\ phase[p] = "open"
        /\ hot' = [hot EXCEPT ![p][c] = Append(@, x)]
    BY <1>5 DEF Commit, disk, Locked
  <2>3. x \in Entry
    BY <2>1, UsesType DEF Entry
  <2>4. ix.archived = index.archived
    BY <1>t, <2>1, ApplyArchived
  <2> HIDE DEF c, x, ix
  <2>5. phase'[p] = "index" /\ seen'[p].archived = index'.archived
    BY <1>t, <2>2, <2>4
  <2>6. Ahead'
    <3> SUFFICES ASSUME NEW d \in Cycle, d \notin index.archived
                 PROVE  IsPrefix(active'[d], hot'[p][d]) /\ (active'[d] # << >> => d \in activeIds'[p])
      BY <1>a, <2>2, <2>5
    <3>1. IsPrefix(active[d], hot[p][d]) /\ (active[d] # << >> => d \in activeIds[p])
      BY <2>2 DEF AppendInv, Ahead
    <3>2. hot'[p][d] = hot[p][d] \/ hot'[p][d] = Append(hot[p][d], x)
      BY <1>t, <2>2
    <3>3. active[d] \in Seq(Entry) /\ hot[p][d] \in Seq(Entry)
      BY <1>t
    <3>4. IsPrefix(active[d], Append(hot[p][d], x))
      BY <2>3, <3>1, <3>3, PrefixAppend
    <3> QED BY <2>2, <3>1, <3>2, <3>4
  <2>7. Archiving'
    BY <1>b, <2>5
  <2> QED BY <2>2, <2>6, <2>7, FilesUnchanged DEF AppendInv
<1>6. ASSUME NEW p \in Process, NEW t \in pending[p], RefuseCommit(p, t) \/ Contend(p, t)
      PROVE  AppendInv' /\ AppendsOnly
  BY <1>6, <1>c DEF RefuseCommit, Contend, disk, memory, Locked
<1>7. ASSUME NEW p \in Process, WriteIndex(p) PROVE AppendInv' /\ AppendsOnly
  <2>1. /\ UNCHANGED <<active, archive, hot, activeIds>> /\ index' = seen[p]
        /\ phase[p] = "index" /\ phase'[p] = "journal"
    BY <1>7, <1>t DEF WriteIndex, memory
  <2>2. index'.archived = index.archived
    BY <2>1 DEF AppendInv, Archiving
  <2>3. Ahead'
    BY <1>a, <2>1, <2>2 DEF AppendInv, Ahead
  <2>4. Archiving'
    BY <1>b, <2>1
  <2> QED BY <2>1, <2>2, <2>3, <2>4, FilesUnchanged DEF AppendInv
<1>8. ASSUME NEW p \in Process, WriteJournal(p) PROVE AppendInv' /\ AppendsOnly
  <2> DEFINE c == current[p]
  <2>1. /\ UNCHANGED <<index, archive, hot>> /\ phase[p] = "journal" /\ phase'[p] = "open"
        /\ active' = [active EXCEPT ![c] = hot[p][c]]
        /\ activeIds'[p] = activeIds[p] \cup {c}
    BY <1>8, <1>t DEF WriteJournal, Finish
  <2> HIDE DEF c
  <2>2. \A d \in Cycle : active'[d] = (IF d = c THEN hot[p][d] ELSE active[d])
    BY <1>t, <2>1
  <2>3. ASSUME NEW d \in Cycle, d \notin index.archived
        PROVE  /\ IsPrefix(active'[d], hot'[p][d]) /\ (active'[d] # << >> => d \in activeIds'[p])
               /\ IsPrefix(active[d], active'[d])
    <3>1. IsPrefix(active[d], hot[p][d]) /\ (active[d] # << >> => d \in activeIds[p])
      BY <2>1, <2>3 DEF AppendInv, Ahead
    <3>2. IsPrefix(hot[p][d], hot[p][d]) /\ IsPrefix(active[d], active[d])
      BY <1>t, PrefixSelf
    <3> QED BY <2>1, <2>2, <3>1, <3>2
  <2>4. Ahead'
    BY <1>a, <2>1, <2>3
  <2>5. Archiving'
    BY <1>b, <2>1
  <2>6. AppendsOnly
    <3> SUFFICES ASSUME NEW d \in Cycle PROVE IsPrefix(DurableJournal(d), DurableJournal(d)')
      BY DEF AppendsOnly
    <3>1. CASE d \in index.archived
      <4>1. DurableJournal(d)' = archive[d] /\ DurableJournal(d) = archive[d] /\ archive[d] \in Seq(Entry)
        BY <1>t, <2>1, <3>1 DEF DurableJournal
      <4> QED BY <4>1, PrefixSelf
    <3>2. CASE d \notin index.archived
      BY <2>1, <2>3, <3>2 DEF DurableJournal
    <3> QED BY <3>1, <3>2
  <2> QED BY <2>4, <2>5, <2>6 DEF AppendInv
<1>9. ASSUME NEW p \in Process, NEW c \in Cycle, ArchiveCycle(p, c) PROVE AppendInv' /\ AppendsOnly
  <2>1. /\ UNCHANGED <<index, active, hot, activeIds>> /\ phase[p] = "open" /\ c \notin index.archived
        /\ archive' = [archive EXCEPT ![c] = hot[p][c]]
        /\ seen' = [seen EXCEPT ![p] = [index EXCEPT !.archived = @ \cup {c}]]
        /\ phase'[p] = "archiveIndex" /\ current'[p] = c
    BY <1>9, <1>t DEF ArchiveCycle, Locked
  <2>2. seen'[p].archived = index'.archived \cup {c} /\ archive'[c] = hot'[p][c]
    BY <1>t, <2>1 DEF Index
  <2>3. Ahead'
    BY <1>a, <2>1 DEF AppendInv, Ahead
  <2>4. Archiving'
    BY <1>b, <2>1, <2>2
  <2>5. AppendsOnly
    <3> SUFFICES ASSUME NEW d \in Cycle PROVE IsPrefix(DurableJournal(d), DurableJournal(d)')
      BY DEF AppendsOnly
    <3>1. DurableJournal(d)' = DurableJournal(d)
      BY <1>t, <2>1 DEF DurableJournal
    <3>2. DurableJournal(d) \in Seq(Entry)
      BY <1>t DEF DurableJournal
    <3> QED BY <3>1, <3>2, PrefixSelf
  <2> QED BY <2>3, <2>4, <2>5 DEF AppendInv
\* The index that calls the cycle archived reaches the disk.
<1>10. ASSUME NEW p \in Process, phase[p] = "archiveIndex", index' = seen[p],
              UNCHANGED <<active, archive, hot, activeIds>>, phase'[p] \in {"archiveUnlink", "open"},
              phase'[p] = "archiveUnlink" => current'[p] = current[p]
       PROVE  AppendInv' /\ AppendsOnly
  <2>1. /\ index'.archived = index.archived \cup {current[p]} /\ archive[current[p]] = hot[p][current[p]]
    BY <1>10 DEF AppendInv, Archiving
  <2>2. Ahead'
    BY <1>10, <1>a, <2>1 DEF AppendInv, Ahead
  <2>3. Archiving'
    BY <1>10, <1>b, <2>1
  <2>4. AppendsOnly
    <3> SUFFICES ASSUME NEW d \in Cycle PROVE IsPrefix(DurableJournal(d), DurableJournal(d)')
      BY DEF AppendsOnly
    <3>1. CASE d \in index.archived \/ d # current[p]
      <4>1. DurableJournal(d)' = DurableJournal(d)
        BY <1>10, <2>1, <3>1 DEF DurableJournal
      <4>2. DurableJournal(d) \in Seq(Entry)
        BY <1>t DEF DurableJournal
      <4> QED BY <4>1, <4>2, PrefixSelf
    <3>2. CASE d \notin index.archived /\ d = current[p]
      <4>1. DurableJournal(d) = active[d] /\ DurableJournal(d)' = hot[p][d]
        BY <1>10, <2>1, <3>2 DEF DurableJournal
      <4>2. IsPrefix(active[d], hot[p][d])
        BY <1>10, <3>2 DEF AppendInv, Ahead
      <4> QED BY <4>1, <4>2
    <3> QED BY <3>1, <3>2
  <2> QED BY <2>2, <2>3, <2>4 DEF AppendInv
<1>11. ASSUME NEW p \in Process, ArchiveIndex(p) PROVE AppendInv' /\ AppendsOnly
  <2>1. /\ phase[p] = "archiveIndex" /\ index' = seen[p] /\ UNCHANGED <<active, archive, hot, activeIds>>
        /\ phase'[p] = "archiveUnlink" /\ current' = current
    BY <1>11, <1>t DEF ArchiveIndex, memory
  <2> QED BY <1>10, <2>1
<1>12. ASSUME NEW p \in Process, ArchiveUnlink(p) PROVE AppendInv' /\ AppendsOnly
  <2> DEFINE c == current[p]
  <2>1. /\ UNCHANGED <<index, archive>> /\ phase[p] = "archiveUnlink" /\ phase'[p] = "open"
        /\ active' = [active EXCEPT ![c] = << >>]
        /\ activeIds'[p] = activeIds[p] \ {c}
    BY <1>12, <1>t DEF ArchiveUnlink, Finish
  <2>2. \A d \in Cycle : d \in activeIds[p] \ {c} => hot'[p][d] = hot[p][d]
    BY <1>12, <1>t DEF ArchiveUnlink
  <2>3. c \in index.archived
    BY <2>1 DEF AppendInv, Archiving
  <2> HIDE DEF c
  <2>4. ASSUME NEW d \in Cycle, d \notin index.archived
        PROVE  /\ IsPrefix(active'[d], hot'[p][d]) /\ (active'[d] # << >> => d \in activeIds'[p])
               /\ active'[d] = active[d]
    <3>1. IsPrefix(active[d], hot[p][d]) /\ (active[d] # << >> => d \in activeIds[p])
      BY <2>1, <2>4 DEF AppendInv, Ahead
    <3>2. active'[d] = active[d] /\ d # c
      BY <1>t, <2>1, <2>3, <2>4
    <3>3. CASE active[d] = << >>
      <4>1. IsPrefix(<< >>, hot'[p][d])
        BY <1>u, PrefixEmpty
      <4> QED BY <3>2, <3>3, <4>1
    <3>4. CASE active[d] # << >>
      BY <2>1, <2>2, <3>1, <3>2, <3>4
    <3> QED BY <3>3, <3>4
  <2>5. Ahead'
    BY <1>a, <2>1, <2>4
  <2>6. Archiving'
    BY <1>b, <2>1
  <2>7. AppendsOnly
    <3> SUFFICES ASSUME NEW d \in Cycle PROVE IsPrefix(DurableJournal(d), DurableJournal(d)')
      BY DEF AppendsOnly
    <3>1. DurableJournal(d)' = DurableJournal(d)
      BY <2>1, <2>4 DEF DurableJournal
    <3>2. DurableJournal(d) \in Seq(Entry)
      BY <1>t DEF DurableJournal
    <3> QED BY <3>1, <3>2, PrefixSelf
  <2> QED BY <2>5, <2>6, <2>7 DEF AppendInv
<1>13. ASSUME NEW p \in Process, FailWrite(p) PROVE AppendInv' /\ AppendsOnly
  <2>1. /\ UNCHANGED <<active, archive, hot, activeIds>> /\ phase'[p] = "open" /\ phase[p] # "down"
        /\ (index' = index \/ (phase[p] \in {"index", "archiveIndex"} /\ index' = seen[p]))
    <3>1. phase[p] # "journal" /\ phase[p] # "down"
      BY <1>13 DEF FailWrite
    <3> QED BY <1>13, <1>t, <3>1 DEF FailWrite, Finish, disk, memory
  <2>2. CASE index'.archived = index.archived
    <3>1. Ahead'
      BY <1>a, <2>1, <2>2 DEF AppendInv, Ahead
    <3>2. Archiving'
      BY <1>b, <2>1
    <3> QED BY <2>1, <2>2, <3>1, <3>2, FilesUnchanged DEF AppendInv
  <2>3. CASE phase[p] = "archiveIndex" /\ index' = seen[p]
    BY <1>10, <2>1, <2>3
  <2>4. phase[p] = "index" /\ index' = seen[p] => index'.archived = index.archived
    BY DEF AppendInv, Archiving
  <2> QED BY <2>1, <2>2, <2>3, <2>4
<1>14. ASSUME NEW p \in Process, NEW c \in Cycle, NEW effect \in Effects, Begin(p, c, effect)
       PROVE  AppendInv' /\ AppendsOnly
  <2>1. UNCHANGED <<index, active, archive, seen, hot, activeIds, phase, current>>
    BY <1>14 DEF Begin, disk, memory
  <2>2. AppendInv'
    BY <2>1, Zenon DEF AppendInv, Ahead, Archiving
  <2> QED BY <2>1, <2>2, FilesUnchanged
<1>15. CASE UNCHANGED vars
  <2>1. UNCHANGED <<index, active, archive, seen, hot, activeIds, phase, current>>
    BY <1>15 DEF vars, disk, memory
  <2>2. AppendInv'
    BY <2>1, Zenon DEF AppendInv, Ahead, Archiving
  <2> QED BY <2>1, <2>2, FilesUnchanged
<1> QED
  BY <1>1, <1>2, <1>3, <1>4, <1>5, <1>6, <1>7, <1>8, <1>9, <1>11, <1>12, <1>13, <1>14, <1>15, Steps, Zenon

\* For one process, and as long as no journal write throws, the journal of a
\* cycle on disk only grows at its end: through overlapping transactions,
\* deaths between any two writes, index and archive writes that throw, and
\* archiving, for journals of every length.
THEOREM JournalsAppendOnly ==
    ASSUME OneProcess, "journal" \notin FailPoints PROVE Spec => JournalAppendOnly
<1>1. Init => AppendInv
  BY DEF Init, AppendInv, Ahead, Archiving
<1>2. Typing /\ Typing' /\ AppendInv /\ [Next]_vars => AppendInv'
  BY StepAppend
<1>3. Typing /\ Typing' /\ AppendInv /\ [Next]_vars
        => [\A c \in Cycle : IsPrefix(DurableJournal(c), DurableJournal(c)')]_vars
  BY StepAppend DEF AppendsOnly
<1> QED BY <1>1, <1>2, <1>3, TypeInvariance, PTL DEF Spec, JournalAppendOnly

=============================================================================
