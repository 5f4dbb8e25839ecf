---------------------------- MODULE DurableStore ----------------------------
(***************************************************************************)
(* DurableCycleStore of runner/src/cycle/durable-store.mjs: one file per   *)
(* active cycle journal, an archive, and the index of consumed evidence    *)
(* (authorizations, nonces, receipts) and of global reservation keys.      *)
(*                                                                         *)
(* An opened store keeps the active journals in memory (#hot, the          *)
(* FixtureCycleStore of cycle-store.mjs) and a copy of the index.  A       *)
(* commit takes the directory lock, reads the index again, checks, appends *)
(* in memory, writes the index and then the journal file.  Transactions of *)
(* one process overlap, a process may die between any two writes, and a    *)
(* write may fail and leave the memory of the process ahead of the disk.   *)
(* SQLite frees the directory lock of a dead process.                      *)
(*                                                                         *)
(* A journal is a sequence of entries; expectedVersion and                 *)
(* expectedJournalHead (a digest chain) together are the sequence itself.  *)
(***************************************************************************)
EXTENDS Naturals, FiniteSets, Sequences, SequencesExt

CONSTANTS
    Process,      \* processes that open the state directory
    NoProcess,
    Cycle,
    NoCycle,
    Evidence,     \* authorization and receipt keys
    GlobalKey,
    StoreCycles,  \* RECOVERY_LIMITS.storeCycles
    FailPoints,   \* phases whose write may fail
    MaxJournal, MaxPending, MaxFailures   \* bounds of a run

Phases == {"down", "open", "index", "journal", "archiveIndex", "archiveUnlink"}

ASSUME StoreAssumption ==
    /\ NoProcess \notin Process /\ NoCycle \notin Cycle
    /\ FailPoints \subseteq Phases \ {"down", "open"}
    /\ {StoreCycles, MaxJournal, MaxPending, MaxFailures} \subseteq Nat

VARIABLES
    (* the state directory *)
    index,      \* index.json
    active,     \* active/<cycle>.json, <<>> when there is no file
    archive,    \* archive/<cycle>.json
    lock,       \* owner of .store-lock/lease.sqlite
    (* an opened store, per process *)
    seen,       \* #index
    hot,        \* journals in #hot
    hotOwner,   \* evidence in #hot
    activeIds,  \* #activeCycleIds
    pending,    \* transactions begun and not committed
    phase,      \* what the process does under the lock
    current,    \* the cycle it does it for
    failures

disk == <<index, active, archive>>
memory == <<seen, hot, hotOwner, activeIds>>
vars == <<disk, lock, memory, pending, phase, current, failures>>

Owner == Cycle \cup {NoCycle}

Index == [owner : [Evidence -> Owner], globals : [GlobalKey -> Owner], archived : SUBSET Cycle]

EmptyIndex ==
    [owner |-> [e \in Evidence |-> NoCycle], globals |-> [k \in GlobalKey |-> NoCycle], archived |-> {}]

\* A journal entry, told apart by its writer and the evidence it consumes.
Entry == [by : Process, uses : SUBSET Evidence]

\* What a transaction stages beside its journal entry.
Effects ==
    [kind : {"none"}]
    \cup [kind : {"consume"}, key : Evidence]
    \cup [kind : {"reserve"}, key : GlobalKey]
    \cup [kind : {"replace", "release"}, key : GlobalKey, expected : Cycle]

Uses(effect) == IF effect.kind = "consume" THEN {effect.key} ELSE {}

-----------------------------------------------------------------------------

(***************************************************************************)
(* checkAuthorization..., checkReceipt..., checkGlobalKey...,              *)
(* checkGlobalKeyReplacement... and                                        *)
(* checkGlobalKeyReleaseAgainstDurableIndex: the same record may be staged *)
(* again, another one may not.                                             *)
(***************************************************************************)
PassesIndex(ix, c, effect) ==
    CASE effect.kind = "none" -> TRUE
      [] effect.kind = "consume" -> ix.owner[effect.key] \in {NoCycle, c}
      [] effect.kind = "reserve" -> ix.globals[effect.key] \in {NoCycle, c}
      [] effect.kind \in {"replace", "release"} -> ix.globals[effect.key] = effect.expected

ApplyToIndex(ix, c, effect) ==
    CASE effect.kind = "none" -> ix
      [] effect.kind = "consume" -> [ix EXCEPT !.owner[effect.key] = c]
      [] effect.kind \in {"reserve", "replace"} -> [ix EXCEPT !.globals[effect.key] = c]
      [] effect.kind = "release" -> [ix EXCEPT !.globals[effect.key] = NoCycle]

\* FixtureCycleStore's own check of a staged authorization or receipt.
PassesHot(p, c, effect) ==
    effect.kind = "consume" => hotOwner[p][effect.key] \in {NoCycle, c}

\* #buildHot: the evidence of the cycles that are still active.
EvidenceOf(ix, ids) ==
    [e \in Evidence |-> IF ix.owner[e] \in ids THEN ix.owner[e] ELSE NoCycle]

NothingHot == [c \in Cycle |-> <<>>]

Init ==
    /\ index = EmptyIndex
    /\ active = NothingHot /\ archive = NothingHot
    /\ lock = NoProcess
    /\ seen = [p \in Process |-> EmptyIndex]
    /\ hot = [p \in Process |-> NothingHot]
    /\ hotOwner = [p \in Process |-> EmptyIndex.owner]
    /\ activeIds = [p \in Process |-> {}]
    /\ pending = [p \in Process |-> {}]
    /\ phase = [p \in Process |-> "down"]
    /\ current = [p \in Process |-> NoCycle]
    /\ failures = 0

\* DurableCycleStore.open: an active file the index calls archived is stray.
Open(p) ==
    /\ phase[p] = "down" /\ lock = NoProcess
    /\ LET kept == [c \in Cycle |-> IF c \in index.archived THEN <<>> ELSE active[c]]
           ids  == {c \in Cycle : kept[c] # <<>>}
       IN  /\ active' = kept
           /\ hot' = [hot EXCEPT ![p] = kept]
           /\ hotOwner' = [hotOwner EXCEPT ![p] = EvidenceOf(index, ids)]
           /\ activeIds' = [activeIds EXCEPT ![p] = ids]
    /\ seen' = [seen EXCEPT ![p] = index]
    /\ phase' = [phase EXCEPT ![p] = "open"]
    /\ UNCHANGED <<index, archive, lock, pending, current, failures>>

\* begin and the staging calls, all against the memory of the process.
Begin(p, c, effect) ==
    /\ phase[p] # "down" /\ Cardinality(pending[p]) < MaxPending
    /\ Len(hot[p][c]) < MaxJournal
    /\ c \notin seen[p].archived
    /\ c \in activeIds[p] \/ Cardinality(activeIds[p]) < StoreCycles
    /\ PassesIndex(seen[p], c, effect) /\ PassesHot(p, c, effect)
    /\ pending' = [pending EXCEPT ![p] = @ \cup {[cycle |-> c, base |-> hot[p][c], effect |-> effect]}]
    /\ UNCHANGED <<disk, lock, memory, phase, current, failures>>

\* #withLock: the lock is free and this process is not using it.
Locked(p) == phase[p] = "open" /\ lock = NoProcess

\* Fault: the staged records are not checked again under the lock.
CommittableUnchecked(p, t) == hot[p][t.cycle] = t.base

\* Under the lock and against the index just read: the records staged, then
\* the version, the head and the evidence in #hot.
Committable(p, t) ==
    /\ PassesIndex(index, t.cycle, t.effect)
    /\ hot[p][t.cycle] = t.base
    /\ PassesHot(p, t.cycle, t.effect)

\* commit, up to its first write: #hot and #index change in memory.
Commit(p, t) ==
    /\ Locked(p) /\ t \in pending[p] /\ Committable(p, t)
    /\ pending' = [pending EXCEPT ![p] = @ \ {t}]
    /\ lock' = p
    /\ hot' = [hot EXCEPT ![p][t.cycle] = Append(@, [by |-> p, uses |-> Uses(t.effect)])]
    /\ hotOwner' = [hotOwner EXCEPT ![p] =
                      [e \in Evidence |-> IF e \in Uses(t.effect) THEN t.cycle ELSE @[e]]]
    /\ seen' = [seen EXCEPT ![p] = ApplyToIndex(index, t.cycle, t.effect)]
    /\ phase' = [phase EXCEPT ![p] = "index"]
    /\ current' = [current EXCEPT ![p] = t.cycle]
    /\ UNCHANGED <<disk, activeIds, failures>>

\* A commit that does not pass leaves the index it read behind.
RefuseCommit(p, t) ==
    /\ Locked(p) /\ t \in pending[p] /\ ~Committable(p, t)
    /\ pending' = [pending EXCEPT ![p] = @ \ {t}]
    /\ seen' = [seen EXCEPT ![p] = index]
    /\ UNCHANGED <<disk, lock, hot, hotOwner, activeIds, phase, current, failures>>

\* Another process has the lock: durable cycle store lock contention.
Contend(p, t) ==
    /\ phase[p] = "open" /\ lock \notin {NoProcess, p} /\ t \in pending[p]
    /\ pending' = [pending EXCEPT ![p] = @ \ {t}]
    /\ UNCHANGED <<disk, lock, memory, phase, current, failures>>

Finish(p) ==
    /\ lock' = NoProcess
    /\ phase' = [phase EXCEPT ![p] = "open"]
    /\ current' = [current EXCEPT ![p] = NoCycle]

\* Fault: the journal file is written before the index.
WriteIndexSecond(p) ==
    /\ phase[p] = "index"
    /\ active' = [active EXCEPT ![current[p]] = hot[p][current[p]]]
    /\ phase' = [phase EXCEPT ![p] = "journal"]
    /\ UNCHANGED <<index, archive, lock, memory, pending, current, failures>>

WriteIndex(p) ==
    /\ phase[p] = "index"
    /\ index' = seen[p]
    /\ phase' = [phase EXCEPT ![p] = "journal"]
    /\ UNCHANGED <<active, archive, lock, memory, pending, current, failures>>

\* Fault: the cycle is forgotten before it is added to #activeCycleIds.
WriteJournalForgetting(p) ==
    /\ phase[p] = "journal"
    /\ active' = [active EXCEPT ![current[p]] = hot[p][current[p]]]
    /\ Finish(p)
    /\ activeIds' = [activeIds EXCEPT ![p] = @ \cup {current'[p]}]
    /\ UNCHANGED <<index, archive, seen, hot, hotOwner, pending, failures>>

WriteJournal(p) ==
    /\ phase[p] = "journal"
    /\ active' = [active EXCEPT ![current[p]] = hot[p][current[p]]]
    /\ activeIds' = [activeIds EXCEPT ![p] = @ \cup {current[p]}]
    /\ Finish(p)
    /\ UNCHANGED <<index, archive, seen, hot, hotOwner, pending, failures>>

\* archiveCycle, up to the write of the archive file.
ArchiveCycle(p, c) ==
    /\ Locked(p)
    /\ c \notin index.archived /\ c \in activeIds[p] /\ hot[p][c] # <<>>
    /\ archive' = [archive EXCEPT ![c] = hot[p][c]]
    /\ seen' = [seen EXCEPT ![p] = [index EXCEPT !.archived = @ \cup {c}]]
    /\ lock' = p
    /\ phase' = [phase EXCEPT ![p] = "archiveIndex"]
    /\ current' = [current EXCEPT ![p] = c]
    /\ UNCHANGED <<index, active, hot, hotOwner, activeIds, pending, failures>>

\* Fault: the active file is unlinked before the index is written.
ArchiveUnlinkFirst(p) ==
    /\ phase[p] = "archiveIndex"
    /\ active' = [active EXCEPT ![current[p]] = <<>>]
    /\ phase' = [phase EXCEPT ![p] = "archiveUnlink"]
    /\ UNCHANGED <<index, archive, lock, memory, pending, current, failures>>

ArchiveIndex(p) ==
    /\ phase[p] = "archiveIndex"
    /\ index' = seen[p]
    /\ phase' = [phase EXCEPT ![p] = "archiveUnlink"]
    /\ UNCHANGED <<active, archive, lock, memory, pending, current, failures>>

\* The active file goes and #hot is rebuilt from the cycles that remain.
ArchiveUnlink(p) ==
    /\ phase[p] = "archiveUnlink"
    /\ LET ids == activeIds[p] \ {current[p]}
       IN  /\ activeIds' = [activeIds EXCEPT ![p] = ids]
           /\ hot' = [hot EXCEPT ![p] = [c \in Cycle |-> IF c \in ids THEN @[c] ELSE <<>>]]
           /\ hotOwner' = [hotOwner EXCEPT ![p] = EvidenceOf(seen[p], ids)]
    /\ active' = [active EXCEPT ![current[p]] = <<>>]
    /\ Finish(p)
    /\ UNCHANGED <<index, archive, seen, pending, failures>>

\* atomicWriteFile throws, before its rename or after it (the directory is
\* synced last): the lock is released and the memory keeps what it has.
FailWrite(p) ==
    /\ phase[p] \in FailPoints /\ failures < MaxFailures
    /\ failures' = failures + 1
    /\ \/ UNCHANGED disk
       \/ /\ phase[p] \in {"index", "archiveIndex"}
          /\ index' = seen[p]
          /\ UNCHANGED <<active, archive>>
       \/ /\ phase[p] = "journal"
          /\ active' = [active EXCEPT ![current[p]] = hot[p][current[p]]]
          /\ UNCHANGED <<index, archive>>
    /\ Finish(p)
    /\ UNCHANGED <<memory, pending>>

ReadGlobalKey(p) ==
    /\ Locked(p)
    /\ seen' = [seen EXCEPT ![p] = index]
    /\ UNCHANGED <<disk, lock, hot, hotOwner, activeIds, pending, phase, current, failures>>

\* reserveGlobalKey and releaseGlobalKey outside a transaction: one write.
ChangeGlobalKey(p, c, effect) ==
    /\ Locked(p) /\ effect.kind \in {"reserve", "release"}
    /\ effect.kind = "release" => effect.expected = c
    /\ PassesIndex(index, c, effect)
    /\ index' = ApplyToIndex(index, c, effect)
    /\ seen' = [seen EXCEPT ![p] = index']
    /\ UNCHANGED <<active, archive, lock, hot, hotOwner, activeIds, pending, phase, current, failures>>

\* The process dies; the operating system frees its lock.
Crash(p) ==
    /\ phase[p] # "down"
    /\ phase' = [phase EXCEPT ![p] = "down"]
    /\ lock' = IF lock = p THEN NoProcess ELSE lock
    /\ current' = [current EXCEPT ![p] = NoCycle]
    /\ pending' = [pending EXCEPT ![p] = {}]
    /\ seen' = [seen EXCEPT ![p] = EmptyIndex]
    /\ hot' = [hot EXCEPT ![p] = NothingHot]
    /\ hotOwner' = [hotOwner EXCEPT ![p] = EmptyIndex.owner]
    /\ activeIds' = [activeIds EXCEPT ![p] = {}]
    /\ UNCHANGED <<disk, failures>>

Next ==
    \E p \in Process :
        \/ Open(p) \/ Crash(p) \/ ReadGlobalKey(p)
        \/ \E c \in Cycle, effect \in Effects :
              Begin(p, c, effect) \/ ChangeGlobalKey(p, c, effect)
        \/ \E t \in pending[p] : Commit(p, t) \/ RefuseCommit(p, t) \/ Contend(p, t)
        \/ WriteIndex(p) \/ WriteJournal(p) \/ FailWrite(p)
        \/ \E c \in Cycle : ArchiveCycle(p, c)
        \/ ArchiveIndex(p) \/ ArchiveUnlink(p)

Spec == Init /\ [][Next]_vars

-----------------------------------------------------------------------------

\* The files and the memory of an opened store have the shape the store reads
\* back: evidence and reservations belong to cycles, only cycles are active.
TypeOK ==
    /\ index \in Index /\ seen \in [Process -> Index]
    /\ active \in [Cycle -> Seq(Entry)] /\ archive \in [Cycle -> Seq(Entry)]
    /\ hot \in [Process -> [Cycle -> Seq(Entry)]]
    /\ hotOwner \in [Process -> [Evidence -> Owner]]
    /\ activeIds \in [Process -> SUBSET Cycle]
    /\ \A p \in Process : \A t \in pending[p] :
          t.cycle \in Cycle /\ t.base \in Seq(Entry) /\ t.effect \in Effects
    /\ phase \in [Process -> Phases] /\ current \in [Process -> Owner]
    /\ lock \in Process \cup {NoProcess} /\ failures \in 0 .. MaxFailures

\* The journal a process that opens the directory now would read.
DurableJournal(c) == IF c \in index.archived THEN archive[c] ELSE active[c]

\* The journal of a cycle on disk only ever grows at its end: through
\* overlapping transactions, deaths and failed writes, and through archiving.
JournalAppendOnly ==
    [][\A c \in Cycle : IsPrefix(DurableJournal(c), DurableJournal(c)')]_vars

Consumed(c) == UNION {DurableJournal(c)[i].uses : i \in DOMAIN DurableJournal(c)}

\* No two cycles consume the same authorization, nonce or receipt, also after
\* the first of them was archived or the process was restarted.
EvidenceConsumedOnce ==
    \A c, d \in Cycle : c # d => Consumed(c) \cap Consumed(d) = {}

\* "The index is never behind the journal it protects": every piece of
\* evidence a journal on disk consumed is registered to its cycle on disk.
IndexCoversJournal ==
    \A c \in Cycle : \A e \in Consumed(c) : index.owner[e] = c
=============================================================================
