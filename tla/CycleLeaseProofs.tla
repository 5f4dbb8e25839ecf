-------------------------- MODULE CycleLeaseProofs --------------------------
(***************************************************************************)
(* Mutual exclusion of the cycle lease for every number of processes,      *)
(* every time to live and every place a process may die at, the lock file  *)
(* included: a lock file left behind stops the lease and never shares it.  *)
(*                                                                         *)
(* The argument is that of a compare-and-swap.  What a call read is still  *)
(* in the file as long as the version is the one it read (Snapshot); the   *)
(* lock file keeps the version between the comparison and the rename       *)
(* (Exclusive); and a token belongs to the process that drew it (Tokens).  *)
(***************************************************************************)
EXTENDS CycleLease, TLAPS

InLock == {"locked", "write", "written", "failed"}
Swapping == {"spin", "locked", "write"}

\* Inside withLock the lock file is the process's own, and after the
\* comparison the version is the expected one.
Exclusive(p) ==
    /\ step[p] \in InLock => lockFile = p
    /\ step[p] = "write" => version = expected[p]
    /\ step[p] = "written" => lease = next[p]

\* The clock was sampled and the version read in the past.
Earlier(p) == at[p] <= now /\ (step[p] \in Swapping => expected[p] <= version)

\* Which leases a call works with.
Arguments(p) ==
    /\ step[p] # "idle" => op[p] \in {"acquire", "renew", "release"}
    /\ step[p] # "idle" /\ op[p] \in {"acquire", "release"} => held[p] = NoLease
    /\ step[p] # "idle" /\ op[p] = "renew" => subject[p] = held[p] /\ held[p] # NoLease
    /\ step[p] # "idle" /\ op[p] = "release" => subject[p] # NoLease
    /\ step[p] \in Swapping /\ op[p] = "acquire" => next[p] # NoLease /\ next[p].acquiredAt = at[p]
    /\ step[p] \in Swapping /\ op[p] = "release" => next[p] = NoLease

\* What the call read is in the file while the version is the one it read.
Snapshot(p) ==
    step[p] \in Swapping /\ version = expected[p] =>
        /\ op[p] = "acquire" => Acquirable(lease, at[p])
        /\ op[p] \in {"renew", "release"} => lease # NoLease /\ lease.token[1] = p
        /\ op[p] = "renew" => next[p].token = lease.token

\* A token is held and passed on only by the process that drew it.
Tokens(p) ==
    /\ held[p] # NoLease => held[p].token[1] = p
    /\ subject[p] # NoLease => subject[p].token[1] = p
    /\ next[p] # NoLease => next[p].token[1] = p

\* A live lease is the one in the file, until its holder's own renewal is.
Current(p) == Live(p) /\ step[p] # "written" => lease = held[p]

CallInv(p) == Exclusive(p) /\ Earlier(p) /\ Arguments(p) /\ Snapshot(p) /\ Tokens(p) /\ Current(p)

IInv == TypeOK /\ \A p \in Process : CallInv(p)

\* The lease files start empty and no process is in a call.
LEMMA InitInvariant == Init => IInv
<1> SUFFICES ASSUME Init PROVE IInv
  OBVIOUS
<1>1. TypeOK
  BY LeaseAssumption DEF Init, TypeOK, Steps
<1>2. ASSUME NEW p \in Process PROVE CallInv(p)
  BY DEF Init, CallInv, Exclusive, Earlier, Arguments, Snapshot, Tokens, Current, Live, InLock, Swapping
<1> QED BY <1>1, <1>2 DEF IInv

Renewed(p) == [lease EXCEPT !.version = version + 1, !.expiresAt = at[p] + TTL]

\* Replacing two fields of a lease gives a lease with the same token.
LEMMA TwoFields ==
    \A l \in Lease : \A v, t \in Nat :
        LET r == [l EXCEPT !.version = v, !.expiresAt = t]
        IN  r \in Lease /\ r.token = l.token
<1> TAKE l \in Lease
<1> TAKE v, t \in Nat
<1>1. ASSUME NEW r, r = [l EXCEPT !.version = v, !.expiresAt = t]
      PROVE  r \in Lease /\ r.token = l.token
  <2>1. r = [version |-> v, token |-> l.token, acquiredAt |-> l.acquiredAt, expiresAt |-> t]
    BY <1>1 DEF Lease
  <2> QED BY <2>1 DEF Lease
<1> QED BY <1>1, Zenon

\* renewLease writes a lease and keeps its token.
LEMMA Renewal ==
    ASSUME TypeOK, lease # NoLease, NEW p \in Process
    PROVE  Renewed(p) \in Lease /\ Renewed(p).token = lease.token
<1>1. lease \in Lease /\ version + 1 \in Nat /\ at[p] + TTL \in Nat
  BY LeaseAssumption DEF TypeOK
<1> QED BY <1>1, TwoFields, Zenon DEF Renewed

\* The records a call writes are leases.
LEMMA TypeStep == TypeOK /\ [Next]_vars => TypeOK'
<1> SUFFICES ASSUME TypeOK, [Next]_vars PROVE TypeOK'
  OBVIOUS
<1> USE LeaseAssumption, NoLeaseAssumption
<1> USE DEF TypeOK, Steps, file, callVars
<1>1. CASE Tick
  BY <1>1 DEF Tick
<1>2. CASE UNCHANGED vars
  BY <1>2 DEF vars
<1>3. ASSUME NEW p \in Process, CallAcquire(p) \/ CallRenew(p) \/ CallRelease(p) \/ Advance(p) \/ Crash(p)
      PROVE  TypeOK'
  <2>1. CASE CallAcquire(p)
    BY <2>1 DEF CallAcquire, Enter, Goto
  <2>2. CASE CallRenew(p)
    BY <2>2 DEF CallRenew, Enter, Goto
  <2>3. CASE CallRelease(p)
    BY <2>3 DEF CallRelease, Enter, Goto
  <2>4. CASE ReadAcquire(p)
    BY <2>4 DEF ReadAcquire, Swap, Throw, Return, Goto, Lease
  <2>5. CASE ReadRenew(p)
    <3>1. CASE Throw(p)
      BY <2>5, <3>1 DEF ReadRenew, Throw, Return, Goto
    <3>2. CASE Owned(p) /\ Swap(p, Renewed(p))
      <4>1. Renewed(p) \in Lease
        BY <3>2, Renewal DEF Owned
      <4> QED BY <2>5, <3>2, <4>1 DEF ReadRenew, Swap, Goto
    <3> QED BY <2>5, <3>1, <3>2 DEF ReadRenew, Renewed
  <2>6. CASE ReadRelease(p)
    BY <2>6 DEF ReadRelease, Swap, Throw, Return, Goto
  <2>7. CASE TakeLock(p)
    BY <2>7 DEF TakeLock, Goto
  <2>8. CASE GiveUp(p)
    BY <2>8 DEF GiveUp, Throw, Return, Goto
  <2>9. CASE Compare(p)
    BY <2>9 DEF Compare, Goto
  <2>10. CASE Write(p)
    BY <2>10 DEF Write, Goto
  <2>11. CASE Unlock(p)
    BY <2>11 DEF Unlock, Throw, Return, Goto
  <2>12. CASE Crash(p)
    BY <2>12 DEF Crash, Return, Goto
  <2> QED BY <1>3, <2>1, <2>2, <2>3, <2>4, <2>5, <2>6, <2>7, <2>8, <2>9, <2>10, <2>11, <2>12 DEF Advance
<1> QED BY <1>1, <1>2, <1>3 DEF Next

\* A step of p keeps what is known of every call q.
LEMMA CallStep ==
    ASSUME IInv, TypeOK', NEW p \in Process, NEW q \in Process,
           CallAcquire(p) \/ CallRenew(p) \/ CallRelease(p) \/ Advance(p) \/ Crash(p)
    PROVE  CallInv(q)'
<1> USE LeaseAssumption, NoLeaseAssumption
<1>0. CallInv(p) /\ CallInv(q) /\ TypeOK
  BY DEF IInv
<1> USE DEF TypeOK, CallInv, Exclusive, Earlier, Arguments, Snapshot, Tokens, Current, Live, Expired, Acquirable,
            SameLease, InLock, Swapping, Steps, file, callVars
<1>1. CASE CallAcquire(p)
  BY <1>0, <1>1 DEF CallAcquire, Enter, Goto
<1>2. CASE CallRenew(p)
  BY <1>0, <1>2 DEF CallRenew, Enter, Goto
<1>3. CASE CallRelease(p)
  BY <1>0, <1>3 DEF CallRelease, Enter, Goto
<1>4. CASE ReadAcquire(p)
  BY <1>0, <1>4 DEF ReadAcquire, Swap, Throw, Return, Goto, Lease
<1>5. CASE ReadRenew(p)
  <2>1. CASE Throw(p)
    BY <1>0, <1>5, <2>1 DEF ReadRenew, Throw, Return, Goto
  <2>2. CASE Owned(p) /\ Swap(p, Renewed(p))
    <3>1. Renewed(p) \in Lease /\ Renewed(p).token = lease.token
      BY <1>0, <2>2, Renewal DEF Owned
    <3> QED BY <1>0, <1>5, <2>2, <3>1 DEF ReadRenew, Swap, Owned, Goto
  <2> QED BY <1>5, <2>1, <2>2 DEF ReadRenew, Renewed
<1>6. CASE ReadRelease(p)
  BY <1>0, <1>6 DEF ReadRelease, Swap, Throw, Return, Goto, Owned
<1>7. CASE TakeLock(p)
  BY <1>0, <1>7 DEF TakeLock, Goto
<1>8. CASE GiveUp(p)
  BY <1>0, <1>8 DEF GiveUp, Throw, Return, Goto
<1>9. CASE Compare(p)
  BY <1>0, <1>9 DEF Compare, Goto
<1>10. CASE Write(p)
  <2>1. lockFile = p /\ version = expected[p]
    BY <1>0, <1>10 DEF Write
  <2>2. step[q] \in InLock => q = p
    BY <1>0, <2>1
  <2>3. q # p => Exclusive(q)'
    BY <1>0, <1>10, <2>2 DEF Write, Goto
  <2>4. Exclusive(p)'
    BY <1>0, <1>10, <2>1 DEF Write, Goto
  <2>5. Earlier(q)' /\ Arguments(q)' /\ Tokens(q)'
    BY <1>0, <1>10, <2>1 DEF Write, Goto
  <2>6. Snapshot(q)'
    BY <1>0, <1>10, <2>1, <2>2 DEF Write, Goto
  <2>7. Current(q)'
    <3>1. CASE q = p
      BY <1>0, <1>10, <3>1 DEF Write, Goto
    <3>2. CASE q # p /\ Live(q)
      <4>1. lease = held[q] /\ lease # NoLease /\ lease \in Lease /\ lease.token[1] = q
        BY <1>0, <2>2, <3>2
      <4>2. op[p] = "acquire" => lease.expiresAt <= now
        <5>1. op[p] = "acquire" => lease.expiresAt <= at[p]
          BY <1>0, <1>10, <2>1, <4>1 DEF Write
        <5> QED BY <1>0, <4>1, <5>1 DEF Lease
      <4>3. op[p] \in {"renew", "release"} => lease.token[1] = p
        BY <1>0, <1>10, <2>1 DEF Write
      <4>4. ~(lease.expiresAt <= now)
        BY <3>2, <4>1
      <4>5. op[p] \in {"acquire", "renew", "release"}
        BY <1>0, <1>10 DEF Write
      <4> QED BY <3>2, <4>1, <4>2, <4>3, <4>4, <4>5
    <3>3. CASE ~Live(q)
      BY <1>10, <3>3 DEF Write
    <3> QED BY <3>1, <3>2, <3>3
  <2> QED BY <2>3, <2>4, <2>5, <2>6, <2>7
<1>11. CASE Unlock(p)
  BY <1>0, <1>11 DEF Unlock, Throw, Return, Goto
<1>12. CASE Crash(p)
  BY <1>0, <1>12 DEF Crash, Return, Goto
<1> QED BY <1>1, <1>2, <1>3, <1>4, <1>5, <1>6, <1>7, <1>8, <1>9, <1>10, <1>11, <1>12 DEF Advance

\* Time only ever ends a lease.
LEMMA TickStep ==
    ASSUME IInv, Tick, NEW q \in Process
    PROVE  CallInv(q)'
<1>1. CallInv(q) /\ TypeOK
  BY DEF IInv
<1>2. held[q] # NoLease => held[q].expiresAt \in Nat
  BY <1>1 DEF TypeOK, Lease
<1>3. now' \in Nat /\ now <= now' /\ at[q] <= now' /\ at[q] \in Nat
  BY <1>1 DEF Tick, TypeOK, CallInv, Earlier
<1>4. Live(q)' => Live(q)
  BY <1>1, <1>2, <1>3 DEF Live, Expired, Tick, TypeOK
<1> QED BY <1>1, <1>3, <1>4
        DEF Tick, CallInv, Exclusive, Earlier, Arguments, Snapshot, Tokens, Current, file, callVars, Acquirable, Expired

LEMMA StepInvariant == IInv /\ [Next]_vars => IInv'
<1> SUFFICES ASSUME IInv, [Next]_vars PROVE IInv'
  OBVIOUS
<1>1. TypeOK'
  BY TypeStep DEF IInv
<1>2. ASSUME NEW q \in Process PROVE CallInv(q)'
  <2>1. CASE Tick
    BY <2>1, TickStep
  <2>2. CASE UNCHANGED vars
    BY <2>2 DEF vars, file, callVars, IInv, CallInv, Exclusive, Earlier, Arguments, Snapshot, Tokens, Current,
                Live, Expired, Acquirable
  <2>3. ASSUME NEW p \in Process, CallAcquire(p) \/ CallRenew(p) \/ CallRelease(p) \/ Advance(p) \/ Crash(p)
        PROVE  CallInv(q)'
    BY <1>1, <2>3, CallStep
  <2> QED BY <2>1, <2>2, <2>3 DEF Next
<1> QED BY <1>1, <1>2 DEF IInv

LEMMA Inductive == Spec => []IInv
BY InitInvariant, StepInvariant, PTL DEF Spec

\* Of two live holders each has its lease, and so its token, in the file: in
\* the lease it holds or in the renewal it has just written.
LEMMA ExclusionFromParts == IInv => AtMostOneLive
<1> SUFFICES ASSUME IInv, NEW p \in Process, NEW q \in Process, Live(p), Live(q) PROVE p = q
  BY DEF AtMostOneLive
<1>1. ASSUME NEW r \in Process, Live(r) PROVE (lease # NoLease /\ lease.token[1] = r) \/ step[r] = "written"
  BY <1>1 DEF IInv, CallInv, Current, Tokens, Live
<1>2. ASSUME NEW r \in Process, Live(r), step[r] = "written"
      PROVE  lockFile = r /\ lease = next[r]
  BY <1>2 DEF IInv, CallInv, Exclusive, InLock
<1>3. ASSUME NEW r \in Process, next[r] # NoLease PROVE next[r].token[1] = r
  BY <1>3 DEF IInv, CallInv, Tokens
<1> QED BY <1>1, <1>2, <1>3

\* The lease file holds the live lease of a process that is not returning from a swap.
LEMMA CurrencyFromParts == IInv => HolderIsCurrent
BY DEF IInv, CallInv, Current, HolderIsCurrent, SameLease, Live

\* Only a write changes the lease, and only an acquisition changes its token.
LEMMA WindowStep ==
    ASSUME IInv, [Next]_vars, lease # NoLease, lease' # NoLease, lease'.token # lease.token
    PROVE  lease'.acquiredAt >= lease.expiresAt
<1>1. PICK p \in Process : Write(p)
  BY DEF Next, vars, file, Tick, CallAcquire, CallRenew, CallRelease, Enter, Advance, ReadAcquire, ReadRenew,
         ReadRelease, TakeLock, GiveUp, Compare, Unlock, Crash
<1>2. lease' = next[p] /\ step[p] = "write" /\ version = expected[p]
  BY <1>1 DEF Write, IInv, CallInv, Exclusive
<1>3. op[p] = "acquire"
  BY <1>2 DEF IInv, CallInv, Arguments, Snapshot, Swapping
<1>4. next[p].acquiredAt = at[p] /\ lease.expiresAt <= at[p]
  BY <1>2, <1>3 DEF IInv, CallInv, Arguments, Snapshot, Swapping, Acquirable, Expired
<1>5. at[p] \in Nat /\ lease.expiresAt \in Nat
  BY DEF IInv, TypeOK, Lease
<1> QED BY <1>2, <1>4, <1>5

\* The lease file, the lock file and the locals of acquireLease, renewLease and
\* releaseLease keep their types.
THEOREM TypeCorrect == Spec => []TypeOK
BY Inductive, PTL DEF IInv

\* At most one process works under a lease that has not run out, for any number
\* of processes that may die anywhere in acquireLease, renewLease, releaseLease.
THEOREM MutualExclusion == Spec => []AtMostOneLive
BY Inductive, ExclusionFromParts, PTL

\* assertLeaseCurrent accepts a holder until its lease runs out.
THEOREM NobodyIsDisplaced == Spec => []HolderIsCurrent
BY Inductive, CurrencyFromParts, PTL

\* The lease windows that validWalletNonceTakeover compares never overlap.
THEOREM WindowsNeverOverlap == Spec => LeaseWindowsDisjoint
<1>1. IInv /\ [Next]_vars
        => [lease # NoLease /\ lease' # NoLease /\ lease'.token # lease.token
              => lease'.acquiredAt >= lease.expiresAt]_vars
  BY WindowStep
<1> QED BY Inductive, <1>1, PTL DEF Spec, LeaseWindowsDisjoint
=============================================================================
