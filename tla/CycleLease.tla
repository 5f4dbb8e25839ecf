----------------------------- MODULE CycleLease -----------------------------
(***************************************************************************)
(* The exclusive cycle lease that keeps two hookemon-runner processes from *)
(* driving cycles of one state directory at once: acquireLease, renewLease *)
(* and releaseLease of runner/src/automation/exclusive-lease.mjs over the  *)
(* file store of adapters/src/app/lease-store.mjs, whose compare-and-swap  *)
(* runs under an O_EXCL lock file, as AutomatedCycleService#run calls them *)
(* (acquire first, renew from the heartbeat and after every stage, release *)
(* in the finally block).                                                  *)
(*                                                                         *)
(* A call samples the clock, reads the record, spins on the lock file,     *)
(* compares the version, writes and unlinks the lock file; the processes   *)
(* interleave between any two of these and may die at CrashPoints.         *)
(***************************************************************************)
EXTENDS Integers

CONSTANTS
    Process,
    NoProcess,
    NoLease,      \* null
    TTL,          \* leaseTtlMs
    CrashPoints,  \* steps at which a process may die
    MaxTime, MaxVersion, MaxCrashes   \* bounds of a run

Steps == {"idle", "sampled", "spin", "locked", "write", "written", "failed"}

ASSUME LeaseAssumption ==
    /\ NoProcess \notin Process
    /\ TTL \in Nat \ {0}
    /\ CrashPoints \subseteq Steps
    /\ MaxTime \in Nat /\ MaxVersion \in Nat /\ MaxCrashes \in Nat

\* A random token is unique: it is named by who drew it for which version.
Lease == [version : Nat, token : Process \X Nat, acquiredAt : Nat, expiresAt : Nat]

ASSUME NoLeaseAssumption == NoLease \notin Lease

VARIABLES
    now,
    version, lease,   \* the lease file
    lockFile,         \* who created <path>.lock, NoProcess when absent
    op, step,         \* the call a process is in, and where it is in it
    at,               \* the call's now argument
    subject,          \* the call's lease argument
    expected, next,   \* arguments of compareAndSwapLease
    held,             \* the lease AutomatedCycleService#run works under
    crashes

file == <<version, lease>>
callVars == <<op, step, at, subject, expected, next>>
vars == <<now, file, lockFile, callVars, held, crashes>>

Expired(l, t) == l.expiresAt <= t

SameLease(a, b) == a.version = b.version /\ a.token = b.token

-----------------------------------------------------------------------------

Init ==
    /\ now = 0 /\ crashes = 0
    /\ version = 0 /\ lease = NoLease /\ lockFile = NoProcess
    /\ op = [p \in Process |-> "none"] /\ step = [p \in Process |-> "idle"]
    /\ at = [p \in Process |-> 0] /\ expected = [p \in Process |-> 0]
    /\ subject = [p \in Process |-> NoLease] /\ next = [p \in Process |-> NoLease]
    /\ held = [p \in Process |-> NoLease]

Tick ==
    /\ now < MaxTime
    /\ now' = now + 1
    /\ UNCHANGED <<file, lockFile, callVars, held, crashes>>

Goto(p, s) == step' = [step EXCEPT ![p] = s]

Enter(p, o) ==
    /\ Goto(p, "sampled")
    /\ op' = [op EXCEPT ![p] = o]
    /\ at' = [at EXCEPT ![p] = now]
    /\ subject' = [subject EXCEPT ![p] = held[p]]
    /\ UNCHANGED <<now, file, lockFile, expected, next, crashes>>

\* A tick of the scheduler begins with acquireLease.
CallAcquire(p) ==
    /\ step[p] = "idle" /\ held[p] = NoLease
    /\ version < MaxVersion
    /\ Enter(p, "acquire")
    /\ UNCHANGED held

\* The heartbeat timer and the end of a stage renew, until a renewal fails.
CallRenew(p) ==
    /\ step[p] = "idle" /\ held[p] # NoLease /\ op[p] # "lost"
    /\ version < MaxVersion
    /\ Enter(p, "renew")
    /\ UNCHANGED held

\* The finally block: the run is over, whatever releaseLease answers.
CallRelease(p) ==
    /\ step[p] = "idle" /\ held[p] # NoLease
    /\ Enter(p, "release")
    /\ held' = [held EXCEPT ![p] = NoLease]

\* The call is over and its locals are gone.
Return(p, o) ==
    /\ Goto(p, "idle")
    /\ op' = [op EXCEPT ![p] = o]
    /\ at' = [at EXCEPT ![p] = 0] /\ expected' = [expected EXCEPT ![p] = 0]
    /\ subject' = [subject EXCEPT ![p] = NoLease] /\ next' = [next EXCEPT ![p] = NoLease]

\* The call throws: a failed renewal leaves a run that can only release.
Throw(p) == Return(p, IF op[p] = "renew" THEN "lost" ELSE "none")

\* Fault: a lease in its last unit of time already counts as expired.
AcquirableEarly(l, t) == l # NoLease => Expired(l, t + 1)

Acquirable(l, t) == l # NoLease => Expired(l, t)

Owned(p) == lease # NoLease /\ SameLease(lease, subject[p])

Swap(p, l) ==
    /\ Goto(p, "spin")
    /\ expected' = [expected EXCEPT ![p] = version]
    /\ next' = [next EXCEPT ![p] = l]
    /\ UNCHANGED <<op, at, subject>>

ReadAcquire(p) ==
    /\ step[p] = "sampled" /\ op[p] = "acquire"
    /\ \/ /\ Acquirable(lease, at[p])
          /\ Swap(p, [version |-> version + 1, token |-> <<p, version + 1>>,
                      acquiredAt |-> at[p], expiresAt |-> at[p] + TTL])
       \/ /\ ~Acquirable(lease, at[p])
          /\ Throw(p)
    /\ UNCHANGED <<now, file, lockFile, held, crashes>>

ReadRenew(p) ==
    /\ step[p] = "sampled" /\ op[p] = "renew"
    /\ \/ /\ Owned(p) /\ ~Expired(lease, at[p])
          /\ Swap(p, [lease EXCEPT !.version = version + 1, !.expiresAt = at[p] + TTL])
       \/ /\ ~(Owned(p) /\ ~Expired(lease, at[p]))
          /\ Throw(p)
    /\ UNCHANGED <<now, file, lockFile, held, crashes>>

\* releaseLease does not ask whether the lease expired.
ReadRelease(p) ==
    /\ step[p] = "sampled" /\ op[p] = "release"
    /\ \/ Owned(p) /\ Swap(p, NoLease)
       \/ ~Owned(p) /\ Throw(p)
    /\ UNCHANGED <<now, file, lockFile, held, crashes>>

\* openSync(lockPath, 'wx').
TakeLock(p) ==
    /\ step[p] = "spin"
    /\ lockFile = NoProcess
    /\ lockFile' = p
    /\ Goto(p, "locked")
    /\ UNCHANGED <<now, file, op, at, subject, expected, next, held, crashes>>

\* LOCK_MAX_ATTEMPTS openings found the lock file present.
GiveUp(p) ==
    /\ step[p] = "spin"
    /\ lockFile # NoProcess
    /\ Throw(p)
    /\ UNCHANGED <<now, file, lockFile, held, crashes>>

\* Fault: the version is not compared.
CompareBlind(p) ==
    /\ step[p] = "locked"
    /\ Goto(p, "write")
    /\ UNCHANGED <<now, file, lockFile, op, at, subject, expected, next, held, crashes>>

Compare(p) ==
    /\ step[p] = "locked"
    /\ Goto(p, IF version = expected[p] THEN "write" ELSE "failed")
    /\ UNCHANGED <<now, file, lockFile, op, at, subject, expected, next, held, crashes>>

\* writeRecordAtomic: the rename shows the new record at once.
Write(p) ==
    /\ step[p] = "write"
    /\ version' = expected[p] + 1
    /\ lease' = next[p]
    /\ Goto(p, "written")
    /\ UNCHANGED <<now, lockFile, op, at, subject, expected, next, held, crashes>>

\* Fault: a compare that failed returns without unlinking the lock file.
UnlockWhenWritten(p) ==
    /\ step[p] \in {"written", "failed"}
    /\ lockFile' = IF step[p] = "written" THEN NoProcess ELSE lockFile
    /\ \/ /\ step[p] = "written"
          /\ Return(p, "none")
          /\ held' = [held EXCEPT ![p] = next[p]]
       \/ step[p] = "failed" /\ Throw(p) /\ UNCHANGED held
    /\ UNCHANGED <<now, file, crashes>>

\* The finally of withLock, and the return of the call.
Unlock(p) ==
    /\ step[p] \in {"written", "failed"}
    /\ lockFile' = NoProcess
    /\ \/ /\ step[p] = "written"
          /\ Return(p, "none")
          /\ held' = [held EXCEPT ![p] = next[p]]
       \/ step[p] = "failed" /\ Throw(p) /\ UNCHANGED held
    /\ UNCHANGED <<now, file, crashes>>

\* The process dies and is started again; the files stay as they are.
Crash(p) ==
    /\ step[p] \in CrashPoints /\ crashes < MaxCrashes
    /\ crashes' = crashes + 1
    /\ Return(p, "none")
    /\ held' = [held EXCEPT ![p] = NoLease]
    /\ UNCHANGED <<now, file, lockFile>>

Advance(p) ==
    \/ ReadAcquire(p) \/ ReadRenew(p) \/ ReadRelease(p)
    \/ TakeLock(p) \/ GiveUp(p) \/ Compare(p) \/ Write(p) \/ Unlock(p)

Next ==
    \/ Tick
    \/ \E p \in Process :
          CallAcquire(p) \/ CallRenew(p) \/ CallRelease(p) \/ Advance(p) \/ Crash(p)

Spec == Init /\ [][Next]_vars

(***************************************************************************)
(* Time passes, a process that is in a call keeps executing it, the        *)
(* scheduler's timer keeps starting ticks, and a run ends: with all stages *)
(* done or in the next assertLease after its lease was lost, either way    *)
(* through the finally block.  Nothing obliges a holder to renew.          *)
(***************************************************************************)
Fairness ==
    /\ WF_vars(Tick)
    /\ \A p \in Process :
          WF_vars(Advance(p)) /\ WF_vars(CallAcquire(p)) /\ WF_vars(CallRelease(p))

FairSpec == Spec /\ Fairness

-----------------------------------------------------------------------------

\* The lease file, the lock file and the locals of a call hold what the code
\* puts there: a lease never expires before time zero, null is NoLease.
TypeOK ==
    /\ now \in Nat /\ version \in Nat /\ crashes \in Nat
    /\ lease \in Lease \cup {NoLease}
    /\ lockFile \in Process \cup {NoProcess}
    /\ op \in [Process -> {"none", "acquire", "renew", "release", "lost"}]
    /\ step \in [Process -> Steps]
    /\ at \in [Process -> Nat] /\ expected \in [Process -> Nat]
    /\ subject \in [Process -> Lease \cup {NoLease}]
    /\ next \in [Process -> Lease \cup {NoLease}]
    /\ held \in [Process -> Lease \cup {NoLease}]

Live(p) == held[p] # NoLease /\ ~Expired(held[p], now)

\* Two runner processes never both work under a lease that has not run out,
\* however their acquisitions, renewals, releases and deaths interleave.
AtMostOneLive == \A p, q \in Process : Live(p) /\ Live(q) => p = q

\* A holder whose lease has not run out passes assertLeaseCurrent: nobody
\* took the file away from under it.  (Between the write of its own renewal
\* and the return of that call it is not executing anything else.)
HolderIsCurrent ==
    \A p \in Process :
        Live(p) /\ step[p] # "written" =>
            lease # NoLease /\ SameLease(lease, held[p]) /\ ~Expired(lease, now)

\* A lease that replaces another one in the file was acquired after that one
\* ran out: what validWalletNonceTakeover expects of two lease windows.
LeaseWindowsDisjoint ==
    [][lease # NoLease /\ lease' # NoLease /\ lease'.token # lease.token
         => lease'.acquiredAt >= lease.expiresAt]_vars

\* A lease that ran out (its holder died, say) does not stay: some scheduler
\* tick acquires it, or its holder renews or releases it at the last moment.
ExpiredLeaseIsRecovered ==
    (lease # NoLease /\ Expired(lease, now) /\ version < MaxVersion)
        ~> (lease = NoLease \/ ~Expired(lease, now) \/ version = MaxVersion)

=============================================================================
