---------------------------- MODULE OperatorState ----------------------------
(***************************************************************************)
(* The operator state file and the two sides that write it: the commands   *)
(* of runner/src/operator/control.mjs and the reservations the automated   *)
(* cycle service makes through the policy engine.  Every write is          *)
(* mutateOperatorState of runner/src/operator/state-file.mjs: create the   *)
(* lock file, read, compare the revision, mutate, rename, remove the lock. *)
(* The lock of a process that died is removed by the next one, in three    *)
(* steps of its own (read the owner, compare the inode, unlink).           *)
(*                                                                         *)
(* Processes interleave between these steps and die at CrashPoints; the    *)
(* wall clock advances and, MaxClockSteps times, is set back.              *)
(***************************************************************************)
EXTENDS PolicyEngine

CONSTANTS
    Service,         \* the process that runs the automated cycle service
    Operators,       \* processes and requests that execute commands
    NoCycle, NoLock,
    FirstPolicy,
    Attempts,        \* of mutatePolicyConfiguration
    CrashPoints,     \* <<process, step>>: where a process may die
    Restarting,      \* processes that start again
    MaxTime, MaxRevision, MaxCrashes, MaxClockSteps   \* bounds of a run

Process == Operators \cup {Service}

Steps == {"idle", "begun", "exists", "stale", "unlink", "reopen", "opened",
          "owned", "mutate", "renamed", "done", "recover", "dead"}

ASSUME OperatorAssumption ==
    /\ Service \notin Operators
    /\ NoCycle \notin Cycle
    /\ FirstPolicy \in Policies
    /\ Attempts \in Nat \ {0}
    /\ CrashPoints \subseteq Process \X Steps /\ Restarting \subseteq Process
    /\ MaxTime \in Nat /\ MaxRevision \in Nat /\ MaxCrashes \in Nat /\ MaxClockSteps \in Nat

\* The lock file: who made it, whether that process still runs, and whether
\* it has written its owner record into the file.
Lock == [owner : Process, alive : BOOLEAN, written : BOOLEAN]

ASSUME NoLockAssumption == NoLock \notin Lock

\* What a process asks mutateOperatorState for: a command, or a reservation.
NoRequest == [type |-> "none"]
Reservation == [type |-> "reserve"]

VARIABLES
    now, clockSteps, crashes,
    revision, configuration,   \* the state file
    lock,                      \* the lock file
    step,                      \* where a process is in mutateOperatorState
    request,                   \* what it wants to write
    expected,                  \* expectedRevision
    current,                   \* the configuration it read under the lock
    attempt,                   \* attempts the service has begun
    run,                       \* where AutomatedCycleService#run is
    opened,                    \* cycles created so far
    active, stage,             \* the active cycle and its next stage
    executed,                  \* <<cycle, stage>> whose effect was started
    killReported               \* an operator was told that the kill succeeded

clockVars == <<now, clockSteps>>
file == <<revision, configuration>>
callVars == <<step, request, expected, current, attempt>>
cycleVars == <<opened, active, stage, executed>>
vars == <<clockVars, crashes, file, lock, callVars, run, cycleVars, killReported>>

\* AUTOMATED_CYCLE_STAGES with a boundary of their own; payout stands for the others.
Stages == <<"claim-process", "purchase", "payout">>

Empty == [paused |-> FALSE, killSwitch |-> FALSE, policy |-> FirstPolicy,
          ledger |-> << >>, approved |-> {}]

Init ==
    /\ now = 0 /\ clockSteps = 0 /\ crashes = 0
    /\ revision = 0 /\ configuration = Empty
    /\ lock = NoLock
    /\ step = [p \in Process |-> "idle"] /\ request = [p \in Process |-> NoRequest]
    /\ expected = [p \in Process |-> 0] /\ current = [p \in Process |-> Empty]
    /\ attempt = 0
    /\ run = "idle"
    /\ opened = {} /\ active = NoCycle /\ stage = 1 /\ executed = {}
    /\ killReported = FALSE

-----------------------------------------------------------------------------
(* The clock *)

ClockTick ==
    /\ now < MaxTime
    /\ now' = now + 1
    /\ UNCHANGED <<clockSteps, crashes, file, lock, callVars, run, cycleVars, killReported>>

\* The wall clock is set back.
ClockSetBack ==
    /\ clockSteps < MaxClockSteps /\ now > 0
    /\ now' = now - 1 /\ clockSteps' = clockSteps + 1
    /\ UNCHANGED <<crashes, file, lock, callVars, run, cycleVars, killReported>>

-----------------------------------------------------------------------------
(* mutateOperatorState *)

Goto(p, s) == step' = [step EXCEPT ![p] = s]

Advance(p, s) ==
    /\ Goto(p, s)
    /\ UNCHANGED <<request, expected, current, attempt, run>>

\* The call returns, throws or dies: its locals are gone, the run goes to next.
Return(p, next, to) ==
    /\ Goto(p, to)
    /\ request' = [request EXCEPT ![p] = NoRequest]
    /\ expected' = [expected EXCEPT ![p] = 0] /\ current' = [current EXCEPT ![p] = Empty]
    /\ attempt' = IF p = Service THEN 0 ELSE attempt
    /\ run' = IF p = Service THEN next ELSE run

Throw(p) == Return(p, "idle", "idle")

\* mutatePolicyConfiguration: the service reads the file again and retries.
Retry(p) ==
    /\ p = Service /\ attempt < Attempts
    /\ Goto(p, "begun")
    /\ expected' = [expected EXCEPT ![p] = revision]
    /\ current' = [current EXCEPT ![p] = Empty]
    /\ attempt' = attempt + 1
    /\ UNCHANGED <<request, run>>

Contention(p) ==
    \/ Retry(p)
    \/ ~(p = Service /\ attempt < Attempts) /\ Throw(p)

\* A command whose revision is stale may have been applied already.
Stale(p) ==
    \/ Retry(p)
    \/ p = Service /\ attempt = Attempts /\ Throw(p)
    \/ p # Service /\ Advance(p, "recover")

\* open(lockPath, 'wx')
Open(p) ==
    /\ step[p] \in {"begun", "reopen"} /\ lock = NoLock
    /\ lock' = [owner |-> p, alive |-> TRUE, written |-> FALSE]
    /\ Advance(p, "opened")
    /\ UNCHANGED <<clockVars, crashes, file, cycleVars, killReported>>

\* EEXIST, the first and the second time.
OpenFails(p) ==
    /\ step[p] \in {"begun", "reopen"} /\ lock # NoLock
    /\ IF step[p] = "begun" THEN Advance(p, "exists") ELSE Contention(p)
    /\ UNCHANGED <<clockVars, crashes, file, lock, cycleVars, killReported>>

\* Fault: nobody asks whether the owner of the lock still runs.
ReadOwnerUnchecked(p) ==
    /\ step[p] = "exists"
    /\ \/ lock = NoLock /\ Advance(p, "reopen")
       \/ lock # NoLock /\ Advance(p, "unlink")
    /\ UNCHANGED <<clockVars, crashes, file, lock, cycleVars, killReported>>

\* removeStaleLock: read the owner and ask whether that process exists.
ReadOwner(p) ==
    /\ step[p] = "exists"
    /\ \/ lock = NoLock /\ Advance(p, "reopen")
       \/ lock # NoLock /\ ~lock.written /\ Throw(p)     \* not canonical JSON
       \/ lock # NoLock /\ lock.written /\ lock.alive /\ Contention(p)
       \/ lock # NoLock /\ lock.written /\ ~lock.alive /\ Advance(p, "stale")
    /\ UNCHANGED <<clockVars, crashes, file, lock, cycleVars, killReported>>

\* lstat: is it still the file whose owner was read?
CompareLock(p) ==
    /\ step[p] = "stale"
    /\ \/ lock = NoLock /\ Advance(p, "reopen")
       \/ lock # NoLock /\ ~lock.alive /\ Advance(p, "unlink")
       \/ lock # NoLock /\ lock.alive /\ Throw(p)
    /\ UNCHANGED <<clockVars, crashes, file, lock, cycleVars, killReported>>

\* unlink removes whatever bears the name by now.
UnlinkStale(p) ==
    /\ step[p] = "unlink"
    /\ lock' = NoLock
    /\ Advance(p, "reopen")
    /\ UNCHANGED <<clockVars, crashes, file, cycleVars, killReported>>

Holds(p) == lock # NoLock /\ lock.owner = p /\ lock.alive

WriteOwner(p) ==
    /\ step[p] = "opened"
    /\ lock' = IF Holds(p) THEN [lock EXCEPT !.written = TRUE] ELSE lock
    /\ Advance(p, "owned")
    /\ UNCHANGED <<clockVars, crashes, file, cycleVars, killReported>>

\* removeOwnedLock
Released(p) == IF Holds(p) THEN NoLock ELSE lock

\* readExistingState and the comparison of revisions.
ReadCurrent(p) ==
    /\ step[p] = "owned"
    /\ \/ /\ expected[p] = revision
          /\ current' = [current EXCEPT ![p] = configuration]
          /\ Goto(p, "mutate")
          /\ UNCHANGED <<lock, request, expected, attempt, run>>
       \/ /\ expected[p] # revision
          /\ lock' = Released(p)
          /\ Stale(p)
    /\ UNCHANGED <<clockVars, crashes, file, cycleVars, killReported>>

\* The temporary file replaces the state file.
Rename(p, conf) ==
    /\ revision' = expected[p] + 1 /\ configuration' = conf
    /\ Goto(p, "renamed")
    /\ UNCHANGED <<lock, request, expected, current, attempt>>

MutateCommand(p) ==
    /\ step[p] = "mutate" /\ p # Service
    /\ Rename(p, Apply(current[p], request[p]))
    /\ UNCHANGED <<clockVars, crashes, run, cycleVars, killReported>>

\* admit decides again, on the configuration under the lock.  A refusal
\* writes that configuration back under a new revision.
MutateReservation ==
    /\ step[Service] = "mutate"
    /\ LET conf == current[Service]
           reserved == Reserve(conf, active, now)
       IN  \/ /\ ClaimAllowed(conf, active, now) /\ Ordered(reserved.ledger)
              /\ Rename(Service, reserved)
              /\ run' = "admitted"
           \/ /\ ~ClaimAllowed(conf, active, now)
              /\ Rename(Service, conf)
              /\ run' = "refused"
           \/ /\ ClaimAllowed(conf, active, now) /\ ~Ordered(reserved.ledger)
              /\ lock' = Released(Service)
              /\ Throw(Service)
              /\ UNCHANGED file
    /\ UNCHANGED <<clockVars, crashes, cycleVars, killReported>>

RemoveLock(p) ==
    /\ step[p] = "renamed"
    /\ lock' = Released(p)
    /\ Advance(p, "done")
    /\ UNCHANGED <<clockVars, crashes, file, cycleVars, killReported>>

Reported(p) == killReported' = (killReported \/ request[p].type = "kill")

\* The call returns to its caller.
Acknowledge(p) ==
    /\ step[p] = "done"
    /\ Return(p, IF run = "admitted" THEN "guard" ELSE "idle", "idle")
    /\ Reported(p)
    /\ UNCHANGED <<clockVars, crashes, file, lock, cycleVars>>

\* Fault: a stale revision is taken for a command that was applied already.
RecoverAny(p) ==
    /\ step[p] = "recover"
    /\ Throw(p)
    /\ Reported(p)
    /\ UNCHANGED <<clockVars, crashes, file, lock, cycleVars>>

\* recoverIdempotentConfigurationMutation and recoverIdempotentManualApproval:
\* a command that would change nothing succeeded, whoever applied it.
Recover(p) ==
    /\ step[p] = "recover"
    /\ Throw(p)
    /\ IF Apply(configuration, request[p]) = configuration
       THEN Reported(p)
       ELSE UNCHANGED killReported
    /\ UNCHANGED <<clockVars, crashes, file, lock, cycleVars>>

\* A process dies, with a lock file left behind if it holds one.
Crash(p) ==
    /\ crashes < MaxCrashes /\ <<p, step[p]>> \in CrashPoints
    /\ crashes' = crashes + 1
    /\ Return(p, "idle", "dead")
    /\ lock' = IF Holds(p) THEN [lock EXCEPT !.alive = FALSE] ELSE lock
    /\ UNCHANGED <<clockVars, file, cycleVars, killReported>>

Restart(p) ==
    /\ step[p] = "dead" /\ p \in Restarting
    /\ Advance(p, "idle")
    /\ UNCHANGED <<clockVars, crashes, file, lock, cycleVars, killReported>>

-----------------------------------------------------------------------------
(* Callers *)

Begin(p, req) ==
    /\ step[p] = "idle" /\ revision < MaxRevision
    /\ Goto(p, "begun")
    /\ request' = [request EXCEPT ![p] = req]
    /\ expected' = [expected EXCEPT ![p] = revision]
    /\ UNCHANGED current

\* An operator submits a command with the revision last read.  The service
\* takes any digest for an approval; an operator names that of the active cycle.
Execute(p, command) ==
    /\ Begin(p, command)
    /\ command.type = "manual-approval" => command.digest = DeriveDigest(configuration, active)
    /\ UNCHANGED <<clockVars, crashes, file, lock, attempt, run, cycleVars, killReported>>

\* The scheduler's tick: a paused one only resumes an active cycle.
BeginRun ==
    /\ run = "idle" /\ step[Service] = "idle"
    /\ active # NoCycle \/ ~Halted(configuration)
    /\ run' = IF active # NoCycle THEN "stage" ELSE "gate"
    /\ UNCHANGED <<clockVars, crashes, file, lock, callVars, cycleVars, killReported>>

\* The gate before a cycle is planned, and again before it is created.
CycleStart ==
    /\ run \in {"gate", "planned"}
    /\ run' = IF ~CycleStartAllowed(configuration, now) THEN "idle"
              ELSE IF run = "gate" THEN "planned" ELSE "create"
    /\ UNCHANGED <<clockVars, crashes, file, lock, callVars, cycleVars, killReported>>

CreateCycle ==
    /\ run = "create" /\ Cycle \ opened # {}
    /\ active' = CHOOSE c \in Cycle \ opened : TRUE
    /\ opened' = opened \cup {active'}
    /\ run' = "stage" /\ stage' = 1
    /\ UNCHANGED <<clockVars, crashes, file, lock, callVars, executed, killReported>>

\* The claim is admitted, which reserves its cost.
Admit ==
    /\ run = "stage" /\ Stages[stage] = "claim-process"
    /\ \/ /\ ClaimAllowed(configuration, active, now)
          /\ Begin(Service, Reservation)
          /\ attempt' = 1 /\ run' = "admit"
       \/ /\ ~ClaimAllowed(configuration, active, now)
          /\ run' = "idle"
          /\ UNCHANGED callVars
    /\ UNCHANGED <<clockVars, crashes, file, lock, cycleVars, killReported>>

Allowed(s) ==
    CASE s = "claim-process" -> ClaimExecutionAllowed(configuration, active, now)
      [] s = "purchase" -> PurchaseAllowed(configuration, active, now)
      [] OTHER -> ExistingExecutionAllowed(configuration, active)

\* evaluatePurchase; the other stages go straight to the guard.
EvaluatePurchase ==
    /\ run = "stage" /\ Stages[stage] # "claim-process"
    /\ run' = IF Stages[stage] = "purchase" => Allowed("purchase") THEN "guard" ELSE "idle"
    /\ UNCHANGED <<clockVars, crashes, file, lock, callVars, cycleVars, killReported>>

\* assertMutationAllowed; caps the model leaves out may refuse as well.
Guard ==
    /\ run = "guard"
    /\ run' \in (IF Allowed(Stages[stage]) THEN {"execute", "idle"} ELSE {"idle"})
    /\ UNCHANGED <<clockVars, crashes, file, lock, callVars, cycleVars, killReported>>

\* The stage has its effect and is completed.
ExecuteStage ==
    /\ run = "execute"
    /\ executed' = executed \cup {<<active, Stages[stage]>>}
    /\ \/ /\ stage < Len(Stages)
          /\ stage' = stage + 1 /\ run' = "stage"
          /\ UNCHANGED active
       \/ /\ stage = Len(Stages)
          /\ stage' = 1 /\ run' = "idle" /\ active' = NoCycle
    /\ UNCHANGED <<clockVars, crashes, file, lock, callVars, opened, killReported>>

Mutate(p) ==
    \/ Open(p) \/ OpenFails(p) \/ ReadOwner(p) \/ CompareLock(p) \/ UnlinkStale(p)
    \/ WriteOwner(p) \/ ReadCurrent(p) \/ MutateCommand(p)
    \/ RemoveLock(p) \/ Acknowledge(p) \/ Recover(p)

ServiceStep ==
    \/ BeginRun \/ CycleStart \/ CreateCycle \/ Admit \/ EvaluatePurchase
    \/ Guard \/ ExecuteStage \/ MutateReservation

Next ==
    \/ ClockTick \/ ClockSetBack
    \/ \E p \in Process : Mutate(p) \/ Crash(p) \/ Restart(p)
    \/ \E p \in Operators, command \in Commands : Execute(p, command)
    \/ ServiceStep

Spec == Init /\ [][Next]_vars

-----------------------------------------------------------------------------
(* Properties *)

TypeOK ==
    /\ now \in Nat /\ clockSteps \in 0..MaxClockSteps /\ crashes \in 0..MaxCrashes
    /\ revision \in Nat /\ configuration \in Configuration
    /\ lock \in Lock \cup {NoLock}
    /\ step \in [Process -> Steps]
    /\ request \in [Process -> Commands \cup {NoRequest, Reservation}]
    /\ expected \in [Process -> Nat] /\ current \in [Process -> Configuration]
    /\ attempt \in 0..Attempts
    /\ run \in {"idle", "gate", "planned", "create", "stage", "admit", "admitted",
                "refused", "guard", "execute"}
    /\ opened \subseteq Cycle /\ active \in Cycle \cup {NoCycle}
    /\ stage \in DOMAIN Stages /\ executed \subseteq (Cycle \X {"claim-process", "purchase", "payout"})
    /\ killReported \in BOOLEAN

\* Whatever the operator does to the limits, and whatever the clock does,
\* every reservation fitted the limits it was made under.
CapsHonoured ==
    \A i \in DOMAIN configuration.ledger :
        LET e == configuration.ledger[i]
            window == {j \in 1..i : e.at - configuration.ledger[j].at < Window}
        IN  /\ SumFunctionOnSet(Costs(configuration), window) <= e.digest.policy.budget
            /\ Cardinality(window) <= e.digest.policy.cycles

\* Nothing is executed for a cycle that was not reserved exactly once.
ExecutedOnce ==
    \A x \in executed :
        Cardinality(Existing(configuration, x[1])) = 1

\* Once the kill switch is set it stays set and nothing more is reserved.
KillHolds ==
    [][configuration.killSwitch =>
         configuration'.killSwitch /\ configuration'.ledger = configuration.ledger]_vars

\* An operator who was told that the kill succeeded can rely on it.
ReportedKillInForce == killReported => configuration.killSwitch
=============================================================================
