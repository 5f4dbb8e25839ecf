-------------------------- MODULE AutomationProofs ---------------------------
(***************************************************************************)
(* The unattended side of the runner: the scheduler that starts its ticks, *)
(* and the operator state file that bounds what those ticks may do.        *)
(*                                                                         *)
(* The scheduler never falls asleep, for every number of timers, queued    *)
(* ticks and backoff steps.  Of the state file, typing, the life of a      *)
(* request and the rolling caps hold wherever processes die.  Mutual       *)
(* exclusion of its writers, and with it a kill switch that no other write *)
(* undoes and a ledger that loses no reservation, needs that no process    *)
(* dies between creating and removing the lock file.                       *)
(***************************************************************************)
EXTENDS Scheduler, OperatorState, SequenceTheorems, SumTheorems, TLAPS

-----------------------------------------------------------------------------
(* The scheduler *)

\* A tick that will schedule the next one is in the chain.
Waiting(s) == \E i \in 1..Len(s) : s[i].scheduleAfter

(***************************************************************************)
(* Helpers of scheduler.mjs.                                               *)
(***************************************************************************)

\* Outdating timers, as stop and preemptInstalledTimer do, leaves timers.
LEMMA OutdatedTimers ==
    ASSUME NEW S \in SUBSET Timer
    PROVE  Outdated(S) \in SUBSET Timer
BY DEF Outdated, Timer

\* Outdating the chain keeps its ticks, their number and who schedules.
LEMMA OutdatedTicks ==
    ASSUME NEW s \in Seq(Tick)
    PROVE  /\ OutdatedChain(s) \in Seq(Tick)
           /\ Len(OutdatedChain(s)) = Len(s)
           /\ \A i \in 1..Len(s) : OutdatedChain(s)[i].scheduleAfter = s[i].scheduleAfter
<1>1. \A i \in 1..Len(s) : s[i] \in Tick
  OBVIOUS
<1>2. DOMAIN s = 1..Len(s) /\ Len(s) \in Nat
  OBVIOUS
<1>3. \A i \in 1..Len(s) : /\ OutdatedChain(s)[i] \in Tick
                           /\ OutdatedChain(s)[i].scheduleAfter = s[i].scheduleAfter
  BY <1>1, <1>2 DEF OutdatedChain, Tick
<1>4. OutdatedChain(s) \in [1..Len(s) -> Tick]
  BY <1>2, <1>3 DEF OutdatedChain
<1> QED
  BY <1>2, <1>3, <1>4

\* enqueueTick puts a tick behind the others; an automatic one will schedule.
LEMMA Enqueued ==
    ASSUME NEW s \in Seq(Tick), NEW b \in BOOLEAN
    PROVE  /\ Enqueue(s, b) \in Seq(Tick)
           /\ Len(Enqueue(s, b)) = Len(s) + 1 /\ Len(s) \in Nat
           /\ \A i \in 1..Len(s) : Enqueue(s, b)[i] = s[i]
BY DEF Enqueue, Tick

LEMMA EnqueuedAutomatic ==
    ASSUME NEW s \in Seq(Tick)
    PROVE  /\ Enqueue(s, TRUE) \in Seq(Tick) /\ Enqueue(s, TRUE) # << >>
           /\ Waiting(Enqueue(s, TRUE))
<1> DEFINE tick == [scheduleAfter |-> TRUE, current |-> TRUE]
<1>1. tick \in Tick /\ tick.scheduleAfter
  BY Zenon DEF Tick
<1>2. Enqueue(s, TRUE) = Append(s, tick)
  BY DEF Enqueue
<1> HIDE DEF tick
<1>3. /\ Append(s, tick) \in Seq(Tick) /\ Len(Append(s, tick)) = Len(s) + 1 /\ Len(s) \in Nat
      /\ Append(s, tick)[Len(s) + 1] = tick
  BY <1>1
<1>4. Len(s) + 1 \in 1..Len(Append(s, tick)) /\ Append(s, tick) # << >>
  BY <1>3
<1> QED
  BY <1>1, <1>2, <1>3, <1>4 DEF Waiting

\* A tick that schedules nothing leaves the chain: those that do stay.
LEMMA LeavingTail ==
    ASSUME NEW s \in Seq(Tick), s # << >>
    PROVE  /\ Tail(s) \in Seq(Tick) /\ Len(Tail(s)) = Len(s) - 1
           /\ \A i \in 2..Len(s) : Tail(s)[i - 1] = s[i]
OBVIOUS

\* schedule() installs a timer that wake will obey.
LEMMA Scheduled ==
    ASSUME NEW S \in SUBSET Timer, Schedule(S)
    PROVE  /\ timers' \in SUBSET Timer /\ timerHandle' \in Handles
           /\ \E t \in timers' : t.current
<1> DEFINE free == Handles \ {t.handle : t \in S}
           h == CHOOSE x \in free : TRUE
<1>1. h \in free
  BY DEF Schedule
<1>2. timers' = S \cup {[handle |-> h, current |-> TRUE]} /\ timerHandle' = h
  BY DEF Schedule
<1>3. [handle |-> h, current |-> TRUE] \in Timer /\ [handle |-> h, current |-> TRUE].current
  BY <1>1, Zenon DEF Timer
<1>4. [handle |-> h, current |-> TRUE] \in timers' /\ h \in Handles
  BY <1>1, <1>2
<1> QED
  BY <1>2, <1>3, <1>4

-----------------------------------------------------------------------------
SchedulerInv == SchedulerTypeOK /\ NoLostWakeup

LEMMA InitScheduler == SchedulerInit => SchedulerInv
<1> SUFFICES ASSUME SchedulerInit PROVE SchedulerInv
  OBVIOUS
<1>1. SchedulerTypeOK
  BY SchedulerAssumption DEF SchedulerInit, SchedulerTypeOK, WorkerResults, Timer
<1> QED
  BY <1>1 DEF SchedulerInit, SchedulerInv, NoLostWakeup

LEMMA StepScheduler == SchedulerInv /\ [SchedulerNext]_schedulerVars => SchedulerInv'
<1> SUFFICES ASSUME SchedulerInv, [SchedulerNext]_schedulerVars PROVE SchedulerInv'
  OBVIOUS
<1> USE SchedulerAssumption
<1>1. SchedulerTypeOK /\ tickChain \in Seq(Tick) /\ timers \in SUBSET Timer
  BY DEF SchedulerInv, SchedulerTypeOK
<1>2. ~stopped => (\E t \in timers : t.current) \/ Waiting(tickChain)
  BY <1>1 DEF SchedulerInv, NoLostWakeup, Waiting
<1>3. SUFFICES SchedulerTypeOK' /\ (~stopped' => (\E t \in timers' : t.current) \/ Waiting(tickChain'))
  <2>1. SchedulerTypeOK' => DOMAIN tickChain' = 1..Len(tickChain')
    BY DEF SchedulerTypeOK
  <2> QED
    BY <2>1 DEF SchedulerInv, NoLostWakeup, Waiting
<1>4. CASE Start
  <2> DEFINE s == OutdatedChain(tickChain)
  <2>1. s \in Seq(Tick) /\ Outdated(timers) \in SUBSET Timer
    BY <1>1, OutdatedTicks, OutdatedTimers
  <2>2. /\ tickChain' = Enqueue(s, TRUE) /\ timers' = Outdated(timers)
        /\ timerHandle' = NoTimer /\ stopped' = FALSE /\ UNCHANGED <<tickVars, viewVars>>
    BY <1>4 DEF Start
  <2>3. tickChain' \in Seq(Tick) /\ Waiting(tickChain') /\ tickChain' # << >>
    BY <2>1, <2>2, EnqueuedAutomatic
  <2>5. SchedulerTypeOK'
    BY <1>1, <2>1, <2>2, <2>3 DEF SchedulerTypeOK, tickVars, viewVars
  <2> QED
    BY <2>3, <2>5
<1>5. CASE Stop
  <2>1. /\ OutdatedChain(tickChain) \in Seq(Tick)
        /\ Len(OutdatedChain(tickChain)) = Len(tickChain)
    BY <1>1, OutdatedTicks
  <2>2. Cancelled(timers) \in SUBSET Timer
    BY <1>1 DEF Cancelled
  <2>3. Outdated(Cancelled(timers)) \in SUBSET Timer
    BY <2>2, OutdatedTimers
  <2>4. SchedulerTypeOK'
    BY <1>1, <1>5, <2>1, <2>3 DEF Stop, SchedulerTypeOK, tickVars, viewVars
  <2> QED
    BY <1>5, <2>4 DEF Stop
<1>6. CASE TriggerTick
  <2>1. /\ tickChain' = Enqueue(tickChain, FALSE) /\ FALSE \in BOOLEAN
        /\ UNCHANGED <<stopped, timers, timerHandle, tickVars, viewVars>>
    BY <1>6 DEF TriggerTick
  <2>2. /\ tickChain' \in Seq(Tick) /\ Len(tickChain') = Len(tickChain) + 1
        /\ \A i \in 1..Len(tickChain) : tickChain'[i] = tickChain[i]
        /\ Len(tickChain) \in Nat
    BY <1>1, <2>1, Enqueued
  <2>3. tickChain' # << >>
    BY <2>2
  <2>4. SchedulerTypeOK'
    BY <1>1, <2>1, <2>2, <2>3 DEF SchedulerTypeOK, tickVars, viewVars
  <2>5. Waiting(tickChain) => Waiting(tickChain')
    BY <2>2 DEF Waiting
  <2> QED
    BY <1>2, <2>1, <2>4, <2>5
<1>7. ASSUME NEW t \in timers, Wake(t)
      PROVE  SchedulerTypeOK' /\ (~stopped' => (\E u \in timers' : u.current) \/ Waiting(tickChain'))
  <2>1. /\ Enqueue(tickChain, TRUE) \in Seq(Tick) /\ Enqueue(tickChain, TRUE) # << >>
        /\ Waiting(Enqueue(tickChain, TRUE))
    BY <1>1, EnqueuedAutomatic
  <2>2. /\ timers' = timers \ {t} /\ timerHandle' = NoTimer
        /\ stopped' = stopped /\ UNCHANGED <<tickVars, viewVars>>
    BY <1>7 DEF Wake
  <2>3. CASE ~stopped /\ t.current
    <3>1. tickChain' = Enqueue(tickChain, TRUE)
      BY <1>7, <2>3 DEF Wake
    <3>2. SchedulerTypeOK'
      BY <1>1, <2>1, <2>2, <3>1 DEF SchedulerTypeOK, tickVars, viewVars
    <3> QED
      BY <2>1, <3>1, <3>2
  <2>4. CASE stopped \/ ~t.current
    <3>1. tickChain' = tickChain
      BY <1>7, <2>4 DEF Wake
    <3>2. SchedulerTypeOK'
      BY <1>1, <2>2, <3>1 DEF SchedulerTypeOK, tickVars, viewVars
    <3> QED
      BY <1>2, <2>2, <2>4, <3>1, <3>2, Zenon
  <2> QED
    BY <2>3, <2>4
<1>8. CASE Dispatch
  BY <1>1, <1>2, <1>8 DEF Dispatch, SchedulerTypeOK, viewVars, Waiting, WorkerResults
<1>9. ASSUME NEW c \in Configurations, ReadConfiguration(c)
      PROVE  SchedulerTypeOK' /\ (~stopped' => (\E u \in timers' : u.current) \/ Waiting(tickChain'))
  BY <1>1, <1>2, <1>9 DEF ReadConfiguration, SchedulerTypeOK, viewVars, Waiting, WorkerResults
<1>10. ASSUME NEW r \in WorkerResults, WorkerSettles(r)
       PROVE  SchedulerTypeOK' /\ (~stopped' => (\E u \in timers' : u.current) \/ Waiting(tickChain'))
  BY <1>1, <1>2, <1>10 DEF WorkerSettles, SchedulerTypeOK, viewVars, Waiting
<1>11. ApplyScheduleOutcome => /\ outageBackoff' \in 0..MaxBackoff
                               /\ nextWakeup' \in {"none", "cycle", "reconcile"}
  BY <1>1 DEF ApplyScheduleOutcome, SchedulerTypeOK, Least
<1>12. CASE SettleAutomatic
  <2>1. tickChain # << >>
    BY <1>1, <1>12 DEF SettleAutomatic, SchedulerTypeOK
  <2>2. tickChain' \in Seq(Tick)
    BY <1>1, <1>12, <2>1 DEF SettleAutomatic, Leave
  <2>3. /\ timers' \in SUBSET Timer /\ timerHandle' \in Handles \cup {NoTimer}
        /\ ~stopped => \E t \in timers' : t.current
    BY <1>1, <1>12, Scheduled DEF SettleAutomatic, ScheduleNext, SchedulerTypeOK
  <2>4. SchedulerTypeOK'
    BY <1>1, <1>11, <1>12, <2>2, <2>3 DEF SettleAutomatic, Leave, SchedulerTypeOK, WorkerResults
  <2> QED
    BY <1>12, <2>3, <2>4 DEF SettleAutomatic, Leave
<1>13. CASE SettleManual
  <2>1. tickChain # << >> /\ ~tickChain[1].scheduleAfter
    BY <1>1, <1>13 DEF SettleManual, SchedulerTypeOK, First
  <2>2. /\ tickChain' = Tail(tickChain) /\ tickChain' \in Seq(Tick)
        /\ Len(tickChain') = Len(tickChain) - 1
        /\ \A i \in 2..Len(tickChain) : tickChain'[i - 1] = tickChain[i]
        /\ Len(tickChain) \in Nat
    BY <1>1, <1>13, <2>1, LeavingTail DEF SettleManual, Leave
  <2>3. Waiting(tickChain) => Waiting(tickChain')
    <3>1. SUFFICES ASSUME NEW i \in 1..Len(tickChain), tickChain[i].scheduleAfter
                   PROVE  Waiting(tickChain')
      BY DEF Waiting
    <3>2. i \in 2..Len(tickChain) /\ (i - 1) \in 1..Len(tickChain')
      BY <2>1, <2>2, <3>1
    <3> QED
      BY <2>2, <3>1, <3>2 DEF Waiting
  <2>4. SchedulerTypeOK'
    BY <1>1, <1>11, <1>13, <2>2 DEF SettleManual, Leave, SchedulerTypeOK, viewVars, WorkerResults
  <2> QED
    BY <1>2, <1>13, <2>3, <2>4 DEF SettleManual, Leave
<1>14. CASE SettlePreempting
  <2>1. tickChain # << >>
    BY <1>1, <1>14 DEF SettlePreempting, SchedulerTypeOK
  <2>2. /\ OutdatedChain(tickChain) \in Seq(Tick)
        /\ Len(OutdatedChain(tickChain)) = Len(tickChain)
    BY <1>1, OutdatedTicks
  <2>3. tickChain' \in Seq(Tick)
    BY <1>1, <1>14, <2>1, <2>2 DEF SettlePreempting, Leave
  <2>4. Cancelled(timers) \in SUBSET Timer
    BY <1>1 DEF Cancelled
  <2>5. Outdated(Cancelled(timers)) \in SUBSET Timer
    BY <2>4, OutdatedTimers
  <2>6. /\ timers' \in SUBSET Timer /\ timerHandle' \in Handles
        /\ \E t \in timers' : t.current
    BY <1>14, <2>5, Scheduled DEF SettlePreempting
  <2>7. SchedulerTypeOK'
    BY <1>1, <1>11, <1>14, <2>3, <2>6 DEF SettlePreempting, Leave, SchedulerTypeOK, WorkerResults
  <2> QED
    BY <2>6, <2>7
<1>15. CASE UNCHANGED schedulerVars
  BY <1>1, <1>2, <1>15 DEF schedulerVars, tickVars, viewVars, SchedulerTypeOK, Waiting
<1> QED
  BY <1>4, <1>5, <1>6, <1>7, <1>8, <1>9, <1>10, <1>12, <1>13, <1>14, <1>15 DEF SchedulerNext, SchedulerStep

LEMMA SchedulerInvariance == SchedulerSpec => []SchedulerInv
<1>1. SchedulerInit => SchedulerInv
  BY InitScheduler
<1>2. SchedulerInv /\ [SchedulerNext]_schedulerVars => SchedulerInv'
  BY StepScheduler
<1> QED
  BY <1>1, <1>2, PTL DEF SchedulerSpec

\* The scheduler keeps its types: a tick that is being run heads the chain.
THEOREM SchedulerTypeCorrect == SchedulerSpec => []SchedulerTypeOK
<1>1. SchedulerInv => SchedulerTypeOK
  BY DEF SchedulerInv
<1> QED
  BY <1>1, SchedulerInvariance, PTL

\* Whatever start, stop, manual ticks and preemptions do to timers and to
\* scheduleGeneration, a running scheduler has a timer that wake will obey or
\* a queued tick that will install one.
THEOREM NeverAsleep == SchedulerSpec => []NoLostWakeup
<1>1. SchedulerInv => NoLostWakeup
  BY DEF SchedulerInv
<1> QED
  BY <1>1, SchedulerInvariance, PTL

-----------------------------------------------------------------------------
(* The operator state file *)

\* Where a process holds the lock file.
Inside == {"opened", "owned", "mutate", "renamed"}

OutsideLock == \A p \in Process, s \in Inside : <<p, s>> \notin CrashPoints

-----------------------------------------------------------------------------
(* The policy engine and the commands *)

LEMMA EmptyTyped == Empty \in Configuration
<1>1. << >> \in Seq(Entry) /\ {} \in SUBSET Digest
  BY EmptySeq
<1> QED
  BY <1>1, OperatorAssumption, Zenon DEF Empty, Configuration

\* A digest derived for a cycle under the policy in force.
LEMMA DigestTyped ==
    ASSUME NEW conf \in Configuration, NEW c \in Cycle
    PROVE  DeriveDigest(conf, c) \in Digest
<1>1. conf.policy \in Policies
  BY Zenon DEF Configuration
<1> QED
  BY <1>1 DEF DeriveDigest, Digest

\* reservationConfiguration leaves the switches alone.
LEMMA ReserveTyped ==
    ASSUME NEW conf \in Configuration, NEW c \in Cycle, NEW t \in Int
    PROVE  Reserve(conf, c, t) \in Configuration
<1> DEFINE e == [cycle |-> c, digest |-> DeriveDigest(conf, c), at |-> t]
<1>1. e \in Entry
  BY DigestTyped DEF Entry
<1>2. conf.ledger \in Seq(Entry)
  BY Zenon DEF Configuration
<1>3. Append(conf.ledger, e) \in Seq(Entry)
  BY <1>1, <1>2, AppendProperties
<1>4. Reserve(conf, c, t) = conf \/ Reserve(conf, c, t) = [conf EXCEPT !.ledger = Append(conf.ledger, e)]
  BY DEF Reserve
<1>5. ASSUME NEW l \in Seq(Entry) PROVE [conf EXCEPT !.ledger = l] \in Configuration
  BY DEF Configuration
<1> QED
  BY <1>3, <1>4, <1>5

\* No command of control.mjs clears the kill switch or touches the ledger.
LEMMA ApplyKeepsKill ==
    ASSUME NEW conf \in Configuration, NEW command \in Commands
    PROVE  /\ Apply(conf, command) \in Configuration
           /\ Apply(conf, command).ledger = conf.ledger
           /\ conf.killSwitch \/ command.type = "kill" => Apply(conf, command).killSwitch
<1> USE DEF Configuration
<1>1. CASE command \in [type : {"pause", "resume", "kill"}]
  <2>1. command.type \in {"pause", "resume", "kill"}
    BY <1>1
  <2>2. CASE command.type = "pause"
    <3>1. Apply(conf, command) = [conf EXCEPT !.paused = TRUE]
      BY <2>2 DEF Apply
    <3> QED
      BY <2>2, <3>1
  <2>3. CASE command.type = "resume"
    <3>1. Apply(conf, command) = [conf EXCEPT !.paused = FALSE]
      BY <2>3 DEF Apply
    <3> QED
      BY <2>3, <3>1
  <2>4. CASE command.type = "kill"
    <3>1. Apply(conf, command) = [conf EXCEPT !.paused = TRUE, !.killSwitch = TRUE]
      BY <2>4 DEF Apply
    <3> QED
      BY <2>4, <3>1
  <2> QED
    BY <2>1, <2>2, <2>3, <2>4
<1>2. CASE command \in [type : {"update-configuration"}, policy : Policies]
  <2>1. command.type = "update-configuration" /\ command.policy \in Policies
    BY <1>2
  <2>2. Apply(conf, command) = [conf EXCEPT !.policy = command.policy]
    BY <2>1 DEF Apply
  <2> QED
    BY <2>1, <2>2
<1>3. CASE command \in [type : {"manual-approval"}, digest : Digest]
  <2>1. command.type = "manual-approval" /\ command.digest \in Digest
    BY <1>3
  <2>2. Apply(conf, command) = [conf EXCEPT !.approved = @ \cup {command.digest}]
    BY <2>1 DEF Apply
  <2> QED
    BY <2>1, <2>2
<1> QED
  BY <1>1, <1>2, <1>3 DEF Commands

\* Writing the owner record, or the death of the owner, leaves a lock file.
LEMMA LockTyped ==
    ASSUME NEW l \in Lock
    PROVE  /\ [l EXCEPT !.written = TRUE] \in Lock /\ [l EXCEPT !.alive = FALSE] \in Lock
           /\ [l EXCEPT !.written = TRUE].owner = l.owner
           /\ [l EXCEPT !.written = TRUE].alive = l.alive
BY DEF Lock

-----------------------------------------------------------------------------
(* Typing, and what a request and a run are at each place *)

Busy(p) == step[p] \notin {"idle", "dead"}

RequestInv ==
    /\ \A p \in Operators : Busy(p) => request[p] \in Commands
    /\ request[Service] \in {NoRequest, Reservation}
    /\ Busy(Service) => run \in {"admit", "admitted", "refused"}
    /\ run \notin {"idle", "gate", "planned", "create"} => active \in Cycle

Typing == TypeOK /\ RequestInv

LEMMA InitTyping == Init => Typing
<1> SUFFICES ASSUME Init PROVE Typing
  OBVIOUS
<1>1. 1 \in DOMAIN Stages
  BY DEF Stages
<1>2. /\ step \in [Process -> Steps] /\ request \in [Process -> Commands \cup {NoRequest, Reservation}]
      /\ expected \in [Process -> Nat] /\ current \in [Process -> Configuration]
  <2>1. "idle" \in Steps /\ 0 \in Nat
    BY DEF Steps
  <2> QED
    BY <2>1, EmptyTyped, Zenon DEF Init
<1>3. TypeOK
  <2>1. /\ now \in Nat /\ clockSteps \in 0..MaxClockSteps /\ crashes \in 0..MaxCrashes
        /\ revision \in Nat /\ attempt \in 0..Attempts /\ stage \in DOMAIN Stages
    BY <1>1, OperatorAssumption DEF Init
  <2>2. /\ configuration \in Configuration /\ lock \in Lock \cup {NoLock}
        /\ opened \subseteq Cycle /\ active \in Cycle \cup {NoCycle}
        /\ executed \subseteq (Cycle \X {"claim-process", "purchase", "payout"})
        /\ killReported \in BOOLEAN /\ run = "idle"
    BY EmptyTyped, Zenon DEF Init
  <2> QED
    BY <1>2, <2>1, <2>2 DEF TypeOK
<1>4. RequestInv
  BY DEF Init, RequestInv, Busy, Process
<1> QED
  BY <1>3, <1>4 DEF Typing

LEMMA StepTyping == Typing /\ [Next]_vars => Typing'
<1> SUFFICES ASSUME Typing, [Next]_vars PROVE Typing'
  OBVIOUS
<1> USE OperatorAssumption, EmptyTyped
<1> USE DEF Typing, TypeOK, RequestInv, Busy, Process, Steps, Lock, Goto,
            clockVars, file, callVars, cycleVars
<1>1. CASE ClockTick
  BY <1>1 DEF ClockTick
<1>2. CASE ClockSetBack
  BY <1>2 DEF ClockSetBack
<1>3. ASSUME NEW p \in Process, Open(p) PROVE Typing'
  BY <1>3 DEF Open, Advance
<1>4. ASSUME NEW p \in Process, OpenFails(p) PROVE Typing'
  BY <1>4 DEF OpenFails, Advance, Contention, Retry, Throw, Return
<1>5. ASSUME NEW p \in Process, ReadOwner(p) PROVE Typing'
  BY <1>5 DEF ReadOwner, Advance, Contention, Retry, Throw, Return
<1>6. ASSUME NEW p \in Process, CompareLock(p) PROVE Typing'
  BY <1>6 DEF CompareLock, Advance, Throw, Return
<1>7. ASSUME NEW p \in Process, UnlinkStale(p) PROVE Typing'
  BY <1>7 DEF UnlinkStale, Advance
<1>8. ASSUME NEW p \in Process, WriteOwner(p) PROVE Typing'
  <2>1. lock' \in Lock \cup {NoLock}
    BY <1>8, LockTyped DEF WriteOwner, Holds
  <2> HIDE DEF Lock
  <2> QED
    BY <1>8, <2>1 DEF WriteOwner, Advance
<1>9. ASSUME NEW p \in Process, ReadCurrent(p) PROVE Typing'
  BY <1>9 DEF ReadCurrent, Released, Stale, Retry, Throw, Return, Advance
<1>10. ASSUME NEW p \in Process, MutateCommand(p) PROVE Typing'
  <2>1. request[p] \in Commands /\ current[p] \in Configuration /\ p \in Operators
    BY <1>10 DEF MutateCommand
  <2>2. Apply(current[p], request[p]) \in Configuration
    BY <2>1, ApplyKeepsKill
  <2> QED
    BY <1>10, <2>1, <2>2 DEF MutateCommand, Rename
<1>11. ASSUME NEW p \in Process, RemoveLock(p) PROVE Typing'
  BY <1>11 DEF RemoveLock, Released, Advance
<1>12. ASSUME NEW p \in Process, Acknowledge(p) PROVE Typing'
  BY <1>12 DEF Acknowledge, Return, Reported
<1>13. ASSUME NEW p \in Process, Recover(p) PROVE Typing'
  <2>1. killReported' \in BOOLEAN
    BY <1>13 DEF Recover, Reported
  <2> QED
    BY <1>13, <2>1 DEF Recover, Throw, Return
<1>14. ASSUME NEW p \in Process, Crash(p) PROVE Typing'
  <2>1. lock' \in Lock \cup {NoLock}
    BY <1>14, LockTyped DEF Crash, Holds
  <2> HIDE DEF Lock
  <2> QED
    BY <1>14, <2>1 DEF Crash, Return
<1>15. ASSUME NEW p \in Process, Restart(p) PROVE Typing'
  BY <1>15 DEF Restart, Advance
<1>16. CASE BeginRun
  BY <1>16 DEF BeginRun
<1>17. CASE CycleStart
  BY <1>17 DEF CycleStart
<1>18. CASE CreateCycle
  BY <1>18 DEF CreateCycle, Stages
<1>19. CASE Admit
  BY <1>19 DEF Admit, Begin
<1>20. CASE EvaluatePurchase
  BY <1>20 DEF EvaluatePurchase
<1>21. CASE Guard
  BY <1>21 DEF Guard
<1>22. CASE ExecuteStage
  BY <1>22 DEF ExecuteStage, Stages
<1>23. CASE MutateReservation
  <2>1. current[Service] \in Configuration /\ active \in Cycle /\ now \in Int
    BY <1>23 DEF MutateReservation
  <2>2. Reserve(current[Service], active, now) \in Configuration
    BY <2>1, ReserveTyped
  <2> QED
    BY <1>23, <2>1, <2>2 DEF MutateReservation, Rename, Released, Throw, Return
<1>24. ASSUME NEW p \in Operators, NEW command \in Commands, Execute(p, command) PROVE Typing'
  BY <1>24 DEF Execute, Begin
<1>25. CASE UNCHANGED vars
  BY <1>25 DEF vars
<1> QED
  BY <1>1, <1>2, <1>3, <1>4, <1>5, <1>6, <1>7, <1>8, <1>9, <1>10, <1>11, <1>12, <1>13, <1>14, <1>15, <1>16, <1>17, <1>18, <1>19, <1>20, <1>21, <1>22, <1>23, <1>24, <1>25 DEF Next, Mutate, ServiceStep

LEMMA TypingInvariance == Spec => []Typing
<1>1. Init => Typing
  BY InitTyping
<1>2. Typing /\ [Next]_vars => Typing'
  BY StepTyping
<1> QED
  BY <1>1, <1>2, PTL DEF Spec

\* The state file, the lock file and every call keep their types, wherever
\* processes die: the file is always a configuration that the schema accepts.
THEOREM TypeCorrect == Spec => []TypeOK
<1>1. Typing => TypeOK
  BY DEF Typing
<1> QED
  BY <1>1, TypingInvariance, PTL

-----------------------------------------------------------------------------
(* Mutual exclusion, and a kill that lasts *)

\* The lock file belongs to the one process inside, which is alive; what that
\* process read under the lock is what the file still holds.
LockInv ==
    /\ lock # NoLock => lock.alive /\ step[lock.owner] \in Inside
    /\ \A p \in Process : step[p] \in Inside => lock # NoLock /\ lock.owner = p
    /\ \A p \in Process : step[p] \notin {"stale", "unlink"}
    /\ \A p \in Process : step[p] = "mutate" => current[p] = configuration

\* A kill that is written but not yet reported is in force as well.
KillInv ==
    /\ killReported => configuration.killSwitch
    /\ \A p \in Process :
          step[p] \in {"renamed", "done"} /\ request[p].type = "kill" => configuration.killSwitch

Exclusion == LockInv /\ KillInv

\* Only the process inside the lock replaces the file, with a configuration
\* made from the one in the file.
LEMMA FileStep ==
    ASSUME Typing, LockInv, [Next]_vars, configuration.killSwitch
    PROVE  configuration'.killSwitch /\ configuration'.ledger = configuration.ledger
<1> USE DEF file
<1>1. CASE ClockTick
  BY <1>1 DEF ClockTick
<1>2. CASE ClockSetBack
  BY <1>2 DEF ClockSetBack
<1>3. ASSUME NEW p \in Process, Open(p) PROVE configuration'.killSwitch /\ configuration'.ledger = configuration.ledger
  BY <1>3 DEF Open
<1>4. ASSUME NEW p \in Process, OpenFails(p) PROVE configuration'.killSwitch /\ configuration'.ledger = configuration.ledger
  BY <1>4 DEF OpenFails
<1>5. ASSUME NEW p \in Process, ReadOwner(p) PROVE configuration'.killSwitch /\ configuration'.ledger = configuration.ledger
  BY <1>5 DEF ReadOwner
<1>6. ASSUME NEW p \in Process, CompareLock(p) PROVE configuration'.killSwitch /\ configuration'.ledger = configuration.ledger
  BY <1>6 DEF CompareLock
<1>7. ASSUME NEW p \in Process, UnlinkStale(p) PROVE configuration'.killSwitch /\ configuration'.ledger = configuration.ledger
  BY <1>7 DEF UnlinkStale
<1>8. ASSUME NEW p \in Process, WriteOwner(p) PROVE configuration'.killSwitch /\ configuration'.ledger = configuration.ledger
  BY <1>8 DEF WriteOwner
<1>9. ASSUME NEW p \in Process, ReadCurrent(p) PROVE configuration'.killSwitch /\ configuration'.ledger = configuration.ledger
  BY <1>9 DEF ReadCurrent
<1>10. ASSUME NEW p \in Process, MutateCommand(p) PROVE configuration'.killSwitch /\ configuration'.ledger = configuration.ledger
  <2>1. p \in Operators /\ request[p] \in Commands /\ configuration \in Configuration
    BY <1>10 DEF MutateCommand, Typing, TypeOK, RequestInv, Busy, Process
  <2>2. current[p] = configuration /\ configuration' = Apply(current[p], request[p])
    BY <1>10 DEF MutateCommand, Rename, LockInv
  <2> QED
    BY <2>1, <2>2, ApplyKeepsKill
<1>11. ASSUME NEW p \in Process, RemoveLock(p) PROVE configuration'.killSwitch /\ configuration'.ledger = configuration.ledger
  BY <1>11 DEF RemoveLock
<1>12. ASSUME NEW p \in Process, Acknowledge(p) PROVE configuration'.killSwitch /\ configuration'.ledger = configuration.ledger
  BY <1>12 DEF Acknowledge
<1>13. ASSUME NEW p \in Process, Recover(p) PROVE configuration'.killSwitch /\ configuration'.ledger = configuration.ledger
  BY <1>13 DEF Recover
<1>14. ASSUME NEW p \in Process, Crash(p) PROVE configuration'.killSwitch /\ configuration'.ledger = configuration.ledger
  BY <1>14 DEF Crash
<1>15. ASSUME NEW p \in Process, Restart(p) PROVE configuration'.killSwitch /\ configuration'.ledger = configuration.ledger
  BY <1>15 DEF Restart
<1>16. CASE BeginRun
  BY <1>16 DEF BeginRun
<1>17. CASE CycleStart
  BY <1>17 DEF CycleStart
<1>18. CASE CreateCycle
  BY <1>18 DEF CreateCycle
<1>19. CASE Admit
  BY <1>19 DEF Admit
<1>20. CASE EvaluatePurchase
  BY <1>20 DEF EvaluatePurchase
<1>21. CASE Guard
  BY <1>21 DEF Guard
<1>22. CASE ExecuteStage
  BY <1>22 DEF ExecuteStage
<1>23. CASE MutateReservation
  <2>1. current[Service] = configuration
    BY <1>23 DEF MutateReservation, LockInv, Process
  <2>2. ~ClaimAllowed(configuration, active, now)
    BY DEF ClaimAllowed, Halted
  <2> QED
    BY <1>23, <2>1, <2>2 DEF MutateReservation, Rename
<1>24. ASSUME NEW p \in Operators, NEW command \in Commands, Execute(p, command) PROVE configuration'.killSwitch /\ configuration'.ledger = configuration.ledger
  BY <1>24 DEF Execute
<1>25. CASE UNCHANGED vars
  BY <1>25 DEF vars
<1> QED
  BY <1>1, <1>2, <1>3, <1>4, <1>5, <1>6, <1>7, <1>8, <1>9, <1>10, <1>11, <1>12, <1>13, <1>14, <1>15, <1>16, <1>17, <1>18, <1>19, <1>20, <1>21, <1>22, <1>23, <1>24, <1>25 DEF Next, Mutate, ServiceStep

LEMMA StepExclusion ==
    ASSUME OutsideLock, Typing, Exclusion, [Next]_vars
    PROVE  Exclusion'
<1>0. /\ step \in [Process -> Steps] /\ lock \in Lock \cup {NoLock}
      /\ request \in [Process -> Commands \cup {NoRequest, Reservation}]
      /\ current \in [Process -> Configuration] /\ configuration \in Configuration
      /\ NoRequest.type # "kill" /\ Reservation.type # "kill"
      /\ \A l \in Lock : l.owner \in Process
      /\ configuration.killSwitch => configuration'.killSwitch
  BY FileStep DEF Typing, TypeOK, NoRequest, Reservation, Lock, Exclusion
<1> USE <1>0, NoLockAssumption
<1> USE DEF Exclusion, LockInv, KillInv, Inside, OutsideLock, Goto, clockVars, file, callVars, cycleVars
<1>1. CASE ClockTick
  BY <1>1 DEF ClockTick
<1>2. CASE ClockSetBack
  BY <1>2 DEF ClockSetBack
<1>3. ASSUME NEW p \in Process, Open(p) PROVE Exclusion'
  <2>1. lock' \in Lock /\ lock'.owner = p /\ lock'.alive
    <3>1. lock' = [owner |-> p, alive |-> TRUE, written |-> FALSE]
      BY <1>3 DEF Open
    <3> QED
      BY <3>1, Zenon DEF Lock
  <2> QED
    BY <1>3, <2>1 DEF Open, Advance
<1>4. ASSUME NEW p \in Process, OpenFails(p) PROVE Exclusion'
  BY <1>4 DEF OpenFails, Advance, Contention, Retry, Throw, Return
<1>5. ASSUME NEW p \in Process, ReadOwner(p) PROVE Exclusion'
  BY <1>5 DEF ReadOwner, Advance, Contention, Retry, Throw, Return
<1>6. ASSUME NEW p \in Process, CompareLock(p) PROVE Exclusion'
  BY <1>6 DEF CompareLock, Advance, Throw, Return
<1>7. ASSUME NEW p \in Process, UnlinkStale(p) PROVE Exclusion'
  BY <1>7 DEF UnlinkStale, Advance
<1>8. ASSUME NEW p \in Process, WriteOwner(p) PROVE Exclusion'
  <2>1. lock \in Lock /\ lock' \in Lock /\ lock'.owner = lock.owner /\ lock'.alive
    BY <1>8, LockTyped DEF WriteOwner
  <2> QED
    BY <1>8, <2>1 DEF WriteOwner, Holds, Advance
<1>9. ASSUME NEW p \in Process, ReadCurrent(p) PROVE Exclusion'
  BY <1>9 DEF ReadCurrent, Released, Holds, Stale, Retry, Throw, Return, Advance
<1>10. ASSUME NEW p \in Process, MutateCommand(p) PROVE Exclusion'
  <2>1. p \in Operators /\ request[p] \in Commands /\ current[p] \in Configuration
    BY <1>10 DEF MutateCommand, Typing, RequestInv, Busy, Process
  <2>2. request[p].type = "kill" => Apply(current[p], request[p]).killSwitch
    BY <2>1, ApplyKeepsKill
  <2> QED
    BY <1>10, <2>2 DEF MutateCommand, Rename
<1>11. ASSUME NEW p \in Process, RemoveLock(p) PROVE Exclusion'
  BY <1>11 DEF RemoveLock, Released, Holds, Advance
<1>12. ASSUME NEW p \in Process, Acknowledge(p) PROVE Exclusion'
  BY <1>12 DEF Acknowledge, Return, Reported
<1>13. ASSUME NEW p \in Process, Recover(p) PROVE Exclusion'
  <2>1. p = Service \/ request[p] \in Commands
    BY <1>13 DEF Recover, Typing, RequestInv, Busy, Process
  <2>2. request[p].type = "kill" => request[p] \in Commands
    BY <2>1 DEF Typing, RequestInv
  <2>3. killReported' => configuration.killSwitch
    <3>1. CASE Apply(configuration, request[p]) = configuration /\ request[p].type = "kill"
      BY <2>2, <3>1, ApplyKeepsKill
    <3>2. CASE ~(Apply(configuration, request[p]) = configuration /\ request[p].type = "kill")
      <4>1. killReported' => killReported
        BY <1>13, <3>2, Zenon DEF Recover, Reported
      <4> QED
        BY <4>1
    <3> QED
      BY <3>1, <3>2
  <2> QED
    BY <1>13, <2>3 DEF Recover, Throw, Return
<1>14. ASSUME NEW p \in Process, Crash(p) PROVE Exclusion'
  BY <1>14 DEF Crash, Holds, Return
<1>15. ASSUME NEW p \in Process, Restart(p) PROVE Exclusion'
  BY <1>15 DEF Restart, Advance
<1>16. CASE BeginRun
  BY <1>16 DEF BeginRun
<1>17. CASE CycleStart
  BY <1>17 DEF CycleStart
<1>18. CASE CreateCycle
  BY <1>18 DEF CreateCycle, Stages
<1>19. CASE Admit
  BY <1>19 DEF Admit, Begin
<1>20. CASE EvaluatePurchase
  BY <1>20 DEF EvaluatePurchase
<1>21. CASE Guard
  BY <1>21 DEF Guard
<1>22. CASE ExecuteStage
  BY <1>22 DEF ExecuteStage, Stages
<1>23. CASE MutateReservation
  <2>1. request[Service].type # "kill" /\ Service \in Process
    BY DEF Typing, RequestInv, Process
  <2> QED
    BY <1>23, <2>1 DEF MutateReservation, Rename, Released, Holds, Throw, Return
<1>24. ASSUME NEW p \in Operators, NEW command \in Commands, Execute(p, command) PROVE Exclusion'
  BY <1>24 DEF Execute, Begin
<1>25. CASE UNCHANGED vars
  BY <1>25 DEF vars
<1> QED
  BY <1>1, <1>2, <1>3, <1>4, <1>5, <1>6, <1>7, <1>8, <1>9, <1>10, <1>11, <1>12, <1>13, <1>14, <1>15, <1>16, <1>17, <1>18, <1>19, <1>20, <1>21, <1>22, <1>23, <1>24, <1>25 DEF Next, Mutate, ServiceStep

-----------------------------------------------------------------------------
LEMMA ExclusionInvariance ==
    ASSUME OutsideLock PROVE Spec => [](Typing /\ Exclusion)
<1>1. Init => Typing /\ Exclusion
  BY InitTyping DEF Init, Exclusion, LockInv, KillInv, Inside, Process
<1>2. Typing /\ Exclusion /\ [Next]_vars => (Typing /\ Exclusion)'
  BY StepTyping, StepExclusion
<1> QED
  BY <1>1, <1>2, PTL DEF Spec

\* As long as no process dies while it holds the lock file, an operator who
\* was told that the kill succeeded can rely on it, however commands of other
\* operators and reservations of the service interleave with it.
THEOREM ReportedKillHolds ==
    ASSUME OutsideLock PROVE Spec => []ReportedKillInForce
<1>1. Typing /\ Exclusion => ReportedKillInForce
  BY DEF Exclusion, KillInv, ReportedKillInForce
<1> QED
  BY <1>1, ExclusionInvariance, PTL

\* Under the same condition no write undoes a kill, and none reserves anything
\* after it, whatever the writer read before the kill.
THEOREM KillIsFinal ==
    ASSUME OutsideLock PROVE Spec => KillHolds
<1>1. Typing /\ Exclusion /\ [Next]_vars =>
        [configuration.killSwitch =>
            configuration'.killSwitch /\ configuration'.ledger = configuration.ledger]_vars
  BY FileStep DEF Exclusion
<1> QED
  BY <1>1, ExclusionInvariance, PTL DEF Spec, KillHolds

-----------------------------------------------------------------------------
(***************************************************************************)
(* The rolling caps.  Every configuration that a process may write was     *)
(* read from the file or reserved on top of what was read, so the caps are *)
(* an invariant of the file and of every copy of it, whoever overwrites    *)
(* whom.  The ledger is ordered by time, which the schema check of every   *)
(* write keeps; that makes the entries an admission counts exactly those   *)
(* of the trailing window of the new entry.                                *)
(***************************************************************************)

\* The entries that count beside entry i.
Trailing(ledger, i) == {j \in 1..i : ledger[i].at - ledger[j].at < Window}

CostsOf(ledger) == [i \in DOMAIN ledger |-> Cost(ledger[i].cycle)]

EntryFits(ledger, i) ==
    /\ SumFunctionOnSet(CostsOf(ledger), Trailing(ledger, i)) <= ledger[i].digest.policy.budget
    /\ Cardinality(Trailing(ledger, i)) <= ledger[i].digest.policy.cycles

\* Ordered by time, within the caps, and no cycle reserved twice.
Sound(ledger) ==
    /\ \A i, j \in 1..Len(ledger) : i <= j => ledger[i].at <= ledger[j].at
    /\ \A i \in 1..Len(ledger) : EntryFits(ledger, i)
    /\ \A i, j \in 1..Len(ledger) : ledger[i].cycle = ledger[j].cycle => i = j

LEMMA EarlierCosts ==
    ASSUME NEW s, s \in Seq(Entry), NEW e, e \in Entry, NEW S, \A i \in S : i \in 1..Len(s)
    PROVE  SumFunctionOnSet(CostsOf(Append(s, e)), S) = SumFunctionOnSet(CostsOf(s), S)
<1> DEFINE f == CostsOf(s)
           g == CostsOf(Append(s, e))
<1>1. /\ Len(s) \in Nat /\ DOMAIN s = 1..Len(s)
      /\ Append(s, e) \in Seq(Entry) /\ Len(Append(s, e)) = Len(s) + 1
      /\ \A i \in 1..Len(s) : Append(s, e)[i] = s[i]
  OBVIOUS
<1>2. IsFiniteSet(S)
  <2>1. 1 \in Int /\ Len(s) \in Int /\ S \in SUBSET (1..Len(s))
    BY <1>1
  <2>2. IsFiniteSet(1..Len(s))
    BY <2>1, FS_Interval
  <2> QED BY <2>1, <2>2, FS_Subset
<1>3. ASSUME NEW i \in S PROVE f[i] \in Int /\ f[i] = g[i]
  <2>1. i \in 1..Len(s) /\ i \in 1..Len(Append(s, e))
    BY <1>1
  <2>2. i \in DOMAIN s /\ i \in DOMAIN Append(s, e) /\ s[i] \in Entry
    BY <1>1, <2>1
  <2>3. s[i].cycle \in Cycle
    BY <2>2 DEF Entry
  <2>4. f[i] = Cost(s[i].cycle) /\ g[i] = Cost(Append(s, e)[i].cycle)
    BY <2>2, Zenon DEF CostsOf
  <2>5. Append(s, e)[i] = s[i]
    BY <1>1, <2>1
  <2> HIDE DEF f, g
  <2>6. Cost(s[i].cycle) \in Nat
    BY <2>3, PolicyAssumption, Zenon
  <2> QED BY <2>4, <2>5, <2>6
<1> HIDE DEF f, g
<1>4. SumFunctionOnSet(f, S) = SumFunctionOnSet(g, S)
  BY <1>2, <1>3, SumAgree
<1> QED BY <1>4 DEF f, g

\* The entry that is appended adds its cost and one cycle.
LEMMA AppendedCost ==
    ASSUME NEW s, s \in Seq(Entry), NEW e, e \in Entry, NEW S, \A i \in S : i \in 1..Len(s)
    PROVE  /\ SumFunctionOnSet(CostsOf(Append(s, e)), S \cup {Len(s) + 1})
                 = Cost(e.cycle) + SumFunctionOnSet(CostsOf(s), S)
           /\ Cardinality(S \cup {Len(s) + 1}) = Cardinality(S) + 1
           /\ SumFunctionOnSet(CostsOf(s), S) \in Nat /\ Cardinality(S) \in Nat
<1> DEFINE f == CostsOf(s)
           g == CostsOf(Append(s, e))
           x == Len(s) + 1
<1>1. /\ Len(s) \in Nat /\ DOMAIN s = 1..Len(s)
      /\ Append(s, e) \in Seq(Entry) /\ Len(Append(s, e)) = x /\ Append(s, e)[x] = e
  OBVIOUS
<1>2. IsFiniteSet(S)
  <2>1. 1 \in Int /\ Len(s) \in Int /\ S \in SUBSET (1..Len(s))
    BY <1>1
  <2>2. IsFiniteSet(1..Len(s))
    BY <2>1, FS_Interval
  <2> QED BY <2>1, <2>2, FS_Subset
<1>3. ASSUME NEW i \in DOMAIN Append(s, e) PROVE g[i] \in Nat
  <2>1. Append(s, e)[i] \in Entry
    BY <1>1
  <2>2. Append(s, e)[i].cycle \in Cycle
    BY <2>1 DEF Entry
  <2>3. g[i] = Cost(Append(s, e)[i].cycle)
    BY Zenon DEF CostsOf
  <2> HIDE DEF g
  <2> QED BY <2>2, <2>3, PolicyAssumption, Zenon
<1>4. x \in DOMAIN Append(s, e) /\ x \notin S /\ \A i \in S : i \in DOMAIN Append(s, e)
  BY <1>1
<1>5. g[x] = Cost(e.cycle)
  <2>1. g[x] = Cost(Append(s, e)[x].cycle)
    BY <1>4, Zenon DEF CostsOf
  <2>2. Append(s, e)[x] = e
    BY <1>1
  <2> HIDE DEF g, x
  <2> QED BY <2>1, <2>2, Zenon
<1>6. g[x] \in Int /\ (\A i \in S : g[i] \in Int) /\ \A i \in S : g[i] \in Nat
  BY <1>3, <1>4
<1>7. SumFunctionOnSet(g, S) = SumFunctionOnSet(f, S)
  BY EarlierCosts
<1> HIDE DEF f, g, x
<1>8. SumFunctionOnSet(g, S \cup {x}) = g[x] + SumFunctionOnSet(g, S)
  BY <1>2, <1>4, <1>6, SumAdd
<1>9. SumFunctionOnSet(g, S) \in Nat
  BY <1>2, <1>6, SumTypes
<1>10. Cardinality(S \cup {x}) = Cardinality(S) + 1 /\ Cardinality(S) \in Nat
  BY <1>2, <1>4, FS_AddElement, FS_CardinalityType
<1> QED BY <1>5, <1>7, <1>8, <1>9, <1>10 DEF f, g, x

\* A reservation that is admitted and passes the schema check keeps the caps.
LEMMA ReserveSound ==
    ASSUME NEW conf \in Configuration, NEW c \in Cycle, NEW t \in Int, Sound(conf.ledger),
           ClaimAllowed(conf, c, t), Ordered(Reserve(conf, c, t).ledger)
    PROVE  Sound(Reserve(conf, c, t).ledger)
<1> DEFINE s == conf.ledger
           n == Len(s)
           e == [cycle |-> c, digest |-> DeriveDigest(conf, c), at |-> t]
           s2 == Append(s, e)
           W == WithinTrailingWindow(conf, t)
<1>1. CASE Existing(conf, c) # {}
  BY <1>1, Zenon DEF Reserve
<1>2. CASE Existing(conf, c) = {}
  <2>1. Reserve(conf, c, t).ledger = s2
    BY <1>2 DEF Reserve, Configuration
  <2>2. s \in Seq(Entry) /\ conf.policy \in Policies
    BY DEF Configuration
  <2>3. e \in Entry /\ e.cycle = c /\ e.at = t /\ e.digest.policy = conf.policy
    BY DigestTyped DEF Entry, DeriveDigest
  <2> HIDE DEF e
  <2>4. /\ n \in Nat /\ DOMAIN s = 1..n /\ Len(s2) = n + 1 /\ s2[n + 1] = e
        /\ \A i \in 1..n : s2[i] = s[i]
    BY <2>2, <2>3
  <2>5. \A i \in 1..n : s[i].at \in Int /\ s[i].cycle # c
    <3> SUFFICES ASSUME NEW i \in 1..n PROVE s[i].at \in Int /\ s[i].cycle # c
      OBVIOUS
    <3>1. s[i] \in Entry
      BY <2>2
    <3> QED BY <1>2, <2>4, <3>1 DEF Entry, Existing
  <2>6. \A i, j \in 1..n : i <= j => s[i].at <= s[j].at
    BY DEF Sound
  <2>7. \A i \in 1..n : s[i].at <= t
    <3> SUFFICES ASSUME NEW i \in 1..n PROVE s[i].at <= t
      OBVIOUS
    <3>1. n \in 1..(Len(s2) - 1) /\ n \in 1..n /\ i <= n
      BY <2>4
    <3>2. s2[n].at <= s2[n + 1].at
      BY <2>1, <3>1 DEF Ordered
    <3>3. s[n].at <= t
      BY <2>3, <2>4, <3>1, <3>2
    <3>4. s[i].at <= s[n].at
      BY <2>6, <3>1
    <3> QED BY <2>5, <3>1, <3>3, <3>4
  <2>8. \A i, j \in 1..(n + 1) : i <= j => s2[i].at <= s2[j].at
    <3> SUFFICES ASSUME NEW i \in 1..(n + 1), NEW j \in 1..(n + 1), i <= j PROVE s2[i].at <= s2[j].at
      OBVIOUS
    <3>1. CASE i \in 1..n /\ j \in 1..n
      BY <2>4, <2>6, <3>1
    <3>2. CASE i \in 1..n /\ j = n + 1
      BY <2>3, <2>4, <2>7, <3>2
    <3>3. CASE i = n + 1 /\ j = n + 1
      BY <2>3, <2>4, <3>3
    <3> QED BY <2>4, <3>1, <3>2, <3>3
  <2>9. \A i, j \in 1..(n + 1) : s2[i].cycle = s2[j].cycle => i = j
    <3> SUFFICES ASSUME NEW i \in 1..(n + 1), NEW j \in 1..(n + 1), s2[i].cycle = s2[j].cycle PROVE i = j
      OBVIOUS
    <3>1. CASE i \in 1..n /\ j \in 1..n
      BY <2>4, <3>1 DEF Sound
    <3>2. CASE i = n + 1 \/ j = n + 1
      BY <2>3, <2>4, <2>5, <3>2
    <3> QED BY <2>4, <3>1, <3>2
  <2>10. ASSUME NEW i \in 1..n PROVE EntryFits(s2, i)
    <3>1. Trailing(s2, i) = Trailing(s, i) /\ s2[i] = s[i]
      <4>1. \A j \in 1..i : s2[j] = s[j]
        BY <2>4
      <4> QED BY <2>4, <4>1 DEF Trailing
    <3>2. \A j \in Trailing(s, i) : j \in 1..Len(s)
      BY <2>4 DEF Trailing
    <3> HIDE DEF s
    <3>3. SumFunctionOnSet(CostsOf(s2), Trailing(s, i)) = SumFunctionOnSet(CostsOf(s), Trailing(s, i))
      BY <2>2, <2>3, <3>2, EarlierCosts
    <3>4. EntryFits(s, i)
      BY DEF Sound, s
    <3> HIDE DEF s2
    <3> QED BY <3>1, <3>3, <3>4 DEF EntryFits
  <2>11. EntryFits(s2, n + 1)
    <3>1. Trailing(s2, n + 1) = W \cup {n + 1}
      <4>1. \A j \in 1..n : s2[j] = s[j] /\ s[j].at \in Int /\ t >= s[j].at
        BY <2>4, <2>5, <2>7
      <4>2. ASSUME NEW j PROVE j \in Trailing(s2, n + 1) <=> j \in W \cup {n + 1}
        <5>1. CASE j \in 1..n
          BY <2>3, <2>4, <4>1, <5>1 DEF Trailing, WithinTrailingWindow
        <5>2. CASE j = n + 1
          <6>1. n + 1 \in 1..(n + 1) /\ t - t < Window
            BY <2>4, PolicyAssumption
          <6> QED BY <2>3, <2>4, <5>2, <6>1 DEF Trailing
        <5>3. CASE ~(j \in 1..n \/ j = n + 1)
          BY <2>4, <5>3 DEF Trailing, WithinTrailingWindow
        <5> QED BY <5>1, <5>2, <5>3
      <4> QED BY <4>2
    <3>2. \A i \in W : i \in 1..Len(s)
      BY <2>4 DEF WithinTrailingWindow
    <3>3. /\ Cardinality(W) < conf.policy.cycles
          /\ SpendInWindow(conf, t) + Cost(c) <= conf.policy.budget
      BY <1>2 DEF ClaimAllowed
    <3>4. SpendInWindow(conf, t) = SumFunctionOnSet(CostsOf(s), W)
      BY Zenon DEF SpendInWindow, Costs, CostsOf
    <3>5. conf.policy.cycles \in Nat /\ conf.policy.budget \in Nat /\ Cost(c) \in Nat
      BY <2>2, PolicyAssumption DEF Policy
    <3> HIDE DEF s, W
    <3>6. /\ SumFunctionOnSet(CostsOf(Append(s, e)), W \cup {Len(s) + 1})
               = Cost(e.cycle) + SumFunctionOnSet(CostsOf(s), W)
          /\ Cardinality(W \cup {Len(s) + 1}) = Cardinality(W) + 1
          /\ SumFunctionOnSet(CostsOf(s), W) \in Nat /\ Cardinality(W) \in Nat
      BY <2>2, <2>3, <3>2, AppendedCost
    <3>7. /\ SumFunctionOnSet(CostsOf(s2), Trailing(s2, n + 1)) <= conf.policy.budget
          /\ Cardinality(Trailing(s2, n + 1)) <= conf.policy.cycles
      <4>1. SumFunctionOnSet(CostsOf(s2), Trailing(s2, n + 1)) = Cost(c) + SpendInWindow(conf, t)
        BY <2>3, <3>1, <3>4, <3>6, Zenon
      <4>2. Cardinality(Trailing(s2, n + 1)) = Cardinality(W) + 1
        BY <3>1, <3>6, Zenon
      <4>3. SpendInWindow(conf, t) \in Nat /\ Cardinality(W) \in Nat
        BY <3>4, <3>6, Zenon
      <4> QED BY <3>3, <3>5, <4>1, <4>2, <4>3
    <3> QED BY <2>3, <2>4, <3>7 DEF EntryFits
  <2>12. \A i \in 1..(n + 1) : EntryFits(s2, i)
    BY <2>4, <2>10, <2>11
  <2> QED BY <2>1, <2>4, <2>8, <2>9, <2>12 DEF Sound
<1> QED BY <1>1, <1>2

\* The file and every copy a process holds are sound.
SoundInv == Sound(configuration.ledger) /\ \A p \in Process : Sound(current[p].ledger)

LEMMA EmptySound == Sound(Empty.ledger)
BY DEF Empty, Sound

LEMMA StepSound ==
    ASSUME Typing, SoundInv, [Next]_vars
    PROVE  SoundInv'
<1>0. /\ step \in [Process -> Steps] /\ current \in [Process -> Configuration]
      /\ configuration \in Configuration /\ now \in Int
      /\ Sound(Empty.ledger) /\ \A p \in Process : current[p] \in Configuration
  BY EmptySound DEF Typing, TypeOK
<1>1. ASSUME UNCHANGED <<configuration, current>> PROVE SoundInv'
  BY <1>1 DEF SoundInv
<1>2. ASSUME NEW p \in Process, UNCHANGED configuration,
             \/ current' = current
             \/ current' = [current EXCEPT ![p] = Empty]
             \/ current' = [current EXCEPT ![p] = configuration]
      PROVE  SoundInv'
  BY <1>0, <1>2 DEF SoundInv
<1>3. ASSUME NEW conf \in Configuration, Sound(conf.ledger), configuration' = conf, UNCHANGED current
      PROVE  SoundInv'
  BY <1>3 DEF SoundInv
<1>4. ASSUME NEW p \in Process, Mutate(p) \/ Crash(p) \/ Restart(p), ~MutateCommand(p) PROVE SoundInv'
  BY <1>2, <1>4, Zenon DEF Mutate, Open, OpenFails, ReadOwner, CompareLock, UnlinkStale, WriteOwner,
     ReadCurrent, RemoveLock, Acknowledge, Recover, Crash, Restart, file, Advance, Contention, Retry,
     Throw, Return, Stale
<1>5. ASSUME NEW p \in Process, MutateCommand(p) PROVE SoundInv'
  <2>1. p \in Operators /\ request[p] \in Commands /\ current[p] \in Configuration
    BY <1>5 DEF MutateCommand, Typing, TypeOK, RequestInv, Busy, Process
  <2>2. /\ Apply(current[p], request[p]) \in Configuration
        /\ Apply(current[p], request[p]).ledger = current[p].ledger
    BY <2>1, ApplyKeepsKill
  <2>3. configuration' = Apply(current[p], request[p]) /\ UNCHANGED current
    BY <1>5 DEF MutateCommand, Rename
  <2>4. Sound(current[p].ledger)
    BY DEF SoundInv
  <2> QED BY <1>3, <2>2, <2>3, <2>4
<1>6. CASE MutateReservation
  <2> DEFINE conf == current[Service]
             reserved == Reserve(conf, active, now)
  <2>1. /\ Service \in Process /\ conf \in Configuration /\ Sound(conf.ledger) /\ active \in Cycle
    BY <1>0, <1>6, OperatorAssumption
    DEF MutateReservation, SoundInv, Process, Typing, RequestInv, Busy
  <2>2. CASE /\ ClaimAllowed(conf, active, now) /\ Ordered(reserved.ledger)
             /\ configuration' = reserved /\ UNCHANGED current
    <3>1. reserved \in Configuration /\ Sound(reserved.ledger)
      BY <1>0, <2>1, <2>2, ReserveSound, ReserveTyped
    <3> HIDE DEF reserved
    <3> QED BY <1>3, <2>2, <3>1
  <2>3. CASE configuration' = conf /\ UNCHANGED current
    BY <1>3, <2>1, <2>3
  <2>4. CASE UNCHANGED configuration /\ current' = [current EXCEPT ![Service] = Empty]
    BY <1>2, <2>1, <2>4
  <2> QED BY <1>6, <2>2, <2>3, <2>4, Zenon DEF MutateReservation, Rename, Throw, Return, file
<1>7. ASSUME ClockTick \/ ClockSetBack \/ BeginRun \/ CycleStart \/ CreateCycle \/ EvaluatePurchase
             \/ Guard \/ ExecuteStage \/ Admit \/ \E p \in Operators, m \in Commands : Execute(p, m)
      PROVE  UNCHANGED <<configuration, current>>
  BY <1>7, Zenon DEF ClockTick, ClockSetBack, BeginRun, CycleStart, CreateCycle, EvaluatePurchase, Guard,
     ExecuteStage, Admit, Execute, Begin, file, callVars
<1>8. CASE UNCHANGED vars
  BY <1>1, <1>8, Zenon DEF vars, file, callVars
<1> QED BY <1>1, <1>4, <1>5, <1>6, <1>7, <1>8, Zenon DEF Next, ServiceStep

LEMMA SoundInvariance == Spec => [](Typing /\ SoundInv)
<1>1. Init => Typing /\ SoundInv
  <2>1. Init => SoundInv
    BY EmptySound, Zenon DEF Init, SoundInv
  <2> QED BY <2>1, InitTyping
<1>2. Typing /\ SoundInv /\ [Next]_vars => (Typing /\ SoundInv)'
  BY StepTyping, StepSound
<1> QED BY <1>1, <1>2, PTL DEF Spec

\* Whatever operators do to the limits, whatever the clock does, whoever dies
\* where and whichever write overwrites which: every reservation in the file
\* fitted the budget and the number of cycles it was made under.
THEOREM CapsAlwaysHonoured == Spec => []CapsHonoured
<1>1. Typing /\ SoundInv => CapsHonoured
  <2> SUFFICES ASSUME Typing, SoundInv, NEW i \in DOMAIN configuration.ledger
               PROVE  EntryFits(configuration.ledger, i)
    BY Zenon DEF CapsHonoured, EntryFits, Trailing, Costs, CostsOf
  <2>1. configuration.ledger \in Seq(Entry)
    BY DEF Typing, TypeOK, Configuration
  <2>2. i \in 1..Len(configuration.ledger)
    BY <2>1
  <2> QED BY <2>2 DEF SoundInv, Sound
<1> QED BY <1>1, SoundInvariance, PTL

-----------------------------------------------------------------------------
(***************************************************************************)
(* What was executed was reserved, once.  A cycle has at most one entry    *)
(* because the ledger is sound; that it keeps the one it had when it was   *)
(* executed needs that the file's ledger only grows, which is mutual       *)
(* exclusion again: what a process writes extends what the file holds.     *)
(***************************************************************************)

Reserved(c) == Existing(configuration, c) # {}

ExecutedInv ==
    /\ run = "execute" => Reserved(active)
    /\ \A x \in executed : Reserved(x[1])

\* No step takes a reservation out of the file.
LEMMA ReservationsStay ==
    ASSUME Typing, LockInv, [Next]_vars, NEW c, Reserved(c)
    PROVE  Reserved(c)'
<1>0. configuration \in Configuration /\ configuration.ledger \in Seq(Entry)
  BY DEF Typing, TypeOK, Configuration
<1>1. ASSUME configuration'.ledger = configuration.ledger PROVE Reserved(c)'
  BY <1>1, Zenon DEF Reserved, Existing
<1>2. ASSUME NEW p \in Process, Mutate(p) \/ Crash(p) \/ Restart(p), ~MutateCommand(p)
      PROVE  configuration' = configuration
  BY <1>2, Zenon DEF Mutate, Open, OpenFails, ReadOwner, CompareLock, UnlinkStale, WriteOwner,
     ReadCurrent, RemoveLock, Acknowledge, Recover, Crash, Restart, file
<1>3. ASSUME NEW p \in Process, MutateCommand(p) PROVE configuration'.ledger = configuration.ledger
  <2>1. p \in Operators /\ request[p] \in Commands
    BY <1>3 DEF MutateCommand, Typing, TypeOK, RequestInv, Busy, Process
  <2>2. current[p] = configuration /\ configuration' = Apply(current[p], request[p])
    BY <1>3 DEF MutateCommand, Rename, LockInv
  <2> QED BY <1>0, <2>1, <2>2, ApplyKeepsKill
<1>4. CASE MutateReservation
  <2>1. current[Service] = configuration
    BY <1>4 DEF MutateReservation, LockInv, Process
  <2>2. configuration' \in {configuration, Reserve(configuration, active, now)}
    BY <1>4, <2>1, Zenon DEF MutateReservation, Rename, file
  <2> DEFINE e == [cycle |-> active, digest |-> DeriveDigest(configuration, active), at |-> now]
             s == configuration.ledger
  <2>3. CASE configuration'.ledger = Append(s, e)
    <3>1. PICK i \in DOMAIN s : s[i].cycle = c
      BY DEF Reserved, Existing
    <3> HIDE DEF e
    <3>2. i \in DOMAIN Append(s, e) /\ Append(s, e)[i] = s[i]
      BY <1>0
    <3> QED BY <2>3, <3>1, <3>2 DEF Reserved, Existing
  <2>4. CASE configuration' = configuration
    BY <1>1, <2>4
  <2>5. Reserve(configuration, active, now) = configuration
        \/ Reserve(configuration, active, now).ledger = Append(s, e)
    BY <1>0 DEF Reserve, Configuration
  <2> QED BY <2>2, <2>3, <2>4, <2>5
<1>5. ASSUME ClockTick \/ ClockSetBack \/ BeginRun \/ CycleStart \/ CreateCycle \/ EvaluatePurchase
             \/ Guard \/ ExecuteStage \/ Admit \/ \E p \in Operators, m \in Commands : Execute(p, m)
      PROVE  configuration' = configuration
  BY <1>5, Zenon DEF ClockTick, ClockSetBack, BeginRun, CycleStart, CreateCycle, EvaluatePurchase, Guard,
     ExecuteStage, Admit, Execute, file
<1>6. CASE UNCHANGED vars
  BY <1>1, <1>6, Zenon DEF vars, file
<1> QED BY <1>1, <1>2, <1>3, <1>4, <1>5, <1>6, Zenon DEF Next, ServiceStep

LEMMA StepExecuted ==
    ASSUME Typing, LockInv, ExecutedInv, [Next]_vars
    PROVE  ExecutedInv'
<1>1. ASSUME UNCHANGED executed, run' = "execute" => run = "execute" /\ active' = active PROVE ExecutedInv'
  <2>1. \A x \in executed : Reserved(x[1])'
    BY ReservationsStay DEF ExecutedInv
  <2>2. run' = "execute" => Reserved(active)'
    <3> SUFFICES ASSUME run' = "execute" PROVE Reserved(active)'
      OBVIOUS
    <3> DEFINE c == active
    <3>1. Reserved(c) /\ active' = c
      BY <1>1 DEF ExecutedInv
    <3> HIDE DEF c
    <3> QED BY <3>1, ReservationsStay DEF Reserved
  <2> QED BY <1>1, <2>1, <2>2 DEF ExecutedInv
<1>2. ASSUME NEW p \in Process, Mutate(p) \/ Crash(p) \/ Restart(p)
      PROVE  UNCHANGED <<executed, active>> /\ (run' = "execute" => run = "execute")
  BY <1>2, Zenon DEF Mutate, Open, OpenFails, ReadOwner, CompareLock, UnlinkStale, WriteOwner,
     ReadCurrent, MutateCommand, RemoveLock, Acknowledge, Recover, Crash, Restart, cycleVars, Advance,
     Contention, Retry, Throw, Return, Stale, Rename
<1>3. CASE MutateReservation
  <2>1. UNCHANGED <<executed, active>> /\ run' \in {"admitted", "refused", "idle"}
    BY <1>3, OperatorAssumption DEF MutateReservation, Throw, Return, cycleVars
  <2> QED BY <1>1, <2>1
<1>4. CASE ClockTick \/ ClockSetBack \/ \E p \in Operators, m \in Commands : Execute(p, m)
  BY <1>1, <1>4, Zenon DEF ClockTick, ClockSetBack, Execute, cycleVars
<1>5. CASE BeginRun \/ CycleStart \/ CreateCycle \/ EvaluatePurchase \/ Admit
  <2>1. UNCHANGED executed /\ run' \in {"stage", "gate", "idle", "planned", "create", "guard", "admit"}
    BY <1>5 DEF BeginRun, CycleStart, CreateCycle, EvaluatePurchase, Admit, cycleVars
  <2> QED BY <1>1, <2>1
<1>6. CASE Guard
  <2>1. UNCHANGED <<executed, active, configuration>>
    BY <1>6 DEF Guard, cycleVars, file
  <2>2. run' = "execute" => Reserved(active)
    <3> SUFFICES ASSUME run' = "execute" PROVE Reserved(active)
      OBVIOUS
    <3>1. Allowed(Stages[stage])
      BY <1>6 DEF Guard
    <3> QED BY <3>1 DEF Allowed, ClaimExecutionAllowed, PurchaseAllowed, ExistingExecutionAllowed, Reserved
  <2> QED BY <2>1, <2>2, Zenon DEF ExecutedInv, Reserved
<1>7. CASE ExecuteStage
  <2>1. /\ run = "execute" /\ run' \in {"stage", "idle"} /\ configuration' = configuration
        /\ executed' = executed \cup {<<active, Stages[stage]>>}
    BY <1>7 DEF ExecuteStage, file
  <2>2. Reserved(active)
    BY <2>1 DEF ExecutedInv
  <2>3. \A x \in executed' : Existing(configuration, x[1]) # {}
    BY <2>1, <2>2 DEF ExecutedInv, Reserved
  <2> QED BY <2>1, <2>3 DEF ExecutedInv, Reserved
<1>8. CASE UNCHANGED vars
  BY <1>1, <1>8, Zenon DEF vars, cycleVars
<1>9. ASSUME NEW p \in Process, Mutate(p) \/ Crash(p) \/ Restart(p) PROVE ExecutedInv'
  BY <1>1, <1>2, <1>9
<1> QED BY <1>3, <1>4, <1>5, <1>6, <1>7, <1>8, <1>9, Zenon DEF Next, ServiceStep

\* As long as no process dies while it holds the lock file, nothing is executed
\* for a cycle whose cost is not in the ledger, and no cost is there twice: not
\* after a retry, a restart, a reconfiguration or a write that came too late.
THEOREM ExecutionIsReservedOnce ==
    ASSUME OutsideLock PROVE Spec => []ExecutedOnce
<1>1. Init => ExecutedInv
  BY DEF Init, ExecutedInv
<1>2. Typing /\ Exclusion /\ ExecutedInv /\ [Next]_vars => ExecutedInv'
  BY StepExecuted DEF Exclusion
<1>3. Typing /\ SoundInv /\ ExecutedInv => ExecutedOnce
  <2> SUFFICES ASSUME Typing, SoundInv, NEW c, Reserved(c)
               PROVE  Cardinality(Existing(configuration, c)) = 1
    BY Zenon DEF ExecutedInv, ExecutedOnce
  <2>1. configuration.ledger \in Seq(Entry)
    BY DEF Typing, TypeOK, Configuration
  <2>2. PICK i : i \in Existing(configuration, c)
    BY DEF Reserved
  <2>3. Existing(configuration, c) = {i}
    BY <2>1, <2>2 DEF Existing, SoundInv, Sound
  <2> QED BY <2>3, FS_Singleton
<1> QED BY <1>1, <1>2, <1>3, SoundInvariance, ExclusionInvariance, PTL DEF Spec
==============================================================================
