------------------------------ MODULE Scheduler ------------------------------
(***************************************************************************)
(* The cycle scheduler of runner/src/scheduler/scheduler.mjs: a timer loop *)
(* that runs one tick after another.  start, stop and triggerTick are      *)
(* called at any time by the service and its operator; timers fire, ticks  *)
(* wait in tickChain, read the operator configuration, call the worker and *)
(* settle, each in a turn of the event loop of its own.                    *)
(*                                                                         *)
(* Delays are left out: an installed timer may fire at any time.  The      *)
(* counter scheduleGeneration only grows and is only compared for equality *)
(* with the generation a timer or a tick was scheduled under, so a timer   *)
(* and a tick carry the outcome of that comparison: current or not.        *)
(***************************************************************************)
EXTENDS Naturals, Sequences

CONSTANTS
    Handles,      \* timer handles; bounds the timers installed at once
    NoTimer,      \* null
    MaxBackoff,   \* steps from reconcileRetryMs to reconcileMaxBackoffMs
    MaxChain      \* bound: ticks in tickChain when start or triggerTick is called

ASSUME SchedulerAssumption ==
    /\ NoTimer \notin Handles
    /\ MaxBackoff \in Nat \ {0}
    /\ MaxChain \in Nat

VARIABLES
    stopped,
    timers,          \* the timers installed in the event loop
    timerHandle,     \* the one the scheduler remembers
    tickChain,       \* ticks in the order they were queued
    phase,           \* how far the first of them is
    method,          \* the worker method it called
    requiresFastRetry,
    outageBackoff,   \* outageBackoffMs in steps, 0 for null
    nextWakeup       \* whether getView shows nextCycleAt or nextReconcileAt

tickVars == <<phase, method, requiresFastRetry>>
viewVars == <<outageBackoff, nextWakeup>>
schedulerVars == <<stopped, timers, timerHandle, tickChain, tickVars, viewVars>>

Timer == [handle : Handles, current : BOOLEAN]

\* A manual tick has scheduleAfter FALSE and no generation to compare.
Tick == [scheduleAfter : BOOLEAN, current : BOOLEAN]

\* What readConfiguration and buildWorker can come to.
Configurations == {"missing", "unreadable", "workerless", "paused", "enabled"}

WorkerResults == {"none", "pending", "outage"}

SchedulerInit ==
    /\ stopped = TRUE
    /\ timers = {} /\ timerHandle = NoTimer
    /\ tickChain = << >>
    /\ phase = "queued" /\ method = "none" /\ requiresFastRetry = "none"
    /\ outageBackoff = 0 /\ nextWakeup = "none"

-----------------------------------------------------------------------------
(* Timers and generations *)

\* scheduleGeneration += 1: what was scheduled before is no longer current.
Outdated(S) == {[t EXCEPT !.current = FALSE] : t \in S}

OutdatedChain(s) == [i \in DOMAIN s |-> [s[i] EXCEPT !.current = FALSE]]

\* cancel(timerHandle)
Cancelled(S) == {t \in S : t.handle # timerHandle}

\* schedule({ delayMs, callback }) on top of the timers S.
Schedule(S) ==
    LET free == Handles \ {t.handle : t \in S}
        h == CHOOSE x \in free : TRUE
    IN  /\ free # {}
        /\ timers' = S \cup {[handle |-> h, current |-> TRUE]}
        /\ timerHandle' = h

\* Fault: an outage retry is left to the next manual tick.
ScheduleNextUnlessOutage ==
    \/ /\ stopped \/ requiresFastRetry = "outage"
       /\ UNCHANGED <<timers, timerHandle>>
    \/ /\ ~stopped /\ requiresFastRetry # "outage"
       /\ Schedule(timers)

ScheduleNext ==
    \/ /\ stopped
       /\ UNCHANGED <<timers, timerHandle>>
    \/ /\ ~stopped
       /\ Schedule(timers)

Least(a, b) == IF a < b THEN a ELSE b

ApplyScheduleOutcome ==
    /\ nextWakeup' = IF requiresFastRetry = "none" THEN "cycle" ELSE "reconcile"
    /\ outageBackoff' = IF requiresFastRetry = "outage"
                        THEN Least(outageBackoff + 1, MaxBackoff)
                        ELSE 0

-----------------------------------------------------------------------------
(* Calls from outside *)

Enqueue(s, scheduleAfter) ==
    Append(s, [scheduleAfter |-> scheduleAfter, current |-> scheduleAfter])

\* start is a no-op when running; it enters wake without a timer.
Start ==
    /\ stopped /\ Len(tickChain) < MaxChain
    /\ stopped' = FALSE
    /\ timers' = Outdated(timers) /\ timerHandle' = NoTimer
    /\ tickChain' = Enqueue(OutdatedChain(tickChain), TRUE)
    /\ UNCHANGED <<tickVars, viewVars>>

Stop ==
    /\ stopped' = TRUE
    /\ timers' = Outdated(Cancelled(timers)) /\ timerHandle' = NoTimer
    /\ tickChain' = OutdatedChain(tickChain)
    /\ UNCHANGED <<tickVars, viewVars>>

TriggerTick ==
    /\ Len(tickChain) < MaxChain
    /\ tickChain' = Enqueue(tickChain, FALSE)
    /\ UNCHANGED <<stopped, timers, timerHandle, tickVars, viewVars>>

-----------------------------------------------------------------------------
(* The event loop *)

\* A timer's callback runs wake, whether or not it is the remembered one.
Wake(t) ==
    /\ timers' = timers \ {t} /\ timerHandle' = NoTimer
    /\ tickChain' = IF stopped \/ ~t.current THEN tickChain
                                             ELSE Enqueue(tickChain, TRUE)
    /\ UNCHANGED <<stopped, tickVars, viewVars>>

First == Head(tickChain)

Outdate(tick) == tick.scheduleAfter /\ (stopped \/ ~tick.current)

\* dispatch: an outdated tick settles without running.
Dispatch ==
    /\ tickChain # << >> /\ phase = "queued"
    /\ phase' = IF Outdate(First) THEN "settling" ELSE "reading"
    /\ requiresFastRetry' = "none" /\ method' = "none"
    /\ UNCHANGED <<stopped, timers, timerHandle, tickChain, viewVars>>

\* runTick up to the worker call: c is what the state file and buildWorker give.
ReadConfiguration(c) ==
    /\ phase = "reading"
    /\ \/ /\ c = "missing"
          /\ phase' = "settling" /\ UNCHANGED <<method, requiresFastRetry>>
       \/ /\ c \in {"unreadable", "workerless"}
          /\ phase' = "settling" /\ requiresFastRetry' = "outage" /\ UNCHANGED method
       \/ /\ c \in {"paused", "enabled"}
          /\ phase' = "working" /\ UNCHANGED requiresFastRetry
          /\ method' = IF c = "paused" THEN "recoverActiveCycle" ELSE "runOnce"
    /\ UNCHANGED <<stopped, timers, timerHandle, tickChain, viewVars>>

\* The worker call returns or throws ("outage").
WorkerSettles(r) ==
    /\ phase = "working"
    /\ phase' = "settling" /\ method' = "none" /\ requiresFastRetry' = r
    /\ UNCHANGED <<stopped, timers, timerHandle, tickChain, viewVars>>

\* The tick leaves the chain, which is outdated when it preempted a timer.
Leave(s) ==
    /\ tickChain' = Tail(s) /\ phase' = "queued" /\ requiresFastRetry' = "none"
    /\ UNCHANGED <<stopped, method>>

SettleAutomatic ==
    /\ phase = "settling" /\ First.scheduleAfter
    /\ ApplyScheduleOutcome
    /\ ScheduleNext
    /\ Leave(tickChain)

\* Nothing urgent was found, or nothing may be scheduled.
SettleManual ==
    /\ phase = "settling" /\ ~First.scheduleAfter
    /\ requiresFastRetry = "none" \/ stopped
    /\ IF requiresFastRetry = "none" THEN UNCHANGED viewVars ELSE ApplyScheduleOutcome
    /\ Leave(tickChain)
    /\ UNCHANGED <<timers, timerHandle>>

\* preemptInstalledTimer
SettlePreempting ==
    /\ phase = "settling" /\ ~First.scheduleAfter
    /\ requiresFastRetry # "none" /\ ~stopped
    /\ ApplyScheduleOutcome
    /\ Schedule(Outdated(Cancelled(timers)))
    /\ Leave(OutdatedChain(tickChain))

SchedulerStep == \/ Dispatch
                 \/ SettleAutomatic
                 \/ SettleManual
                 \/ SettlePreempting

SchedulerNext ==
    \/ Start \/ Stop \/ TriggerTick
    \/ \E t \in timers : Wake(t)
    \/ SchedulerStep
    \/ \E c \in Configurations : ReadConfiguration(c)
    \/ \E r \in WorkerResults : WorkerSettles(r)

SchedulerSpec == SchedulerInit /\ [][SchedulerNext]_schedulerVars

\* Node runs every callback that is due, and a worker call settles: each of
\* its own requests has a timeout.
Fairness ==
    /\ WF_schedulerVars(SchedulerStep)
    /\ WF_schedulerVars(\E c \in Configurations : ReadConfiguration(c))
    /\ WF_schedulerVars(\E r \in WorkerResults : WorkerSettles(r))
    /\ \A h \in Handles :
          WF_schedulerVars(\E t \in timers : t.handle = h /\ Wake(t))

FairSpec == SchedulerSpec /\ Fairness

-----------------------------------------------------------------------------
(* Properties *)

SchedulerTypeOK ==
    /\ stopped \in BOOLEAN
    /\ timers \subseteq Timer /\ timerHandle \in Handles \cup {NoTimer}
    /\ tickChain \in Seq(Tick)
    /\ phase \in {"queued", "reading", "working", "settling"}
    /\ method \in {"none", "runOnce", "recoverActiveCycle"}
    /\ requiresFastRetry \in WorkerResults
    /\ outageBackoff \in 0..MaxBackoff
    /\ nextWakeup \in {"none", "cycle", "reconcile"}
    /\ phase # "queued" => tickChain # << >>

\* A running scheduler cannot fall asleep: a timer that will be obeyed is
\* installed, or a tick that will install one is waiting.
NoLostWakeup ==
    ~stopped => \/ \E t \in timers : t.current
                \/ \E i \in DOMAIN tickChain : tickChain[i].scheduleAfter

\* A running scheduler keeps ticking.
TicksKeepComing == ~stopped ~> (stopped \/ phase = "reading")
=============================================================================
