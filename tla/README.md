# Hookemon: specifications and proofs

Hookemon is a Uniswap-v4 hook on chain 4663 that takes a 3 % fee from every swap of
one pool, and an off-chain runner that turns the Process share of that fee into
cycles: claim it, bridge it, buy and open packs, sell back, bridge home, pay the
holders. This directory holds TLA+ models of the parts in which money or
exclusiveness is decided, the TLC runs that check them and TLAPS proofs of what
holds for every size of the system.

## 1. Inventory

| Part | Code | State | Operations | What is hard |
|---|---|---|---|---|
| Fee ledger | `contracts/src/accounting/FeeAccounting.sol` | liabilities of three streams, carried remainders, money-path lock | accrue, three claims, receive | cumulative rounding; a recipient's code runs inside a payment |
| Canonical market | `contracts/src/market/CanonicalMarket.sol` | transient swap context | beforeSwap, afterSwap, gross-up search | least root of a non-monotone function in a bounded scan |
| Roles | `contracts/src/access/MoneyRoles.sol`, `HookemonHook.sol` 562-609 | Treasury, Operations, proposals, pause, scheduled rotation | propose, accept, pause, schedule, execute | orders of independent handovers nobody tests |
| Claim window | `HookemonHook.sol` 501-560, 648-691 | ring of claims, usage, limit, pending increase | claimProcess, setProcessClaimLimit | lazy pruning, window edges, a full ring |
| Launch | `contracts/src/launch`, `bindings`, seeding in `HookemonHook.sol` | one-shot deployment state | issue, initialise, seed | half-done launches |
| Cycle lease | `runner/src/automation/exclusive-lease.mjs`, `adapters/src/app/lease-store.mjs` | lease file, lock file | acquire, renew, release | two processes, clocks read early, deaths |
| Durable store | `runner/src/cycle/durable-store.mjs`, `cycle-store.mjs` | index, active and archived journals, memory of each process | open, begin, commit, archive, global keys | several writes per commit, stale memory |
| Wallet nonces | `adapters/src/app/cycle-repository.mjs` 7377-7497, `wallet-nonce-lease.mjs` | reservation in the journal and in the index | reserve, assert, release | takeover after a death |
| Claim stage | `adapters/src/app/stages/claim-process.mjs`, `stage-driver.mjs` | chain attempt, budget entry, reservation | reconcile, prepare, sign, send, record, release | a failure at every await, finality seen by a later run |
| Cycle repository | `adapters/src/app/cycle-repository.mjs` | journal of a cycle: stages, attempts, relay legs, payouts, holds | prepare, sign, broadcast, finalise, complete, hold | effect sent but not recorded |
| Automated cycle service | `runner/src/automation/automated-cycle-service.mjs` | one run of a cycle | stage loop, heartbeat, guard | lease lost while awaiting |
| Policy engine, budget gate | `runner/src/automation/policy-engine.mjs`, `budget-gate.mjs`, `runner/src/config/state-schema.mjs` | policy, approvals, spend and cycle ledger | evaluate, admit, approve | rolling caps while policy, ledger and clock change |
| Scheduler | `runner/src/scheduler/scheduler.mjs` | timers, schedule generation, tick chain, back-off | start, stop, triggerTick, timer callback | a manual tick racing the timer's own; a wake-up lost after an error |
| Operator state | `runner/src/operator/state-file.mjs`, `control.mjs` | state file with its revision, lock file | read, mutate, recover a command | stale locks, a kill racing a reservation |
| Direct payout | `adapters/src/app/stages/payout.mjs`, `cycle-repository.mjs` 6264-6661 | attempt per recipient, quarantine, retries | reserve nonce, sign, broadcast, settle, refuse, retry | a chain that drops and reorganizes, two journals, new fencing tokens |
| Distribution | `runner/src/distribution` | snapshot, plan, manifest | pro-rata, reconcile | rounding, partial payouts |
| Reducer, cycle runner | `runner/src/cycle/reducer.mjs`, `cycle-runner.mjs` | event-sourced cycle | transitions | order of events |
| Retired vault family | `contracts/src/process`, `payout`, `settlement` | frozen | | not called by the deployed hook |
| Clients, dashboard, web | `adapters/src/*-client.mjs`, `dashboard`, `apps/web` | none of their own | | input, output, presentation |

A swap credits the ledger; the Treasury and the fixed Programmable account claim
their shares directly. Operations claims the Process share, one claim per cycle,
within the trailing window. The runner that does so is a Node process that a
scheduler ticks: each tick acquires the lease, reads the active cycle from the
store, drives its stages, appends every decision to the cycle's journal and releases
the lease. Operator commands (`abort-cycle`, `status`) are further processes on the
same state directory. Correctness of the whole rests on: the ledger never owing more
than the hook has; Process claims bounded per window and per key holder; one runner
at a time; journals that only grow; no authorization, nonce or receipt used twice.

## 2. Plan

Order: the money the contract holds first, then what makes the runner exclusive and its
records durable, then the protocol of one cycle on top of both, then arithmetic.

1. `FeeAccounting`, `RoleControl`, `ClaimWindow` and their composition `HookemonHook`
   (done; every safety property and the refinement of the three by the composition proved).
   Later: launch and seeding.
2. `CycleLease` and `DurableStore` (done, with proofs). Later: the rule of `commit` under which
   journals would stay append-only between processes, stated and proved.
3. `ClaimStage`: the claim stage with its chain attempt, nonce reservation, budget entry and
   the chain, over runs that fail (done, with proofs). Later: an abstract specification "an effect happens
   at most once per attempt" that the stage implements.
4. `Payout`: the direct payout with quarantine and retries over a chain that drops and
   reorganizes (done, with proofs).
5. `Scheduler`, and `PolicyEngine` with the operator's state file `OperatorState` (done, with
   proofs). Later: that a stale lock found by one contender at a time is harmless, which would
   replace the hypothesis `OutsideLock`.
6. The other stages on the same pattern: outbound and return with their Relay legs, the
   provider attempts (SENT_UNKNOWN, NOT_SENT, RECONCILED) of purchase, open and buyback;
   `WalletNonce` between the stages of two cycles that want one wallet.
7. `CycleService`: stage loop, holds, completion and closure over 2-6.
8. `ProRata` and payout reconciliation as pure operators against reference definitions.

## 3. Modules

| Module | Models | State and actions |
|---|---|---|
| `FeeAccounting` | the ledger and the fee of a swap | one variable per storage field; `SwapExactInput`, `SwapExactOutput`, the three claims, `FinishPayment`, `Receive` |
| `BlockTime` | block.timestamp | the clock that `RoleControl` and `ClaimWindow` read |
| `RoleControl` | roles, pause, rotation | storage fields, plus who made a proposal and since when claims are paused (history); one action per external function and `RolesTick` |
| `ClaimWindow` | the ring and the limit | storage fields, plus all claims and the time of the last increase (history); `ClaimInWindow`, `SetLimit`, `WindowTick` |
| `HookemonHook` | the contract | `RoleControl` and `ClaimWindow` extended and `FeeAccounting` instantiated, over one clock; each action conjoins the component actions of one external function; plus what the Process stream lost in each second (history) |
| `CycleLease` | the lease between processes | the lease file, the lock file and the locals of each process's call |
| `DurableStore` | the store between processes | the files, and per process the memory of an opened store, its open transactions and its place in a write sequence |
| `ClaimStage` | the claim stage of one cycle | what the journal and the index record of it, the place of the run, the chain; one action per awaited step of reconcile and execute, one per kind of failure, four of another process that takes lease and wallet |
| `Scheduler` | the tick loop of one process | timers, tick chain, the tick in progress, back-off and next wake-up; one action per call and per reaction of the event loop |
| `PolicyEngine` | the decisions of the policy | no variables; operators over a configuration |
| `OperatorState` | the operator state file between operators and the service | the file, its lock, the step of each process's mutation, the service's run; one action per awaited file operation, one per gate of the run |
| `Payout` | the direct payout stage and its retries | payout state, quarantine journal, the run, the chain; one action per persisted boundary, one per move of the chain |
| `FeeAccountingProofs`, `CycleLeaseProofs`, `DurableStoreProofs`, `ClaimStageProofs`, `PayoutProofs` | theorems about the module named | |
| `HookemonHookProofs` | theorems about `RoleControl`, `ClaimWindow` and `HookemonHook` | |
| `AutomationProofs` | theorems about `Scheduler` and `OperatorState` with `PolicyEngine` | |
| `SumTheorems` | sums over finite sets, for the proofs | no variables |
| `MC...` | instances for TLC | symmetry and input sets only |

The lines each definition stands for are in `PROJECT.json` under `map`. Definitions marked
`Fault` are the deviations that the checks of the properties are tested with; no
specification uses them.

A call that reverts changes nothing and is a stuttering step. A payment is two steps,
`BeginPayment` (ledger debited, ETH sent, recipient running) and `FinishPayment`;
between them every call that does not take the money path may happen. `beforeSwap` and
`afterSwap` are one step: nothing of the hook runs in between, and the fee collected is
the fee previewed. Numbers keep their arithmetic (floor division, carried remainders);
256-bit overflow cannot be reached with the amounts the pool holds and is left out.

`CycleLease` names a random token by the process that drew it and the version it was
drawn for, which is what the uniqueness of a UUID gives. A call of a process is a
sequence of steps: clock sampled, record read, lock file created, version compared,
record renamed into place, lock file removed. Node runs these synchronously, but another
process may run between any two of them.

`DurableStore` represents a journal by the sequence of its entries; the version and the
head digest that the code compares are together the sequence itself. Evidence stands for
authorizations with their nonces and for receipts, which the code treats alike. Opening
the store happens under the directory lock and is one step. The lock is an SQLite
exclusive transaction, which the operating system ends with its process.

`ClaimStage` follows one cycle through successive runs of the service. `pc` is the await the
run is at; each action is the code up to the next await that reads or writes something
another step depends on. A run that stalls past its lease goes on until a fence ends it, and
another process may meanwhile take the lease over and use the wallet for another cycle (a payout
retry or a supplementary settlement, which a run does before its active cycle): it reserves the
global key by the rule of `reserveWalletNonce`, sends, and every claim signed and not yet sent
loses its nonce (`void`). Its own stages are not followed, and its reservation is kept as the global
key alone, which is written with the other journal. A fence and the call it guards are
one step. Two runs of this same stage do not overlap: within one process the service serialises
its runs, and two processes that write one journal are the defect of `DurableStore` in section 4.
Clock values are not kept, only their order: a lease is acquired, a lease lapses, the
window of a reservation lapses. `Aged` applies the rule of `validWalletNonceTakeover`: only a
lease acquired after the window lapsed may take a reservation over. A commit changes the index
first and the journal second, so a death in between leaves `key` ahead of `journal`; writes
that fail in a living process belong to `DurableStore`. The custody ledger, the policy and the
standing authority appear only as calls that may throw. The chain keeps a transaction it has
taken until it is final, and the hook refuses a cycle id twice (`ClaimWindow`).

`Scheduler` has one step per callback of the event loop: the code between two awaits of a tick
is atomic in Node. A timer or a queued tick carries whether the generation it was scheduled
under is still the present one, which is all the code compares. Delays are not kept; any timer
may fire next. The back-off is kept as the number of doublings, capped as in the code. Handles
are the timers Node may have installed at once, which the code does not bound.

`PolicyEngine` is the arithmetic of the policy without variables: a configuration is a record
of switches, the policy in force, approvals and one ledger entry per reserved cycle (the code
writes the cycle and the spend ledger together). `OperatorState` puts it into the state file.
A mutation is a sequence of steps, as the code awaits each: open the lock exclusively, or look at its owner
and remove it when the owner is dead, write the owner, read and compare the revision, rename
the new file into place, remove the lock. Operators and the service take the same path. A
command whose outcome is unknown is recovered by reading the file again. Around it the service
runs cycles of three stages, each behind the evaluations the code makes there. A stage's
effect is one step; what happens inside it is `ClaimStage` and `Payout`.

`Payout` follows the plan of one cycle. An attempt is a transfer of the plan or one of its
retries; every boundary that the code persists before going on is one step, and the chain moves between any
two. Nonces count the wallet's transactions from the first of the plan. The finalized block
that quarantine evidence names is kept as one bit: whether a repetition of the evidence would
name the same one (`fresh`). Fencing tokens are kept as whether they are the present run's.
Amounts, gas and the feasibility of the plan are left out. So are two
branches: `reserveWalletNonce` refuses a run while the window of an earlier reservation is open,
which only delays it (the rule itself is in `ClaimStage`); and `retryRefusedPayoutRecipient` settles
an original that turns out to have succeeded (`payout.mjs` 2088-2101), which cannot happen to an
outcome recorded from a finalized block (`OutcomeFinal`). `replaceDirectPayout` has no caller and is left out.

## 4. Runs

| Run | Configuration | Checks | Shows |
|---|---|---|---|
| `fee_ledger` | `MCFeeAccounting.cfg` | `Solvent`, `LedgerBalanced`, `LifetimeSplit`, `ExactOutputLeastGross` | Swaps of both kinds, donations and claims with calls nested in the payment keep the ledger solvent, balanced and split by the lifetime rates; the bounded search of _grossForExactOutput finds the least gross amount for every residue of the remainders. |
| `claim_window` | `MCClaimWindow.cfg` | `TrailingWindowCapped`, `UsageIsTrailingWindow`, `ViewMatchesClaim`, `RaiseWaitsAWindow` | The ring with lazy pruning enforces the cap over every trailing window, at its boundary seconds, when full and across changes of the limit. |
| `role_control` | `MCRoleControl.cfg` | `RotationNeverStale`, `ProposalsAreCurrent`, `RotationOnlyAfterPausedDelay`, `RotationCompletes` | Handovers, pauses and scheduled rotations in any order never make a rotation stale or early, and a scheduled rotation can always be completed. |
| `hook_refinement` | `MCHookemonHook.cfg` | `ProcessOutflowCapped`, `TreasuryLiabilityClaimable`, `ImplementsFees`, `ImplementsRoles`, `ImplementsClaimWindow`, `NoProcessPaymentDuringRotation` | The composed hook implements the three component specifications and pays no Process claim while a rotation is pending; over every trailing window the ledger loses to Process claims at most the limit in force, whatever roles and limit do and whatever is called inside a payment, and every Treasury liability can be claimed. |
| `cycle_lease` | `MCCycleLease.cfg` | `AtMostOneLive`, `LeaseWindowsDisjoint`, `ExpiredLeaseIsRecovered` | Processes that interleave at every file operation and die outside the lock file never hold the lease together, and the lease of a dead process does not block the others for good. |
| `durable_store` | `MCDurableStore.cfg` | `TypeOK`, `JournalAppendOnly` | One process with overlapping transactions of two cycles, archiving, failed index and archive writes and deaths between writes only ever extends the journals on disk. |
| `store_evidence` | `MCStoreEvidence.cfg` | `EvidenceConsumedOnce`, `IndexCoversJournal` | Two processes that die at any point and whose journal or archive writes fail never consume one piece of evidence in two cycles, and the index on disk is never behind a journal. |
| `claim_stage` | `MCClaimStage.cfg` | `OneClaimOnChain`, `BudgetFollowsChain`, `CompletedClaimIsPaid`, `UsesOwnWallet`, `ClaimIsSettled` | Successive runs of the claim stage that throw, die, lose messages and lose their lease or their reservation at every step, while another process takes the lease over and uses the wallet, put one transaction on the chain, sign and send only with the wallet reserved for them, keep the budget in step with the chain, and settle the claim once failures stop, unless its nonce was used before it was sent. |
| `scheduler` | `MCScheduler.cfg` | `NoLostWakeup`, `TicksKeepComing` | Timer callbacks, manual ticks, start, stop and workers that fail or report an outage, in every order of the event loop, never leave a running scheduler without a timer or a queued tick, and a tick keeps coming. |
| `operator_policy` | `MCOperatorState.cfg` | `CapsHonoured`, `ExecutedOnce`, `ReportedKillInForce`, `KillHolds` | Operator commands and the service's reservations compete for one state file through its lock, with deaths, a stale lock, contention, a clock set back and policies changed under way: the rolling caps hold for what was reserved, nothing is executed for a cycle that was not reserved exactly once, and a kill is never overwritten. |
| `payout` | `MCPayout.cfg` | `PaidOnce`, `OutcomeFinal`, `LiabilityBacked`, `SettlesUnlessWedged` | Direct payout to two recipients with one retry each, deaths at every write, dropped, reverted and reorganized transactions and a foreign use of the wallet: nobody is paid twice, outcomes are recorded only when final, a liability is backed by the evidence in the quarantine journal, and the stage settles unless one of four named conditions persists. |
| `claim_completion` (violation) | `MCClaimCompletion.cfg` | `FinalizedClaimCompletes` | Without any failure, a claim that becomes final between two runs is recorded FINALIZED and never completed: the later run may not release the earlier run's reservation. |

Deadlock checking is off where the bounds on time, volume or versions end every
behaviour; in `DurableStore` a process can always die and open again, and deadlock is
checked.

Bounds. `MaxTime`, `MaxVolume`, `MaxBalance`, `MaxVersion`, `MaxCrashes`, `MaxJournal`,
`MaxPending`, `MaxFailures` and `MaxHead` cap counters in the guards. Time runs for three windows of
the claim ring and for more than two rotation delays, so that entries expire while others
live and a rotation is scheduled, replaced and executed. The swap amounts are sums of the 1,000 wei minimum and
small or stepped residues, so that two swaps reach every residue of the three remainders and
the second carries what the first left; the requested nets lie around what the minimum and
about twice the minimum leave. The lease runs
have two processes and last long enough for a time to live to pass twice.
Two cycles and one piece of evidence are the least that can conflict in the store. The two
processes of `store_evidence` have journals of one entry (two exceed the time of a run); one process with journals of two
entries was run as well and passes. The claim
stage meets four failures of any kind, so that an interrupted reservation, a lost answer, an
interrupted release and one more failure happen in one behaviour; a lease lost in the middle of a
run and taken by the other process are two of them.

The scheduler run has three timer handles, two queued ticks and two back-off steps: enough for
a second loop to start beside the first. The operator run has three cycles of two costs, two
policies that differ in every limit, a window of two ticks in three, one clock set back by one tick, one
death and two attempts of the service at the lock; the service dies outside the lock and
restarts, the operator's process dies at any step inside it and leaves the stale lock. The payout run has two recipients in a
window of two, one retry each and two faults of four kinds (death, drop, foreign use of the
wallet, reorganization), so that a death and a loss happen to one attempt; a third recipient
with one fault was run as well and adds nothing.

Fairness. `RoleControl` assumes that blocks are produced and that the Treasury, once it may
execute the rotation it scheduled, does so: the only step the property needs. `CycleLease`
assumes that time passes, that a process inside a call continues (its loops are bounded),
that the scheduler's timer keeps starting ticks and that a run ends through its `finally`
block. It does not assume that a holder renews. `ClaimStage` assumes that ticks keep coming,
that a run which is not interrupted goes on, that windows and the lease of a dead run lapse,
that another process gives the lease back or dies, and that the chain finalizes what it has taken;
failures are bounded, which states "once they stop". `Scheduler` assumes that Node runs due
callbacks and queued promise reactions and that a worker's promise settles; it does not assume that
anybody triggers a tick. `Payout` assumes that the scheduler keeps starting runs (`TicksKeepComing`), that a run which is
not interrupted goes on, that the chain includes the pooled transaction whose turn it is, and
that blocks become final; faults are bounded. It does not assume that an operator asks for a
retry. Symmetry is used only where no liveness
is checked.

### What the violation run shows

* `claim_completion`: no failure is needed. A run broadcasts the claim and ends because it is
  not final yet; the claim becomes final; the first reconcile of the next run records finality
  and then may not release the reservation, which carries the earlier run's fencing token.
  Every later run does the same. The stage completes only when finality is first seen by the
  second reconcile of a run, after that run took the reservation over.

### What else modelling showed

The passing runs leave out the following cases by their constants or name them in a premise.
Each is reached by changing the constant that is given.

* Lease lock file (`CrashPoints <- Steps` in `MCCycleLease.cfg`: `ExpiredLeaseIsRecovered`
  fails): a process that dies inside `withLock` leaves the lock file, and no later call can swap
  the lease. `lease-store.mjs` 119 says it is "never left behind between calls".
* Two processes on one store (`Process = {p1, p2}` in `MCDurableStore.cfg`:
  `JournalAppendOnly` fails): `commit` reads the index again under the lock but not the
  journals. The running service and `abort-cycle` can overwrite each other's entries, also when
  the lease keeps their work apart in time: the older memory wins. `durable-store.mjs` 9 claims
  append-only journals "by construction".
* Failed index write (`FailPoints = {"index"}`, `MaxJournal = 2` and `Process = {p1}` in
  `MCStoreEvidence.cfg`: `EvidenceConsumedOnce` and `IndexCoversJournal` fail): memory is changed before the index is written. The next
  commit writes a journal whose evidence is missing from the index (against
  `durable-store.mjs` 19 and 2336).
* Two timer loops: an automatic tick that a manual tick has outdated while it was running
  still calls `scheduleNext`. From then on two timers are installed under the current
  generation, where the comment at `scheduler.mjs` 292 speaks of a single one; each such race
  adds a loop. No tick is lost by it.
* Stale operator lock (`CrashPoints <- Anywhere` and all processes in `Restarting` in
  `MCOperatorState.cfg`: `KillHolds` fails): between the comparison of the lock's identity and
  its unlink another process may have removed the stale lock and created its own. Two writers then
  hold the lock, and the older read overwrites a kill. `docs/modules/adapters.md` 230
  calls the write an "atomic, revision-compare-and-swap write".
* Claim whose nonce is used (named in `ClaimIsSettled`, which fails without that disjunct): a run
  records its signature and dies or stalls before it sends; another cycle uses the wallet after
  the reservation lapsed; from then on every run sends the recorded bytes again, the node refuses
  them, and nothing in `claim-process.mjs` signs others. The claim stays unpaid.
* Payout, excluded by the premise of `SettlesUnlessWedged`, one disjunct of `Wedged` each: a
  death after a transfer is SIGNED and before it is sent leaves bytes that no later run may
  send, since they were signed under another fencing token (`BroadcastRefused`); evidence of a
  refusal names the finalized head of the moment, so that its repetition after a death is a conflict
  (`EvidenceConflict`, `cycle-repository.mjs` 6294); a PREPARED or SIGNED recipient whose nonce
  was taken by somebody else throws in every run (`NonceTaken`), where the runbook
  `evm-nonce-interference.md` expects it to be recorded; a death between the last outcome and
  reconciliation strands the stage, because the pattern at `payout.mjs` 3566 does not match
  "stale wallet nonce fencing token" (`ReleaseRefused`).
* Payout, allowed by the properties: a transfer that was included while it was looked up is
  recorded NONCE_INTERFERENCE although it paid, and stays a liability; such a recipient can be
  given a retry by the operator that never opens, which is why nobody is paid twice; the dropped
  transaction of a retry is never sent again.

With one process whose index and archive writes
may fail, journals only grow. The journal write is left out there: `atomicWriteFile` can
throw after its rename, because it syncs the directory last, and the cycle is then on disk
but never added to `#activeCycleIds` (`durable-store.mjs` 2356); archiving another cycle
forgets it and its next commit overwrites the file. With two processes whose journal and
archive writes may fail, evidence is consumed once. As long as no process dies inside the lock file, an expired lease is
recovered. Except for a claim whose nonce was used, the claim itself is settled on the chain
and in the budget (`ClaimIsSettled`), also where its stage is not completed.

## 5. Proofs

TLAPS proves, for every value of the constants allowed by the assumptions, every safety
invariant, every action property and every refinement that the passing runs check.

* `SumTheorems`. The code keeps running totals beside the items they total (liabilities, the
  usage of the window, the spend ledger). The lemmas here say what a sum over a finite set does
  when an element is added, changed, split off or renumbered, and that it does not depend on the order in which
  the fold picks elements. Induction is taken over subsets of the naturals: a set of
  counterexamples has a least element.
* `FeeAccountingProofs`. The inductive invariant joins the types, the bound of each
  remainder by the denominator, solvency (with what is already on its way out of a running
  payment) and, per stream, `10000 * fees + remainder = rate * volume`. That equation is the reason a
  split of volume into swaps cannot matter; `LifetimeSplit` follows from it by dropping the
  remainder from the floor division. `LedgerFrozenDuringPayment` follows from the lock.
  `LedgerBalanced` adds that the Treasury stream accrued what its beneficiaries are owed plus
  what they were paid (`OwedIdentity`). The exact-output scan: the fee is three floors, so
  10000 times it differs from 300 times the gross amount by less than 30000 (`FeeBounds`); a gross amount that leaves the requested net
  is therefore within 4 of the estimate and inside the radius of 8. `ScanFindsLeastOfAll` removes
  the bound that the run puts on the amounts compared.
* `HookemonHookProofs`, roles. A pending rotation must name the Operations account of the moment and
  keep claims paused since it was scheduled; this needs that no handover can be accepted while
  it is pending, hence that scheduling clears the proposal and that proposing is refused.
* `HookemonHookProofs`, window. For the limit: the pending increase becomes due exactly a window after the
  recorded request, and a cancelled one leaves nothing behind. For the ring (`RingInv`): read from its head it holds the last
  claims in the order they were made (`RingIsSuffix`), what it dropped has left the window
  (`OlderExpired`), and the stored usage is the sum of what it holds (`UsageIsRing`). Claims are
  made in the order of time, so pruning up to the first live entry drops exactly the expired
  ones: the usage that a claim is checked against is that of the trailing window
  (`ClaimsStayCapped`), and the view, which filters every entry, gives the same number
  (`UsageIsExact`, `ViewIsExact`).
* `HookemonHookProofs`, composition. Each action of the contract is an action of a component or
  leaves it alone, so the component theorems hold of the contract; the step to `FeeAccounting`
  needs that the Treasury is an account, which the roles give. What the ledger lost in a second is what was claimed
  in it (`OutflowIsClaimed`: nothing but a claim debits the Process stream), so the cap of the ring is a cap of
  the ledger (`OutflowIsCapped`). From the components also follow that a rotation stops payments, and that every Treasury
  liability has a claimant.
* `CycleLeaseProofs`. Mutual exclusion by the argument of a compare-and-swap, one invariant per
  part of it: inside the lock file the version is fixed (`Exclusive`), what a call read is still
  in the file while the version is the one it read (`Snapshot`), clocks were sampled in the past
  (`Earlier`), a token stays with its process (`Tokens`). A live lease is therefore the one in the
  file (`Current`), and two live leases are one. Deaths are allowed anywhere, `CrashPoints` is
  arbitrary: a lock file left behind costs progress and never exclusion.
* `DurableStoreProofs`. Evidence (`CoverInv`): what a journal used is registered to its cycle in
  the index on disk, for the files and for the journals in the memory of any process; only the
  process between the decision and the index write of a commit relies on the index it is about
  to write, and nobody else writes then because it has the lock. The hypothesis is that no index write of a commit
  throws (`"index" \notin FailPoints`): a death there is harmless, an exception leaves the evidence in
  memory alone. Append-only (`AppendInv`): of a cycle not archived, the file is the beginning of
  what the process has in memory and the process counts the cycle as active; what is archived was in
  memory when it was written. The hypotheses are one process and no journal write that throws.
  Section 4 tells what happens without each hypothesis; the runs satisfy them.
* `ClaimStageProofs`. The invariant says, for each place of the run, what is already in the
  journal, the budget, the fence and the chain. The decisive parts: nothing is on the chain before
  the attempt is SIGNED, because a signature is sent only from the journal; and the budget is
  settled before finality is recorded. From the reservation on, journal and key hold
  the run's own as long as its lease is live (`FenceInv`): a run that lost the lease does not get it back, and the other
  process reserves the wallet only with the lease. It holds for every number of failures.
* `AutomationProofs`, scheduler. As long as the scheduler is not stopped, some current timer is
  installed, or an automatic or manual tick that will install one is queued or running. The invariant says which
  of these covers each phase of a tick; the case that matters is a tick that finds itself
  outdated, which only happens when somebody else has installed a newer timer or stopped.
* `AutomationProofs`, state file. Whoever is between opening the lock and removing it is its living owner
  (`LockInv`), hence what it read is what it overwrites (`KillInv`), and a kill cannot be lost, nor
  a reservation (`ExecutedInv`, for `ExecutedOnce`). These theorems
  carry the hypothesis `OutsideLock`, that nobody dies while holding the lock. The run `operator_policy` goes beyond it for one
  contender: its operator may die inside the lock, and only TLC shows that this is harmless; section 4
  tells what happens with two. The rolling caps need no such hypothesis (`CapsAlwaysHonoured`): each configuration ever read or written is one whose entries all fitted
  when they were made (`SoundInv`), and a reservation keeps that because the ledger is in the
  order of time; a lost update loses entries and never adds one. They hold for any number of operators, policies and cycles, and any clock.
* `PayoutProofs`. The invariant has four parts besides the types: what the run is doing agrees
  with the target of its work (`WorkInv`); a nonce is given to one attempt and signed bytes keep
  theirs (`NonceInv`); a retry is opened after the refusal of everything before it is final, one at a time (`RetryInv`);
  and the journal knows only final outcomes (`OutcomeFinal`). A second payment would need two
  successful attempts of one recipient; the later one exists only if the earlier was finally
  refused. `LiabilityBacked` needs `LiabilityInv` besides: a recipient enters the quarantine only
  after the repository holds its evidence, which nothing removes (`Owed`); a retry that is recorded
  as paid is settled in the repository (`RetriesPaid`) and takes its recipient out of the quarantine in the same
  write; once the stage is settled only retries are left to work on (`OnlyRetries`). It holds for any number of recipients, retries and faults.

The assumptions are the named `ASSUME`s of the modules: amounts are naturals, the accounts
finitely many, delays and windows positive, model constants distinct. TLC evaluates them in
every run.

## 6. What is only model-checked

Liveness under fairness and `ENABLED` are outside the prover: `RotationCompletes`,
`ExpiredLeaseIsRecovered`, `ClaimIsSettled`, `TicksKeepComing` and `SettlesUnlessWedged` hold on
the instances of the runs, and `FinalizedClaimCompletes` is refuted on one. The safety they rest on is proved.

Where a theorem has a hypothesis (section 5), what a run checks outside it is checked by TLC alone: `KillHolds`,
`ReportedKillInForce` and `ExecutedOnce` with an operator that dies inside the lock. 

## 7. What is not modelled

* Planned: the stages between claim and payout (outbound, purchase, open, buyback, return) with their
  Relay legs and provider attempts; holds and closure in the cycle repository; quote refresh and
  supplementary settlements of the service; pool-key matching, launch and seeding; the
  distribution arithmetic; the event-sourced reducer.
* Left out of modelled parts: the fee, slippage and treasury guards of the policy engine, which
  read one number and keep no state; abortion of a tick in flight and the view of the scheduler;
  the audit log of operator commands; gas, amounts and feasibility of the payout plan, and
  `replaceDirectPayout`, which nothing calls; directory identity, witness files and paged state of
  the store.
* Not to be modelled: the retired vault family (frozen, not called), the clients (request
  building, schema checks, cryptography), the dashboard and the web application
  (presentation), and the deployment, packaging and verification scripts, which together are
  most of the repository's lines and keep no protocol state.
