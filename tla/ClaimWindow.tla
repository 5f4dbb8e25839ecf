---------------------------- MODULE ClaimWindow ----------------------------
(***************************************************************************)
(* The trailing-window limit on Process claims of HookemonHook.sol: a ring *)
(* of the claims still inside PROCESS_CLAIM_WINDOW, the running usage kept *)
(* beside it, the set of cycle ids already claimed, and the limit with its *)
(* delayed increases.  Who may call, and the payment itself, are in        *)
(* RoleControl and FeeAccounting; HookemonHook composes the three.         *)
(*                                                                         *)
(* A call that reverts is a stuttering step.                               *)
(***************************************************************************)
EXTENDS BlockTime, Sequences, FiniteSets, Functions

CONSTANTS
    Cycles,      \* nonzero cycle ids
    Amounts,     \* amounts a Process claim may ask for
    NewLimits,   \* limits the Treasury may set
    Window,      \* PROCESS_CLAIM_WINDOW
    MaxCount,    \* processClaimMaxCount, the length of the ring
    FirstLimit,  \* processClaimLimit6h
    LimitMax     \* processClaimLimitMax

ASSUME WindowAssumption ==
    /\ Amounts \subseteq Nat /\ NewLimits \subseteq Nat
    /\ Window \in Nat \ {0}
    /\ MaxCount \in Nat \ {0}
    /\ LimitMax \in Nat \ {0} /\ FirstLimit \in 1..LimitMax

VARIABLES
    processClaimLimit,
    pendingProcessClaimLimit,
    pendingProcessClaimLimitActivation,  \* 0 when no increase is pending
    processClaimWindowEntries,           \* ring index -> entry
    processClaimWindowHead,
    processClaimWindowCount,
    activeProcessClaimUsage,
    processClaimCycleUsed,               \* cycle ids already claimed
    (* History *)
    claims,                              \* every claim made, in order
    raiseRequestedAt                     \* when the pending increase was set

limitVars == <<processClaimLimit, pendingProcessClaimLimit, pendingProcessClaimLimitActivation>>
ringVars == <<processClaimWindowEntries, processClaimWindowHead, processClaimWindowCount,
              activeProcessClaimUsage>>
windowVars == <<now, limitVars, ringVars, processClaimCycleUsed, claims, raiseRequestedAt>>

NoEntry == [amountWei |-> 0, claimedAt |-> 0]

-----------------------------------------------------------------------------

RingIndex(offset) == (processClaimWindowHead + offset) % MaxCount
Entry(offset) == processClaimWindowEntries[RingIndex(offset)]
EntryAmounts == [i \in 0..(MaxCount - 1) |-> Entry(i).amountWei]

Expired(entry) == now - entry.claimedAt >= Window

\* Fault: the increase takes effect as soon as it is requested.
IncreaseDueAtOnce == pendingProcessClaimLimitActivation # 0

IncreaseDue == pendingProcessClaimLimitActivation # 0 /\ now >= pendingProcessClaimLimitActivation

EffectiveProcessClaimLimit == IF IncreaseDue THEN pendingProcessClaimLimit ELSE processClaimLimit

\* Fault: the view trusts the stored total, as if nothing had expired.
StoredUsage == activeProcessClaimUsage

\* The usage the views report: live entries of the ring, wherever they are.
ActiveProcessClaimUsage ==
    SumFunctionOnSet(EntryAmounts, {i \in 0..(processClaimWindowCount - 1) : ~Expired(Entry(i))})

RemainingProcessClaimCapacity ==
    IF ActiveProcessClaimUsage >= EffectiveProcessClaimLimit
    THEN 0 ELSE EffectiveProcessClaimLimit - ActiveProcessClaimUsage

\* _pruneExpiredProcessClaimEntries drops entries from the head and stops at
\* the first one that is still live: it removes exactly k entries.
Prunes(k) ==
    /\ \A i \in 0..(k - 1) : Expired(Entry(i))
    /\ k < processClaimWindowCount => ~Expired(Entry(k))

PrunedAmount(k) == SumFunctionOnSet(EntryAmounts, 0..(k - 1))

PrunedIndexes(k) == {RingIndex(i) : i \in 0..(k - 1)}

-----------------------------------------------------------------------------

WindowInit ==
    /\ now = 0
    /\ processClaimLimit = FirstLimit
    /\ pendingProcessClaimLimit = 0 /\ pendingProcessClaimLimitActivation = 0
    /\ processClaimWindowEntries = [i \in 0..(MaxCount - 1) |-> NoEntry]
    /\ processClaimWindowHead = 0 /\ processClaimWindowCount = 0
    /\ activeProcessClaimUsage = 0
    /\ processClaimCycleUsed = {}
    /\ claims = <<>>
    /\ raiseRequestedAt = 0

WindowTick ==
    /\ NextBlock
    /\ UNCHANGED <<limitVars, ringVars, processClaimCycleUsed, claims, raiseRequestedAt>>

\* _activateProcessClaimLimitIfDue, as the first half of the two operations.
ActivatedTo(limit, pending, activation) ==
    /\ limit = EffectiveProcessClaimLimit
    /\ pending = IF IncreaseDue THEN 0 ELSE pendingProcessClaimLimit
    /\ activation = IF IncreaseDue THEN 0 ELSE pendingProcessClaimLimitActivation

\* Fault: the head stays where it was when entries are pruned.
AppendKeepingHead(k, amountWei) ==
    LET count == processClaimWindowCount - k
    IN  /\ UNCHANGED processClaimWindowHead
        /\ processClaimWindowCount' = count + 1
        /\ processClaimWindowEntries' =
              [i \in 0..(MaxCount - 1) |->
                  IF i = (RingIndex(k) + count) % MaxCount THEN [amountWei |-> amountWei, claimedAt |-> now]
                  ELSE IF i \in PrunedIndexes(k) THEN NoEntry ELSE processClaimWindowEntries[i]]
        /\ activeProcessClaimUsage' = activeProcessClaimUsage - PrunedAmount(k) + amountWei

\* The ring after k entries are pruned and the new one is appended at its tail.
AppendAfterPruning(k, amountWei) ==
    LET head == RingIndex(k)
        count == processClaimWindowCount - k
    IN  /\ processClaimWindowHead' = head
        /\ processClaimWindowCount' = count + 1
        /\ processClaimWindowEntries' =
              [i \in 0..(MaxCount - 1) |->
                  IF i = (head + count) % MaxCount THEN [amountWei |-> amountWei, claimedAt |-> now]
                  ELSE IF i \in PrunedIndexes(k) THEN NoEntry ELSE processClaimWindowEntries[i]]
        /\ activeProcessClaimUsage' = activeProcessClaimUsage - PrunedAmount(k) + amountWei

\* Fault: the capacity is checked against the limit without the usage.
FitsLimitAlone(k, amountWei) == amountWei <= EffectiveProcessClaimLimit

\* used < cap and amountWei <= cap - used, with the usage left after pruning.
FitsCapacity(k, amountWei) ==
    LET used == activeProcessClaimUsage - PrunedAmount(k)
    IN  used < EffectiveProcessClaimLimit /\ amountWei <= EffectiveProcessClaimLimit - used

\* A claim is accepted after k entries are pruned: it fits, and a ring that is
\* still full refuses it.
Accepts(k, amountWei) ==
    /\ Prunes(k)
    /\ FitsCapacity(k, amountWei)
    /\ processClaimWindowCount - k # MaxCount

\* claimProcess, without the caller checks and the payment.
ClaimInWindow(cycleId, amountWei) ==
    /\ cycleId \notin processClaimCycleUsed
    /\ amountWei # 0
    /\ ActivatedTo(processClaimLimit', pendingProcessClaimLimit', pendingProcessClaimLimitActivation')
    /\ \E k \in 0..processClaimWindowCount :
          Accepts(k, amountWei) /\ AppendAfterPruning(k, amountWei)
    /\ processClaimCycleUsed' = processClaimCycleUsed \cup {cycleId}
    /\ claims' = Append(claims, [cycleId |-> cycleId, amountWei |-> amountWei, claimedAt |-> now,
                                 cap |-> EffectiveProcessClaimLimit])
    /\ UNCHANGED <<now, raiseRequestedAt>>

\* setProcessClaimLimit: a decrease applies at once and cancels a pending
\* increase; an increase waits a whole window and replaces a pending one.
SetLimit(newLimit) ==
    /\ \/ /\ newLimit <= EffectiveProcessClaimLimit
          /\ processClaimLimit' = newLimit
          /\ pendingProcessClaimLimit' = 0 /\ pendingProcessClaimLimitActivation' = 0
          /\ UNCHANGED raiseRequestedAt
       \/ /\ newLimit > EffectiveProcessClaimLimit
          /\ newLimit <= LimitMax
          /\ processClaimLimit' = EffectiveProcessClaimLimit
          /\ pendingProcessClaimLimit' = newLimit
          /\ pendingProcessClaimLimitActivation' = now + Window
          /\ raiseRequestedAt' = now
    /\ UNCHANGED <<now, ringVars, processClaimCycleUsed, claims>>

WindowNext ==
    \/ \E c \in Cycles, a \in Amounts : ClaimInWindow(c, a)
    \/ \E l \in NewLimits : SetLimit(l)
    \/ WindowTick

WindowSpec == WindowInit /\ [][WindowNext]_windowVars

-----------------------------------------------------------------------------
(* Properties *)

\* The storage has the types the contract declares, no limit exceeds the
\* immutable maximum, and the ring's head and count stay inside the ring.
WindowTypeOK ==
    /\ now \in 0..MaxTime
    /\ processClaimLimit \in 0..LimitMax
    /\ pendingProcessClaimLimit \in 0..LimitMax
    /\ pendingProcessClaimLimitActivation \in 0..(MaxTime + Window)
    /\ processClaimWindowEntries \in [0..(MaxCount - 1) -> [amountWei : Nat, claimedAt : 0..MaxTime]]
    /\ processClaimWindowHead \in 0..(MaxCount - 1)
    /\ processClaimWindowCount \in 0..MaxCount
    /\ activeProcessClaimUsage \in Nat
    /\ processClaimCycleUsed \subseteq Cycles
    /\ raiseRequestedAt \in 0..MaxTime

SumOfClaims(indexes) == SumFunctionOnSet([i \in DOMAIN claims |-> claims[i].amountWei], indexes)

\* Every claim, with all claims less than a window older, stays within the
\* limit that was in force when it was made (claimProcess, "used >= cap ||
\* amountWei > cap - used"), whatever was pruned, raised or lowered before.
TrailingWindowCapped ==
    \A i \in 1..Len(claims) :
        SumOfClaims({j \in 1..i : claims[i].claimedAt - claims[j].claimedAt < Window}) <= claims[i].cap

\* The usage the views report is what was claimed in the trailing window: the
\* ring loses no live claim, counts none twice and lets each expire on time.
UsageIsTrailingWindow ==
    ActiveProcessClaimUsage = SumOfClaims({j \in 1..Len(claims) : now - claims[j].claimedAt < Window})

LiveEntries == {j \in 1..Len(claims) : now - claims[j].claimedAt < Window}

\* The runner reads remainingProcessClaimCapacity before it signs: claimProcess
\* accepts an amount exactly when the view leaves room for it and fewer than
\* processClaimMaxCount claims are live, although the view filters every entry
\* and claimProcess only prunes from the head.
ViewMatchesClaim ==
    \A a \in Amounts \ {0} :
        (\E k \in 0..processClaimWindowCount : Accepts(k, a))
            <=> a <= RemainingProcessClaimCapacity /\ Cardinality(LiveEntries) < MaxCount

\* The limit in force grows only when a full window has passed since the
\* Treasury asked for it; a decrease or a second request in between never
\* brings an older, higher limit back.
RaiseWaitsAWindow ==
    [][EffectiveProcessClaimLimit' > EffectiveProcessClaimLimit => now' - raiseRequestedAt >= Window]_windowVars
=============================================================================
