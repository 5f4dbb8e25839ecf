--------------------------- MODULE HookemonHook ----------------------------
(***************************************************************************)
(* The hook as one contract: the liability ledger, the roles and the claim *)
(* window of HookemonHook.sol, composed over one clock.  Each action is an *)
(* external function of the contract, or the swap callback.                *)
(*                                                                         *)
(* A payment runs its recipient's code while moneyPathEntered is set.      *)
(* Between the two halves of a payment the model therefore allows every    *)
(* call that does not take the money path: role and limit changes can be   *)
(* nested inside a payment.  Time does not pass inside a transaction.      *)
(***************************************************************************)
EXTENDS RoleControl, ClaimWindow

CONSTANTS
    SwapAmounts, NetAmounts, ClaimAmounts, Donations, MaxVolume, MaxBalance

ASSUME HookAssumption ==
    /\ IsFiniteSet(Addresses)
    /\ SwapAmounts \subseteq Nat /\ NetAmounts \subseteq Nat
    /\ ClaimAmounts \subseteq Nat /\ Donations \subseteq Nat
    /\ MaxVolume \in Nat /\ MaxBalance \in Nat

VARIABLES
    programmableLiability, treasuryLiabilities, processLiability, totalLiability,
    programmableRemainder, treasuryRemainder, processRemainder,
    balance, moneyPathEntered, volume, treasuryAccrued,
    programmableClaimed, treasuryClaimed, processClaimed,
    processPaid \* history: what the Process liability fell by in each second

Fees == INSTANCE FeeAccounting WITH Accounts <- Addresses, ClaimAmounts <- ClaimAmounts \cup Amounts

fees == <<programmableLiability, treasuryLiabilities, processLiability, totalLiability,
          programmableRemainder, treasuryRemainder, processRemainder, balance, moneyPathEntered,
          volume, treasuryAccrued, programmableClaimed, treasuryClaimed, processClaimed>>
roles == <<treasury, proposedTreasury, operations, proposedOperations, treasuryBeneficiaries,
           pendingOperationsRotation, processClaimsPaused, treasuryProposer, operationsProposer,
           pausedSince>>
window == <<processClaimLimit, pendingProcessClaimLimit, pendingProcessClaimLimitActivation,
            processClaimWindowEntries, processClaimWindowHead, processClaimWindowCount,
            activeProcessClaimUsage, processClaimCycleUsed, claims, raiseRequestedAt>>
vars == <<fees, roles, window, now, processPaid>>

Init == Fees!Init /\ RolesInit /\ WindowInit /\ processPaid = [s \in 0..MaxTime |-> 0]

\* Part of every step, whatever call it is: the ledger alone decides what has
\* been paid out of the Process stream, not what the claim window says of it.
RecordOutflow ==
    processPaid' = IF processLiability' < processLiability
                   THEN [processPaid EXCEPT ![now] = @ + processLiability - processLiability']
                   ELSE processPaid

-----------------------------------------------------------------------------
(* Money *)

\* Fault: a proposed Treasury is credited before it accepts.
ProposedTreasuryBeneficiary == IF proposedTreasury = ZeroAddress THEN treasury ELSE proposedTreasury

\* _currentTreasuryBeneficiary: the fee of a swap goes to the Treasury of the
\* moment.
CurrentTreasuryBeneficiary == treasury

Swap ==
    /\ \/ \E q \in SwapAmounts : Fees!SwapExactInput(q, CurrentTreasuryBeneficiary)
       \/ \E n \in NetAmounts : Fees!SwapExactOutput(n, CurrentTreasuryBeneficiary)
    /\ UNCHANGED <<roles, window, now>>
    /\ RecordOutflow

ClaimProgrammable(amountWei) ==
    /\ Fees!ClaimProgrammableLiability(amountWei)
    /\ UNCHANGED <<roles, window, now>>
    /\ RecordOutflow

\* An account that has been Treasury keeps its claim on what it accrued.
ClaimTreasury(caller, amountWei) ==
    /\ caller \in treasuryBeneficiaries
    /\ Fees!ClaimTreasuryLiability(caller, amountWei)
    /\ UNCHANGED <<roles, window, now>>
    /\ RecordOutflow

\* Fault: the pause is not consulted.
ProcessClaimAuthorizedWhilePaused(caller, destination) ==
    caller = operations /\ destination = caller

\* _authorizeProcessClaim and the pause.
ProcessClaimAuthorized(caller, destination) ==
    /\ caller = operations /\ destination = caller
    /\ ~processClaimsPaused

ClaimProcess(caller, cycleId, amountWei, destination) ==
    /\ ProcessClaimAuthorized(caller, destination)
    /\ ClaimInWindow(cycleId, amountWei)
    /\ Fees!ClaimProcessLiability(amountWei)
    /\ UNCHANGED roles
    /\ RecordOutflow

\* Fault: the end of a payment frees the capacity it used.
FinishPaymentResettingUsage ==
    /\ Fees!FinishPayment
    /\ activeProcessClaimUsage' = 0
    /\ UNCHANGED <<roles, now, processClaimLimit, pendingProcessClaimLimit,
                   pendingProcessClaimLimitActivation, processClaimWindowEntries,
                   processClaimWindowHead, processClaimWindowCount, processClaimCycleUsed, claims,
                   raiseRequestedAt>>
    /\ RecordOutflow

FinishPayment ==
    /\ Fees!FinishPayment
    /\ UNCHANGED <<roles, window, now>>
    /\ RecordOutflow

\* Fault: ETH that arrives outside a swap is credited to the Process stream.
ReceiveAsProcessFee(amountWei) ==
    /\ balance + amountWei <= MaxBalance
    /\ balance' = balance + amountWei
    /\ processLiability' = processLiability + amountWei
    /\ totalLiability' = totalLiability + amountWei
    /\ UNCHANGED <<programmableLiability, treasuryLiabilities, programmableRemainder,
                   treasuryRemainder, processRemainder, moneyPathEntered, volume, treasuryAccrued,
                   programmableClaimed, treasuryClaimed, processClaimed, roles, window, now>>
    /\ RecordOutflow

Receive(amountWei) ==
    /\ Fees!Receive(amountWei)
    /\ UNCHANGED <<roles, window, now>>
    /\ RecordOutflow

-----------------------------------------------------------------------------
(* Control *)

\* Fault: a new limit also resumes paused claims.
SetLimitUnpausing(caller, newLimit) ==
    /\ caller = treasury
    /\ SetLimit(newLimit)
    /\ processClaimsPaused' = FALSE
    /\ UNCHANGED <<fees, treasury, proposedTreasury, operations, proposedOperations,
                   treasuryBeneficiaries, pendingOperationsRotation, treasuryProposer,
                   operationsProposer, pausedSince>>
    /\ RecordOutflow

SetProcessClaimLimit(caller, newLimit) ==
    /\ caller = treasury
    /\ SetLimit(newLimit)
    /\ UNCHANGED <<fees, roles>>
    /\ RecordOutflow

RoleChange(caller) ==
    \/ \E s \in Successors :
          \/ ProposeTreasury(caller, s)
          \/ ProposeOperations(caller, s)
          \/ ScheduleOperationsRotation(caller, s)
    \/ AcceptTreasury(caller)
    \/ AcceptOperations(caller)
    \/ PauseProcessClaims(caller)
    \/ UnpauseProcessClaims(caller)
    \/ ExecuteOperationsRotation(caller)

\* Fault: a new Operations account starts with an empty claim window.
RoleCallFreshWindow(caller) ==
    /\ RoleChange(caller)
    /\ IF operations' = operations
       THEN UNCHANGED ringVars
       ELSE /\ processClaimWindowEntries' = [i \in 0..(MaxCount - 1) |-> NoEntry]
            /\ processClaimWindowHead' = 0 /\ processClaimWindowCount' = 0
            /\ activeProcessClaimUsage' = 0
    /\ UNCHANGED <<fees, limitVars, processClaimCycleUsed, claims, raiseRequestedAt>>
    /\ RecordOutflow

RoleCall(caller) ==
    /\ RoleChange(caller)
    /\ UNCHANGED <<fees, window>>
    /\ RecordOutflow

\* The next block; never in the middle of a transaction.
Tick ==
    /\ ~moneyPathEntered
    /\ RolesTick
    /\ UNCHANGED <<fees, window>>
    /\ RecordOutflow

Next ==
    \/ Swap
    \/ \E a \in ClaimAmounts \cup {programmableLiability} : ClaimProgrammable(a)
    \/ \E c \in Addresses : \E a \in ClaimAmounts \cup {treasuryLiabilities[c]} : ClaimTreasury(c, a)
    \/ \E c, d \in Addresses, k \in Cycles, a \in Amounts : ClaimProcess(c, k, a, d)
    \/ FinishPayment
    \/ \E d \in Donations : Receive(d)
    \/ \E c \in Addresses, l \in NewLimits : SetProcessClaimLimit(c, l)
    \/ \E c \in Addresses : RoleCall(c)
    \/ Tick

Spec == Init /\ [][Next]_vars

-----------------------------------------------------------------------------
(* Properties *)

\* The composed contract behaves, seen through each part's state, as that part
\* specifies; nothing the other parts do disturbs it.
ImplementsFees == Fees!Spec
ImplementsRoles == RolesSpec
ImplementsClaimWindow == WindowSpec

\* Whatever is handed over, rotated, paused, set or nested inside a payment in
\* between, a payment leaves what the ledger's Process stream lost in the
\* trailing window within the limit then in force (claimProcess charges the
\* window and debits the ledger in two contracts, by two counters).
ProcessOutflowCapped ==
    [][processLiability' < processLiability =>
          SumFunctionOnSet(processPaid', {s \in 0..now : now - s < Window})
              <= EffectiveProcessClaimLimit]_vars

\* Nothing leaves the Process stream from the moment an emergency rotation is
\* scheduled until the new Operations account is in place and claims have been
\* unpaused again, a payment nested in another payment included.
NoProcessPaymentDuringRotation ==
    [][processClaimed' # processClaimed =>
          ~RotationPending /\ ~processClaimsPaused /\ ~moneyPathEntered]_vars

\* Fees are owed only to accounts that may claim them: after any chain of
\* Treasury handovers every recorded liability has a beneficiary the claim
\* path accepts.
TreasuryLiabilityClaimable ==
    \A a \in Addresses : treasuryLiabilities[a] > 0 => a \in treasuryBeneficiaries
=============================================================================
