--------------------------- MODULE FeeAccounting ---------------------------
(***************************************************************************)
(* The liability ledger of the Hookemon hook                               *)
(* (contracts/src/accounting/FeeAccounting.sol), with the swap callback    *)
(* that feeds it (market/CanonicalMarket.sol) and the native-ETH transfer  *)
(* overrides of HookemonHook.sol.                                          *)
(*                                                                         *)
(* An EVM transaction that reverts leaves no trace, so a refused call is a *)
(* stuttering step.  A payment is two steps, because the recipient of the  *)
(* ETH runs its own code between them: the first checks, debits the ledger *)
(* and sends the value with moneyPathEntered set, the second re-checks     *)
(* solvency and clears the flag.                                           *)
(***************************************************************************)
EXTENDS Integers, FiniteSets, Functions

CONSTANTS
    Accounts,      \* addresses that can be a Treasury beneficiary
    SwapAmounts,   \* gross quote amounts an exact-input swap may execute
    NetAmounts,    \* net quote amounts an exact-output swap may request
    ClaimAmounts,  \* amounts a beneficiary may ask for
    Donations,     \* ETH amounts that arrive through receive()
    MaxVolume,     \* bound on the lifetime gross volume of a run
    MaxBalance     \* bound on the hook's balance: caps the donations of a run

ASSUME FeeAssumption ==
    /\ IsFiniteSet(Accounts)
    /\ SwapAmounts \subseteq Nat /\ NetAmounts \subseteq Nat
    /\ ClaimAmounts \subseteq Nat /\ Donations \subseteq Nat
    /\ MaxVolume \in Nat /\ MaxBalance \in Nat

VARIABLES
    programmableLiability,  \* programmableLiabilities[fixedProgrammableBeneficiary]
    treasuryLiabilities,    \* one entry per beneficiary that was ever Treasury
    processLiability,
    totalLiability,
    programmableRemainder,  \* fractional numerators carried between swaps
    treasuryRemainder,
    processRemainder,
    balance,                \* the hook's native ETH balance
    moneyPathEntered,
    (* History: what the streams accrued from and what was paid out. *)
    volume,                 \* gross quote volume of every accrued swap
    treasuryAccrued,        \* Treasury fees credited, whoever was Treasury
    programmableClaimed,
    treasuryClaimed,
    processClaimed

remainders == <<programmableRemainder, treasuryRemainder, processRemainder>>
liabilities == <<programmableLiability, treasuryLiabilities, processLiability, totalLiability>>
claimed == <<programmableClaimed, treasuryClaimed, processClaimed>>
feeVars == <<remainders, liabilities, claimed, balance, moneyPathEntered, volume, treasuryAccrued>>

BPS_DENOMINATOR == 10000
TOTAL_FEE_BPS == 300
PROGRAMMABLE_FEE_BPS == 20
TREASURY_FEE_BPS == 30
PROCESS_FEE_BPS == 250
MINIMUM_EXECUTED == 1000
EXACT_OUTPUT_SCAN_RADIUS == 8

-----------------------------------------------------------------------------
(* Fee arithmetic *)

\* The carried-floor increment of one stream, without the remainder.
Increment(executed, rateBps, remainder) ==
    (executed \div BPS_DENOMINATOR) * rateBps
        + ((executed % BPS_DENOMINATOR) * rateBps + remainder) \div BPS_DENOMINATOR

\* Fault: the new remainder is never stored.
RemainderAfterKept(executed, rateBps, remainder) == remainder

RemainderAfter(executed, rateBps, remainder) ==
    ((executed % BPS_DENOMINATOR) * rateBps + remainder) % BPS_DENOMINATOR

ProgrammableFee(executed) == Increment(executed, PROGRAMMABLE_FEE_BPS, programmableRemainder)
TreasuryFee(executed) == Increment(executed, TREASURY_FEE_BPS, treasuryRemainder)
ProcessFee(executed) == Increment(executed, PROCESS_FEE_BPS, processRemainder)

\* Fault: the charge is the flat three per cent, not the sum of the streams.
PreviewFlatFee(executed) == (executed * TOTAL_FEE_BPS) \div BPS_DENOMINATOR

\* The preview beforeSwap sizes its delta with, and what afterSwap collects.
PreviewTotalFee(executed) == ProgrammableFee(executed) + TreasuryFee(executed) + ProcessFee(executed)

\* mulDivRoundingUp(requestedNet, 10000, 9700)
GrossEstimate(requestedNet) ==
    LET d == BPS_DENOMINATOR - TOTAL_FEE_BPS
    IN  (requestedNet * BPS_DENOMINATOR + d - 1) \div d

\* Fault: only candidates from the rounded estimate upwards are tried.
FirstCandidateAboveEstimate(requestedNet) ==
    LET e == GrossEstimate(requestedNet) IN IF e > MINIMUM_EXECUTED THEN e ELSE MINIMUM_EXECUTED

\* Where the scan for the gross amount starts: never below the minimum quote.
FirstCandidate(requestedNet) ==
    LET e == GrossEstimate(requestedNet)
        low == IF e > EXACT_OUTPUT_SCAN_RADIUS THEN e - EXACT_OUTPUT_SCAN_RADIUS ELSE MINIMUM_EXECUTED
    IN  IF low < MINIMUM_EXECUTED THEN MINIMUM_EXECUTED ELSE low

\* gross answers an exact-output request for requestedNet.
IsRoot(gross, requestedNet) ==
    LET fee == PreviewTotalFee(gross) IN fee <= gross /\ gross - fee = requestedNet

\* The roots inside the scanned window.
ScannedRoots(requestedNet) ==
    {g \in FirstCandidate(requestedNet)..(FirstCandidate(requestedNet) + 2 * EXACT_OUTPUT_SCAN_RADIUS) :
        IsRoot(g, requestedNet)}

Least(S) == {g \in S : \A h \in S : g <= h}

\* The scan returns the first root it meets; without one the swap reverts.
GrossForExactOutput(requestedNet) == Least(ScannedRoots(requestedNet))

-----------------------------------------------------------------------------

Init ==
    /\ programmableLiability = 0 /\ processLiability = 0 /\ totalLiability = 0
    /\ treasuryLiabilities = [a \in Accounts |-> 0]
    /\ programmableRemainder = 0 /\ treasuryRemainder = 0 /\ processRemainder = 0
    /\ balance = 0
    /\ moneyPathEntered = FALSE
    /\ volume = 0 /\ treasuryAccrued = 0
    /\ programmableClaimed = 0 /\ treasuryClaimed = 0 /\ processClaimed = 0

\* The moneyPath modifier refuses to enter twice.
MoneyPathFree == ~moneyPathEntered

\* afterSwap of an authenticated canonical swap: the pool manager pays the
\* previewed fee into the hook, the ledger is credited and the remainders
\* move on, under the money-path lock.
AccrueAuthenticatedSwap(executed, treasuryBeneficiary) ==
    /\ MoneyPathFree
    /\ executed >= MINIMUM_EXECUTED
    /\ volume + executed <= MaxVolume
    /\ balance >= totalLiability
    /\ balance' = balance + PreviewTotalFee(executed)
    /\ programmableLiability' = programmableLiability + ProgrammableFee(executed)
    /\ treasuryLiabilities' = [treasuryLiabilities EXCEPT ![treasuryBeneficiary] = @ + TreasuryFee(executed)]
    /\ processLiability' = processLiability + ProcessFee(executed)
    /\ totalLiability' = totalLiability + PreviewTotalFee(executed)
    /\ programmableRemainder' = RemainderAfter(executed, PROGRAMMABLE_FEE_BPS, programmableRemainder)
    /\ treasuryRemainder' = RemainderAfter(executed, TREASURY_FEE_BPS, treasuryRemainder)
    /\ processRemainder' = RemainderAfter(executed, PROCESS_FEE_BPS, processRemainder)
    /\ volume' = volume + executed
    /\ treasuryAccrued' = treasuryAccrued + TreasuryFee(executed)
    /\ UNCHANGED <<moneyPathEntered, claimed>>

\* Exact input executes the specified or the swapped quote amount itself.
SwapExactInput(executed, treasuryBeneficiary) ==
    AccrueAuthenticatedSwap(executed, treasuryBeneficiary)

\* Exact output asks for a net amount; the executed amount is the gross found
\* by the scan.
SwapExactOutput(requestedNet, treasuryBeneficiary) ==
    /\ MoneyPathFree
    /\ \E gross \in GrossForExactOutput(requestedNet) : AccrueAuthenticatedSwap(gross, treasuryBeneficiary)

-----------------------------------------------------------------------------
(* Payments *)

\* Fault: the value leaves before the total is debited.
PayBeforeDebit(amount) ==
    /\ MoneyPathFree
    /\ balance >= totalLiability
    /\ amount <= totalLiability /\ amount <= balance
    /\ balance' = balance - amount
    /\ moneyPathEntered' = TRUE
    /\ UNCHANGED <<remainders, volume, treasuryAccrued, totalLiability>>

\* The first half of every claim: lock, solvency check, checked debit of the
\* total, and the value call.  The caller's stream is debited beside it.
BeginPayment(amount) ==
    /\ MoneyPathFree
    /\ balance >= totalLiability
    /\ amount <= totalLiability /\ amount <= balance
    /\ totalLiability' = totalLiability - amount
    /\ balance' = balance - amount
    /\ moneyPathEntered' = TRUE
    /\ UNCHANGED <<remainders, volume, treasuryAccrued>>

\* The recipient's code has returned: solvency check, lock released.
FinishPayment ==
    /\ moneyPathEntered
    /\ balance >= totalLiability
    /\ moneyPathEntered' = FALSE
    /\ UNCHANGED <<remainders, liabilities, claimed, balance, volume, treasuryAccrued>>

ClaimProgrammableLiability(amount) ==
    /\ amount # 0 /\ amount <= programmableLiability
    /\ BeginPayment(amount)
    /\ programmableLiability' = programmableLiability - amount
    /\ programmableClaimed' = programmableClaimed + amount
    /\ UNCHANGED <<treasuryLiabilities, processLiability, treasuryClaimed, processClaimed>>

ClaimTreasuryLiability(beneficiary, amount) ==
    /\ amount # 0 /\ amount <= treasuryLiabilities[beneficiary]
    /\ BeginPayment(amount)
    /\ treasuryLiabilities' = [treasuryLiabilities EXCEPT ![beneficiary] = @ - amount]
    /\ treasuryClaimed' = treasuryClaimed + amount
    /\ UNCHANGED <<programmableLiability, processLiability, programmableClaimed, processClaimed>>

ClaimProcessLiability(amount) ==
    /\ amount # 0 /\ amount <= processLiability
    /\ BeginPayment(amount)
    /\ processLiability' = processLiability - amount
    /\ processClaimed' = processClaimed + amount
    /\ UNCHANGED <<programmableLiability, treasuryLiabilities, programmableClaimed, treasuryClaimed>>

\* receive(): anyone, the payment's recipient included, may send ETH.
Receive(amount) ==
    /\ balance + amount <= MaxBalance
    /\ balance' = balance + amount
    /\ UNCHANGED <<remainders, liabilities, claimed, moneyPathEntered, volume, treasuryAccrued>>

\* The overloads without an amount ask for the whole liability.
Next ==
    \/ \E q \in SwapAmounts, t \in Accounts : SwapExactInput(q, t)
    \/ \E n \in NetAmounts, t \in Accounts : SwapExactOutput(n, t)
    \/ \E a \in ClaimAmounts \cup {programmableLiability} : ClaimProgrammableLiability(a)
    \/ \E b \in Accounts : \E a \in ClaimAmounts \cup {treasuryLiabilities[b]} : ClaimTreasuryLiability(b, a)
    \/ \E a \in ClaimAmounts : ClaimProcessLiability(a)
    \/ FinishPayment
    \/ \E d \in Donations : Receive(d)

Spec == Init /\ [][Next]_feeVars

-----------------------------------------------------------------------------
(* Properties *)

\* The storage has the types the contract declares, and the remainders stay
\* below the denominator (the precondition of _cumulativeIncrement).
TypeOK ==
    /\ programmableLiability \in Nat /\ processLiability \in Nat /\ totalLiability \in Nat
    /\ treasuryLiabilities \in [Accounts -> Nat]
    /\ programmableRemainder \in 0..(BPS_DENOMINATOR - 1)
    /\ treasuryRemainder \in 0..(BPS_DENOMINATOR - 1)
    /\ processRemainder \in 0..(BPS_DENOMINATOR - 1)
    /\ balance \in Nat /\ volume \in Nat /\ treasuryAccrued \in Nat
    /\ moneyPathEntered \in BOOLEAN
    /\ programmableClaimed \in Nat /\ treasuryClaimed \in Nat /\ processClaimed \in Nat

\* The hook can always pay every liability it records, in the middle of a
\* payment included (_requireSolvent, InsolventAccounting).
Solvent == balance >= totalLiability

\* totalLiabilityAmount is the sum of the three streams, and the Treasury
\* stream is what its beneficiaries are still owed, after any sequence of
\* swaps, partial claims and Treasury changes.
LedgerBalanced ==
    LET owed == SumFunction(treasuryLiabilities)
    IN  /\ totalLiability = programmableLiability + processLiability + owed
        /\ treasuryAccrued = owed + treasuryClaimed

\* What a stream accrued over its lifetime is the floor of its share of the
\* lifetime volume: neither splitting volume over many swaps nor claiming in
\* between changes an allocation (_cumulativeIncrement's carried remainder).
LifetimeSplit ==
    /\ programmableLiability + programmableClaimed = (PROGRAMMABLE_FEE_BPS * volume) \div BPS_DENOMINATOR
    /\ processLiability + processClaimed = (PROCESS_FEE_BPS * volume) \div BPS_DENOMINATOR
    /\ treasuryAccrued = (TREASURY_FEE_BPS * volume) \div BPS_DENOMINATOR

\* In every remainder state the bounded scan finds the least gross amount whose
\* fee leaves exactly the requested net, and fails only when no gross amount
\* at all leaves that net (_grossForExactOutput: "Returning the first
\* root never selects a later, higher-gross quote").
ExactOutputLeastGross ==
    \A n \in NetAmounts :
        LET gross == n..(GrossEstimate(n) + 5 * EXACT_OUTPUT_SCAN_RADIUS)
            roots == {g \in gross : g >= MINIMUM_EXECUTED /\ IsRoot(g, n)}
        IN  GrossForExactOutput(n) = Least(roots)

\* Code run by the recipient of a payment cannot move the ledger: while the
\* money path is entered no liability and no remainder changes.
LedgerFrozenDuringPayment ==
    [][moneyPathEntered => UNCHANGED <<liabilities, remainders, claimed>>]_feeVars
=============================================================================
