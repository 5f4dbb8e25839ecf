------------------------ MODULE FeeAccountingProofs ------------------------
(***************************************************************************)
(* What FeeAccounting keeps true for every set of accounts and amounts.    *)
(*                                                                         *)
(* The remainder a stream carries is exactly what its floor has cut off:   *)
(* ten thousand times what was accrued, plus the remainder, is the rate    *)
(* times the volume.  That identity (StreamIdentity) is inductive, and the *)
(* floor formula of LifetimeSplit follows from it because the remainder is *)
(* below ten thousand.                                                     *)
(*                                                                         *)
(* That the total is the sum of the beneficiaries' entries (LedgerBalanced)*)
(* takes one more identity, over a sum: what the Treasury stream accrued   *)
(* is what its beneficiaries are owed and what they were paid.             *)
(*                                                                         *)
(* The scan of an exact-output swap is complete because a fee of three     *)
(* floors differs from its rate by less than three wei: a gross amount     *)
(* that leaves the requested net lies within the radius of the estimate.   *)
(***************************************************************************)
EXTENDS FeeAccounting, SumTheorems, TLAPS

\* accrued and remainder account for every basis point of the volume.
Carried(accrued, remainder, rateBps) ==
    BPS_DENOMINATOR * accrued + remainder = rateBps * volume

StreamIdentity ==
    /\ Carried(programmableLiability + programmableClaimed, programmableRemainder, PROGRAMMABLE_FEE_BPS)
    /\ Carried(treasuryAccrued, treasuryRemainder, TREASURY_FEE_BPS)
    /\ Carried(processLiability + processClaimed, processRemainder, PROCESS_FEE_BPS)

\* The Treasury stream enters the total through what was accrued and claimed.
TotalIdentity ==
    totalLiability = programmableLiability + processLiability + treasuryAccrued - treasuryClaimed

\* TypeOK without the lock: the numbers and the lock go to different provers.
NumbersOK ==
    /\ programmableLiability \in Nat /\ processLiability \in Nat /\ totalLiability \in Nat
    /\ treasuryLiabilities \in [Accounts -> Nat]
    /\ programmableRemainder \in 0..(BPS_DENOMINATOR - 1)
    /\ treasuryRemainder \in 0..(BPS_DENOMINATOR - 1)
    /\ processRemainder \in 0..(BPS_DENOMINATOR - 1)
    /\ balance \in Nat /\ volume \in Nat /\ treasuryAccrued \in Nat
    /\ programmableClaimed \in Nat /\ treasuryClaimed \in Nat /\ processClaimed \in Nat

LockOK == moneyPathEntered \in BOOLEAN

IInv == NumbersOK /\ Solvent /\ StreamIdentity /\ TotalIdentity

-----------------------------------------------------------------------------
(* Arithmetic of one swap *)

LEMMA Distribute ==
    ASSUME NEW a \in Nat, NEW b \in Nat, NEW c \in Nat
    PROVE  /\ a * b \in Nat /\ c * b \in Nat
           /\ b * (10000 * a + c) = 10000 * (a * b) + c * b
BY SMT

\* _cumulativeIncrement loses nothing: the increment and the new remainder are
\* the quotient and the rest of the old remainder plus the stream's share.
LEMMA IncrementSplits ==
    ASSUME NEW executed \in Nat, NEW rate \in Nat, NEW remainder \in 0..(BPS_DENOMINATOR - 1)
    PROVE  /\ Increment(executed, rate, remainder) \in Nat
           /\ RemainderAfter(executed, rate, remainder) \in 0..(BPS_DENOMINATOR - 1)
           /\ BPS_DENOMINATOR * Increment(executed, rate, remainder)
                 + RemainderAfter(executed, rate, remainder) = rate * executed + remainder
<1> USE DEF BPS_DENOMINATOR
<1> DEFINE q == executed \div 10000
           r == executed % 10000
           low == r * rate + remainder
<1>1. q \in Nat /\ r \in Nat /\ executed = 10000 * q + r
  BY SMT
<1>2. q * rate \in Nat /\ r * rate \in Nat /\ rate * executed = 10000 * (q * rate) + r * rate
  <2> HIDE DEF q, r
  <2> QED BY <1>1, Distribute
<1>3. low \in Nat
  BY <1>2
<1>4. low \div 10000 \in Nat /\ low % 10000 \in 0..9999 /\ low = 10000 * (low \div 10000) + (low % 10000)
  <2> HIDE DEF low
  <2> QED BY <1>3, SMT
<1>5. Increment(executed, rate, remainder) = q * rate + low \div 10000
  BY DEF Increment
<1>6. RemainderAfter(executed, rate, remainder) = low % 10000
  BY DEF RemainderAfter
<1> DEFINE A == q * rate
           B == r * rate
           P == rate * executed
           h == low \div 10000
           m == low % 10000
<1>7. /\ A \in Nat /\ B \in Nat /\ h \in Nat /\ m \in 0..9999
      /\ P = 10000 * A + B /\ 10000 * h + m = B + remainder
  BY <1>2, <1>4
<1> HIDE DEF A, B, P, h, m
<1>8. 10000 * (A + h) + m = P + remainder /\ A + h \in Nat
  BY <1>7
<1> QED BY <1>5, <1>6, <1>7, <1>8 DEF A, h, m, P

-----------------------------------------------------------------------------
(* The invariant *)

LEMMA InitInvariant == Init => IInv
BY SMT DEF Init, IInv, NumbersOK, Solvent, StreamIdentity, Carried, TotalIdentity, BPS_DENOMINATOR,
           PROGRAMMABLE_FEE_BPS, TREASURY_FEE_BPS, PROCESS_FEE_BPS

LEMMA RatesAreNaturals ==
    PROGRAMMABLE_FEE_BPS \in Nat /\ TREASURY_FEE_BPS \in Nat /\ PROCESS_FEE_BPS \in Nat
BY SMT DEF PROGRAMMABLE_FEE_BPS, TREASURY_FEE_BPS, PROCESS_FEE_BPS

\* One swap, whatever amount it executed.
LEMMA SwapPreserves ==
    ASSUME IInv, NEW executed \in Nat, NEW t \in Accounts, AccrueAuthenticatedSwap(executed, t)
    PROVE  IInv'
<1> DEFINE p == ProgrammableFee(executed)
           s == TreasuryFee(executed)
           c == ProcessFee(executed)
           P == RemainderAfter(executed, PROGRAMMABLE_FEE_BPS, programmableRemainder)
           S == RemainderAfter(executed, TREASURY_FEE_BPS, treasuryRemainder)
           C == RemainderAfter(executed, PROCESS_FEE_BPS, processRemainder)
<1>1. /\ p \in Nat /\ P \in 0..(BPS_DENOMINATOR - 1)
      /\ BPS_DENOMINATOR * p + P = PROGRAMMABLE_FEE_BPS * executed + programmableRemainder
  BY IncrementSplits, RatesAreNaturals, Zenon DEF IInv, NumbersOK, ProgrammableFee
<1>2. /\ s \in Nat /\ S \in 0..(BPS_DENOMINATOR - 1)
      /\ BPS_DENOMINATOR * s + S = TREASURY_FEE_BPS * executed + treasuryRemainder
  BY IncrementSplits, RatesAreNaturals, Zenon DEF IInv, NumbersOK, TreasuryFee
<1>3. /\ c \in Nat /\ C \in 0..(BPS_DENOMINATOR - 1)
      /\ BPS_DENOMINATOR * c + C = PROCESS_FEE_BPS * executed + processRemainder
  BY IncrementSplits, RatesAreNaturals, Zenon DEF IInv, NumbersOK, ProcessFee
<1>4. /\ balance' = balance + (p + s + c)
      /\ programmableLiability' = programmableLiability + p
      /\ treasuryLiabilities' = [treasuryLiabilities EXCEPT ![t] = @ + s]
      /\ processLiability' = processLiability + c
      /\ totalLiability' = totalLiability + (p + s + c)
      /\ programmableRemainder' = P /\ treasuryRemainder' = S /\ processRemainder' = C
      /\ volume' = volume + executed
      /\ treasuryAccrued' = treasuryAccrued + s
      /\ programmableClaimed' = programmableClaimed
      /\ treasuryClaimed' = treasuryClaimed
      /\ processClaimed' = processClaimed
  BY Zenon DEF AccrueAuthenticatedSwap, PreviewTotalFee, claimed
<1> HIDE DEF p, s, c, P, S, C
<1>5. NumbersOK'
  BY <1>1, <1>2, <1>3, <1>4 DEF IInv, NumbersOK
<1>6. Solvent' /\ TotalIdentity'
  BY <1>1, <1>2, <1>3, <1>4 DEF IInv, NumbersOK, Solvent, TotalIdentity
<1>7. StreamIdentity'
  <2> USE DEF IInv, NumbersOK, Carried, BPS_DENOMINATOR
  <2>1. Carried(programmableLiability + programmableClaimed, programmableRemainder, PROGRAMMABLE_FEE_BPS)'
    BY <1>1, <1>4 DEF StreamIdentity, PROGRAMMABLE_FEE_BPS
  <2>2. Carried(treasuryAccrued, treasuryRemainder, TREASURY_FEE_BPS)'
    BY <1>2, <1>4 DEF StreamIdentity, TREASURY_FEE_BPS
  <2>3. Carried(processLiability + processClaimed, processRemainder, PROCESS_FEE_BPS)'
    BY <1>3, <1>4 DEF StreamIdentity, PROCESS_FEE_BPS
  <2> QED BY <2>1, <2>2, <2>3 DEF StreamIdentity
<1> QED BY <1>5, <1>6, <1>7 DEF IInv

\* The three claims, each by the amount it moves.
LEMMA ClaimsPreserve ==
    ASSUME IInv, NEW amount \in Nat,
           \/ ClaimProgrammableLiability(amount)
           \/ \E b \in Accounts : ClaimTreasuryLiability(b, amount)
           \/ ClaimProcessLiability(amount)
    PROVE  IInv'
<1> USE DEF IInv, BeginPayment, remainders
<1>1. CASE ClaimProgrammableLiability(amount)
  <2> USE <1>1 DEF ClaimProgrammableLiability
  <2>1. NumbersOK' BY DEF NumbersOK
  <2>2. Solvent' /\ TotalIdentity' BY DEF NumbersOK, Solvent, TotalIdentity
  <2>3. StreamIdentity' BY DEF NumbersOK, StreamIdentity, Carried
  <2> QED BY <2>1, <2>2, <2>3
<1>2. CASE \E b \in Accounts : ClaimTreasuryLiability(b, amount)
  <2> PICK b \in Accounts : ClaimTreasuryLiability(b, amount) BY <1>2
  <2> USE DEF ClaimTreasuryLiability
  <2>1. NumbersOK' BY DEF NumbersOK
  <2>2. Solvent' /\ TotalIdentity' BY DEF NumbersOK, Solvent, TotalIdentity
  <2>3. StreamIdentity' BY DEF NumbersOK, StreamIdentity, Carried
  <2> QED BY <2>1, <2>2, <2>3
<1>3. CASE ClaimProcessLiability(amount)
  <2> USE <1>3 DEF ClaimProcessLiability
  <2>1. NumbersOK' BY DEF NumbersOK
  <2>2. Solvent' /\ TotalIdentity' BY DEF NumbersOK, Solvent, TotalIdentity
  <2>3. StreamIdentity' BY DEF NumbersOK, StreamIdentity, Carried
  <2> QED BY <2>1, <2>2, <2>3
<1> QED BY <1>1, <1>2, <1>3

LEMMA StepInvariant == IInv /\ [Next]_feeVars => IInv'
<1> SUFFICES ASSUME IInv, [Next]_feeVars PROVE IInv'
  OBVIOUS
<1> USE FeeAssumption
<1>1. ASSUME NEW q \in SwapAmounts, NEW t \in Accounts, SwapExactInput(q, t) PROVE IInv'
  BY <1>1, SwapPreserves DEF SwapExactInput
<1>2. ASSUME NEW n \in NetAmounts, NEW t \in Accounts, SwapExactOutput(n, t) PROVE IInv'
  <2>1. PICK gross \in GrossForExactOutput(n) : AccrueAuthenticatedSwap(gross, t)
    BY <1>2 DEF SwapExactOutput
  <2>2. gross \in Int
    BY <2>1 DEF GrossForExactOutput, Least, ScannedRoots
  <2>3. gross \in Nat
    BY <2>1, <2>2 DEF AccrueAuthenticatedSwap, MINIMUM_EXECUTED
  <2> QED BY <2>1, <2>3, SwapPreserves
<1>3. ASSUME NEW a \in ClaimAmounts \cup {programmableLiability}, ClaimProgrammableLiability(a)
      PROVE  IInv'
  <2>1. a \in Nat BY DEF IInv, NumbersOK
  <2> QED BY <1>3, <2>1, ClaimsPreserve
<1>4. ASSUME NEW b \in Accounts, NEW a \in ClaimAmounts \cup {treasuryLiabilities[b]},
             ClaimTreasuryLiability(b, a)
      PROVE  IInv'
  <2>1. a \in Nat BY DEF IInv, NumbersOK
  <2> QED BY <1>4, <2>1, ClaimsPreserve
<1>5. ASSUME NEW a \in ClaimAmounts, ClaimProcessLiability(a) PROVE IInv'
  <2>1. a \in Nat OBVIOUS
  <2> QED BY <1>5, <2>1, ClaimsPreserve
<1>6. CASE FinishPayment
  BY <1>6 DEF FinishPayment, IInv, NumbersOK, Solvent, StreamIdentity, Carried, TotalIdentity,
              remainders, liabilities, claimed
<1>7. ASSUME NEW d \in Donations, Receive(d) PROVE IInv'
  <2>1. d \in Nat OBVIOUS
  <2> QED BY <1>7, <2>1 DEF Receive, IInv, NumbersOK, Solvent, StreamIdentity, Carried, TotalIdentity,
              remainders, liabilities, claimed
<1>8. CASE UNCHANGED feeVars
  BY <1>8 DEF feeVars, IInv, NumbersOK, Solvent, StreamIdentity, Carried, TotalIdentity,
              remainders, liabilities, claimed
<1> QED BY <1>1, <1>2, <1>3, <1>4, <1>5, <1>6, <1>7, <1>8 DEF Next

LEMMA Invariant == Spec => []IInv
BY InitInvariant, StepInvariant, PTL DEF Spec

LEMMA LockInvariant == Spec => []LockOK
<1>1. Init => LockOK
  BY Zenon DEF Init, LockOK
<1>2. LockOK /\ [Next]_feeVars => LockOK'
  BY Zenon DEF LockOK, Next, SwapExactInput, SwapExactOutput, AccrueAuthenticatedSwap,
     ClaimProgrammableLiability, ClaimTreasuryLiability, ClaimProcessLiability, BeginPayment,
     FinishPayment, Receive, feeVars
<1> QED BY <1>1, <1>2, PTL DEF Spec

-----------------------------------------------------------------------------
(* The results *)

\* The ledger keeps its types; in particular the carried remainders stay below
\* the denominator, which _cumulativeIncrement relies on.
THEOREM TypeCorrect == Spec => []TypeOK
<1>1. IInv /\ LockOK => TypeOK BY Zenon DEF IInv, NumbersOK, LockOK, TypeOK
<1> QED BY Invariant, LockInvariant, <1>1, PTL

\* The hook holds at least what it owes in every state, also while the
\* recipient of a payment runs.
THEOREM AlwaysSolvent == Spec => []Solvent
<1>1. IInv => Solvent BY DEF IInv
<1> QED BY Invariant, <1>1, PTL

LEMMA FloorDropsRemainder ==
    ASSUME NEW accrued \in Nat, NEW remainder \in 0..(BPS_DENOMINATOR - 1)
    PROVE  accrued = (BPS_DENOMINATOR * accrued + remainder) \div BPS_DENOMINATOR
BY SMT DEF BPS_DENOMINATOR

LEMMA FloorOfShare ==
    ASSUME NEW accrued \in Nat, NEW remainder \in 0..(BPS_DENOMINATOR - 1), NEW share,
           BPS_DENOMINATOR * accrued + remainder = share
    PROVE  accrued = share \div BPS_DENOMINATOR
BY FloorDropsRemainder, Zenon

\* However volume is cut into swaps and claims are made in between, a stream
\* has accrued the floor of its share of the lifetime volume.
THEOREM FragmentationIsNeutral == Spec => []LifetimeSplit
<1>1. IInv => LifetimeSplit
  <2> SUFFICES ASSUME IInv PROVE LifetimeSplit
    OBVIOUS
  <2>1. programmableLiability + programmableClaimed \in Nat /\ processLiability + processClaimed \in Nat
    BY DEF IInv, NumbersOK
  <2>2. /\ programmableRemainder \in 0..(BPS_DENOMINATOR - 1)
        /\ treasuryRemainder \in 0..(BPS_DENOMINATOR - 1) /\ treasuryAccrued \in Nat
        /\ processRemainder \in 0..(BPS_DENOMINATOR - 1)
    BY DEF IInv, NumbersOK
  <2>3. /\ BPS_DENOMINATOR * (programmableLiability + programmableClaimed) + programmableRemainder
              = PROGRAMMABLE_FEE_BPS * volume
        /\ BPS_DENOMINATOR * (processLiability + processClaimed) + processRemainder = PROCESS_FEE_BPS * volume
        /\ BPS_DENOMINATOR * treasuryAccrued + treasuryRemainder = TREASURY_FEE_BPS * volume
    BY Zenon DEF IInv, StreamIdentity, Carried
  <2>4. programmableLiability + programmableClaimed = (PROGRAMMABLE_FEE_BPS * volume) \div BPS_DENOMINATOR
    BY <2>1, <2>2, <2>3, FloorOfShare, Zenon
  <2>5. processLiability + processClaimed = (PROCESS_FEE_BPS * volume) \div BPS_DENOMINATOR
    BY <2>1, <2>2, <2>3, FloorOfShare, Zenon
  <2>6. treasuryAccrued = (TREASURY_FEE_BPS * volume) \div BPS_DENOMINATOR
    BY <2>2, <2>3, FloorOfShare, Zenon
  <2> QED BY <2>4, <2>5, <2>6, Zenon DEF LifetimeSplit
<1> QED BY Invariant, <1>1, PTL

\* No step changes a liability or a remainder while a payment is in progress.
THEOREM PaymentFreezesLedger == Spec => LedgerFrozenDuringPayment
<1>1. [Next]_feeVars => [moneyPathEntered => UNCHANGED <<liabilities, remainders, claimed>>]_feeVars
  <2> SUFFICES ASSUME [Next]_feeVars, moneyPathEntered
               PROVE  UNCHANGED <<liabilities, remainders, claimed>> \/ UNCHANGED feeVars
    OBVIOUS
  <2>1. ASSUME NEW q, NEW t, AccrueAuthenticatedSwap(q, t) PROVE FALSE
    BY <2>1 DEF AccrueAuthenticatedSwap, MoneyPathFree
  <2>2. ASSUME NEW a, BeginPayment(a) PROVE FALSE
    BY <2>2 DEF BeginPayment, MoneyPathFree
  <2>3. Next => FinishPayment \/ (\E d \in Donations : Receive(d))
    BY <2>1, <2>2 DEF Next, SwapExactInput, SwapExactOutput, ClaimProgrammableLiability,
                      ClaimTreasuryLiability, ClaimProcessLiability
  <2>4. Next => UNCHANGED <<liabilities, remainders, claimed>>
    BY <2>3 DEF FinishPayment, Receive
  <2> QED BY <2>4
<1> QED BY <1>1, PTL DEF Spec, LedgerFrozenDuringPayment
-----------------------------------------------------------------------------
(* The beneficiaries' entries and the total *)

Owed == SumFunction(treasuryLiabilities)

OwedIdentity == treasuryAccrued = Owed + treasuryClaimed

\* Crediting or debiting one beneficiary moves the sum by the same amount.
LEMMA OwedAfter ==
    ASSUME NumbersOK, NEW b \in Accounts, NEW v \in Int,
           treasuryLiabilities' = [treasuryLiabilities EXCEPT ![b] = v]
    PROVE  Owed \in Nat /\ Owed' = Owed - treasuryLiabilities[b] + v
<1>1. treasuryLiabilities \in [Accounts -> Int] /\ \A a \in Accounts : treasuryLiabilities[a] \in Nat
  BY DEF NumbersOK
<1>2. IsFiniteSet(Accounts)
  BY FeeAssumption
<1>3. DOMAIN treasuryLiabilities = Accounts /\ DOMAIN (treasuryLiabilities') = Accounts
  BY <1>1
<1>4. Owed = SumFunctionOnSet(treasuryLiabilities, Accounts)
  BY <1>3 DEF Owed, SumFunction
<1>5. Owed' = SumFunctionOnSet(treasuryLiabilities', Accounts)
  BY <1>3 DEF Owed, SumFunction
<1>6. SumFunctionOnSet(treasuryLiabilities', Accounts)
        = SumFunctionOnSet(treasuryLiabilities, Accounts) - treasuryLiabilities[b] + v
  <2> DEFINE f == treasuryLiabilities
             g == treasuryLiabilities'
  <2>1. /\ \A a \in Accounts : f[a] \in Int
        /\ \A a \in Accounts \ {b} : g[a] = f[a]
        /\ g[b] = v
    BY <1>1
  <2> HIDE DEF f, g
  <2>2. SumFunctionOnSet(g, Accounts) = SumFunctionOnSet(f, Accounts) - f[b] + g[b]
    BY <1>2, <2>1, SumUpdate
  <2>3. SumFunctionOnSet(g, Accounts) = SumFunctionOnSet(f, Accounts) - f[b] + v
    BY <2>1, <2>2
  <2> QED BY <2>3, Zenon DEF f, g
<1>7. SumFunctionOnSet(treasuryLiabilities, Accounts) \in Nat
  BY <1>1, <1>2, SumTypes
<1> QED BY <1>4, <1>5, <1>6, <1>7

LEMMA InitOwed == Init => OwedIdentity
<1> SUFFICES ASSUME Init PROVE OwedIdentity
  OBVIOUS
<1> DEFINE Zero == [a \in Accounts |-> 0]
           Zeros(S) == SumFunctionOnSet(Zero, S) = 0
           F == {S \in SUBSET Accounts : Zeros(S)}
<1>1. IsFiniteSet(Accounts)
  BY FeeAssumption
<1>2. {} \in F
  BY SumEmpty
<1>3. ASSUME NEW S \in F, NEW x \in Accounts \ S PROVE S \cup {x} \in F
  <2>1. IsFiniteSet(S) /\ S \in SUBSET Accounts /\ Zeros(S)
    BY <1>1, FS_Subset
  <2>2. Zero[x] = 0 /\ \A y \in S : Zero[y] \in Int
    OBVIOUS
  <2> HIDE DEF Zero
  <2>3. SumFunctionOnSet(Zero, S \cup {x}) = Zero[x] + SumFunctionOnSet(Zero, S)
    BY <2>1, <2>2, SumAdd
  <2> QED BY <2>1, <2>2, <2>3
<1>4. Accounts \in F
  <2>1. F \in SUBSET SUBSET Accounts OBVIOUS
  <2> HIDE DEF F
  <2> QED BY <1>1, <1>2, <1>3, <2>1, SetInduction
<1>5. Owed = SumFunctionOnSet(Zero, Accounts) /\ treasuryAccrued = 0 /\ treasuryClaimed = 0
  BY DEF Init, Owed, SumFunction
<1> HIDE DEF Zero
<1> QED BY <1>4, <1>5 DEF OwedIdentity

LEMMA SwapOwed ==
    ASSUME IInv, OwedIdentity, NEW executed \in Nat, NEW t \in Accounts,
           AccrueAuthenticatedSwap(executed, t)
    PROVE  OwedIdentity'
<1> DEFINE s == TreasuryFee(executed)
<1>1. s \in Nat
  BY IncrementSplits, RatesAreNaturals, Zenon DEF IInv, NumbersOK, TreasuryFee
<1>2. /\ treasuryLiabilities' = [treasuryLiabilities EXCEPT ![t] = treasuryLiabilities[t] + s]
      /\ treasuryAccrued' = treasuryAccrued + s
      /\ treasuryClaimed' = treasuryClaimed
  BY DEF AccrueAuthenticatedSwap, claimed
<1> HIDE DEF s
<1>3. treasuryLiabilities[t] \in Nat /\ treasuryAccrued \in Nat /\ treasuryClaimed \in Nat
  BY DEF IInv, NumbersOK
<1>4. Owed \in Nat /\ Owed' = Owed - treasuryLiabilities[t] + (treasuryLiabilities[t] + s)
  <2>1. treasuryLiabilities[t] + s \in Int
    BY <1>1, <1>3
  <2> QED BY <1>2, <2>1, OwedAfter, Zenon DEF IInv
<1> QED BY <1>1, <1>2, <1>3, <1>4 DEF OwedIdentity

LEMMA StepOwed == IInv /\ OwedIdentity /\ [Next]_feeVars => OwedIdentity'
<1> SUFFICES ASSUME IInv, OwedIdentity, [Next]_feeVars PROVE OwedIdentity'
  OBVIOUS
<1> USE FeeAssumption
<1>1. ASSUME NEW q \in SwapAmounts, NEW t \in Accounts, SwapExactInput(q, t) PROVE OwedIdentity'
  BY <1>1, SwapOwed DEF SwapExactInput
<1>2. ASSUME NEW n \in NetAmounts, NEW t \in Accounts, SwapExactOutput(n, t) PROVE OwedIdentity'
  <2>1. PICK gross \in GrossForExactOutput(n) : AccrueAuthenticatedSwap(gross, t)
    BY <1>2 DEF SwapExactOutput
  <2>2. gross \in Int
    BY <2>1 DEF GrossForExactOutput, Least, ScannedRoots
  <2>3. gross \in Nat
    BY <2>1, <2>2 DEF AccrueAuthenticatedSwap, MINIMUM_EXECUTED
  <2> QED BY <2>1, <2>3, SwapOwed
<1>3. ASSUME NEW b \in Accounts, NEW a \in ClaimAmounts \cup {treasuryLiabilities[b]},
             ClaimTreasuryLiability(b, a)
      PROVE  OwedIdentity'
  <2>1. a \in Nat /\ treasuryLiabilities[b] \in Nat /\ treasuryAccrued \in Nat /\ treasuryClaimed \in Nat
    BY DEF IInv, NumbersOK
  <2>2. /\ treasuryLiabilities' = [treasuryLiabilities EXCEPT ![b] = treasuryLiabilities[b] - a]
        /\ treasuryClaimed' = treasuryClaimed + a
        /\ treasuryAccrued' = treasuryAccrued
    BY <1>3 DEF ClaimTreasuryLiability, BeginPayment
  <2>3. Owed \in Nat /\ Owed' = Owed - treasuryLiabilities[b] + (treasuryLiabilities[b] - a)
    <3>1. treasuryLiabilities[b] - a \in Int
      BY <2>1
    <3> QED BY <2>2, <3>1, OwedAfter, Zenon DEF IInv
  <2> QED BY <2>1, <2>2, <2>3 DEF OwedIdentity
<1>4. CASE UNCHANGED <<treasuryLiabilities, treasuryAccrued, treasuryClaimed>>
  BY <1>4 DEF OwedIdentity, Owed
<1> QED BY <1>1, <1>2, <1>3, <1>4
     DEF Next, ClaimProgrammableLiability, ClaimProcessLiability, BeginPayment, FinishPayment,
         Receive, liabilities, claimed, feeVars

\* The total is the sum of the streams and of every beneficiary's entry, after
\* any sequence of swaps, partial claims and changes of the Treasury.
THEOREM LedgerIsBalanced == Spec => []LedgerBalanced
<1>1. IInv /\ OwedIdentity => LedgerBalanced
  <2> SUFFICES ASSUME IInv, OwedIdentity PROVE LedgerBalanced
    OBVIOUS
  <2>1. SumFunctionOnSet(treasuryLiabilities, Accounts) \in Nat
    <3>1. \A a \in Accounts : treasuryLiabilities[a] \in Nat
      BY DEF IInv, NumbersOK
    <3> QED BY <3>1, FeeAssumption, SumTypes
  <2>2. Owed \in Nat
    BY <2>1 DEF Owed, SumFunction, IInv, NumbersOK
  <2> QED BY <2>2 DEF IInv, NumbersOK, TotalIdentity, OwedIdentity, LedgerBalanced, Owed
<1>2. IInv /\ OwedIdentity /\ [Next]_feeVars => (IInv /\ OwedIdentity)'
  BY StepInvariant, StepOwed
<1>3. Init => IInv /\ OwedIdentity
  BY InitInvariant, InitOwed
<1> QED BY <1>1, <1>2, <1>3, PTL DEF Spec
-----------------------------------------------------------------------------
(* The scan for the gross amount of an exact-output swap *)

LEMMA SumOfFloors ==
    ASSUME NEW p \in Nat, NEW s \in Nat, NEW c \in Nat, NEW g \in Nat,
           NEW P \in Nat, NEW S \in Nat, NEW C \in Nat, P <= 9999, S <= 9999, C <= 9999,
           NEW x \in Nat, NEW y \in Nat, NEW z \in Nat, x <= 9999, y <= 9999, z <= 9999,
           10000 * p + P = 20 * g + x, 10000 * s + S = 30 * g + y, 10000 * c + C = 250 * g + z,
           NEW q, q = p + s + c
    PROVE  q \in Nat /\ 10000 * q <= 300 * g + 29997 /\ 300 * g <= 10000 * q + 29997
BY SMT

\* The fee of a swap is within three of its share, whatever the remainders.
LEMMA FeeBounds ==
    ASSUME IInv, NEW g \in Nat
    PROVE  /\ PreviewTotalFee(g) \in Nat
           /\ 10000 * PreviewTotalFee(g) <= 300 * g + 29997
           /\ 300 * g <= 10000 * PreviewTotalFee(g) + 29997
<1> DEFINE p == ProgrammableFee(g)
           s == TreasuryFee(g)
           c == ProcessFee(g)
           P == RemainderAfter(g, PROGRAMMABLE_FEE_BPS, programmableRemainder)
           S == RemainderAfter(g, TREASURY_FEE_BPS, treasuryRemainder)
           C == RemainderAfter(g, PROCESS_FEE_BPS, processRemainder)
<1>1. /\ p \in Nat /\ P \in 0..(BPS_DENOMINATOR - 1)
      /\ BPS_DENOMINATOR * p + P = PROGRAMMABLE_FEE_BPS * g + programmableRemainder
  BY IncrementSplits, RatesAreNaturals, Zenon DEF IInv, NumbersOK, ProgrammableFee
<1>2. /\ s \in Nat /\ S \in 0..(BPS_DENOMINATOR - 1)
      /\ BPS_DENOMINATOR * s + S = TREASURY_FEE_BPS * g + treasuryRemainder
  BY IncrementSplits, RatesAreNaturals, Zenon DEF IInv, NumbersOK, TreasuryFee
<1>3. /\ c \in Nat /\ C \in 0..(BPS_DENOMINATOR - 1)
      /\ BPS_DENOMINATOR * c + C = PROCESS_FEE_BPS * g + processRemainder
  BY IncrementSplits, RatesAreNaturals, Zenon DEF IInv, NumbersOK, ProcessFee
<1>4. PreviewTotalFee(g) = p + s + c
  BY DEF PreviewTotalFee
<1>5. /\ programmableRemainder \in 0..(BPS_DENOMINATOR - 1)
      /\ treasuryRemainder \in 0..(BPS_DENOMINATOR - 1)
      /\ processRemainder \in 0..(BPS_DENOMINATOR - 1)
  BY DEF IInv, NumbersOK
<1> HIDE DEF p, s, c, P, S, C
<1>6. /\ P \in Nat /\ S \in Nat /\ C \in Nat /\ P <= 9999 /\ S <= 9999 /\ C <= 9999
      /\ programmableRemainder \in Nat /\ treasuryRemainder \in Nat /\ processRemainder \in Nat
      /\ programmableRemainder <= 9999 /\ treasuryRemainder <= 9999 /\ processRemainder <= 9999
  BY <1>1, <1>2, <1>3, <1>5 DEF BPS_DENOMINATOR
<1>7. /\ 10000 * p + P = 20 * g + programmableRemainder
      /\ 10000 * s + S = 30 * g + treasuryRemainder
      /\ 10000 * c + C = 250 * g + processRemainder
  <2>1. 10000 * p + P = 20 * g + programmableRemainder
    BY <1>1 DEF BPS_DENOMINATOR, PROGRAMMABLE_FEE_BPS
  <2>2. 10000 * s + S = 30 * g + treasuryRemainder
    BY <1>2 DEF BPS_DENOMINATOR, TREASURY_FEE_BPS
  <2>3. 10000 * c + C = 250 * g + processRemainder
    BY <1>3 DEF BPS_DENOMINATOR, PROCESS_FEE_BPS
  <2> QED BY <2>1, <2>2, <2>3
<1>8. p \in Nat /\ s \in Nat /\ c \in Nat
  BY <1>1, <1>2, <1>3
<1> QED BY <1>4, <1>6, <1>7, <1>8, SumOfFloors

\* mulDivRoundingUp is the least quotient that reaches the net amount.
LEMMA EstimateBounds ==
    ASSUME NEW n \in Nat
    PROVE  /\ GrossEstimate(n) \in Nat
           /\ 10000 * n <= 9700 * GrossEstimate(n)
           /\ 9700 * GrossEstimate(n) <= 10000 * n + 9699
<1> DEFINE x == n * 10000 + 9699
           e == x \div 9700
<1>1. x \in Nat
  OBVIOUS
<1>2. GrossEstimate(n) = e
  BY DEF GrossEstimate, BPS_DENOMINATOR, TOTAL_FEE_BPS
<1>3. e \in Nat /\ 9700 * e <= x /\ x <= 9700 * e + 9699
  <2> HIDE DEF x
  <2> QED BY <1>1, SMT
<1> HIDE DEF e
<1> QED BY <1>2, <1>3

\* No amount outside the scanned window leaves the requested net.
LEMMA RootsAreScanned ==
    ASSUME IInv, NEW n \in Nat, NEW g \in Nat, g >= MINIMUM_EXECUTED, IsRoot(g, n)
    PROVE  /\ g \in FirstCandidate(n)..(FirstCandidate(n) + 2 * EXACT_OUTPUT_SCAN_RADIUS)
           /\ g \in n..(GrossEstimate(n) + 5 * EXACT_OUTPUT_SCAN_RADIUS)
<1> DEFINE fee == PreviewTotalFee(g)
           e == GrossEstimate(n)
<1>1. fee \in Nat /\ 10000 * fee <= 300 * g + 29997 /\ 300 * g <= 10000 * fee + 29997
  BY FeeBounds
<1>2. e \in Nat /\ 10000 * n <= 9700 * e /\ 9700 * e <= 10000 * n + 9699
  BY EstimateBounds
<1>3. g - fee = n
  BY DEF IsRoot
<1>4. FirstCandidate(n) = IF e > 8 THEN IF e - 8 < 1000 THEN 1000 ELSE e - 8 ELSE 1000
  BY <1>2 DEF FirstCandidate, EXACT_OUTPUT_SCAN_RADIUS, MINIMUM_EXECUTED
<1> HIDE DEF fee, e
<1>5. g <= e + 4 /\ e <= g + 4 /\ n <= g
  BY <1>1, <1>2, <1>3
<1>6. g \in n..(e + 40)
  BY <1>2, <1>5
<1>7. g \in FirstCandidate(n)..(FirstCandidate(n) + 16)
  BY <1>2, <1>4, <1>5 DEF MINIMUM_EXECUTED
<1> QED BY <1>6, <1>7 DEF EXACT_OUTPUT_SCAN_RADIUS, e

LEMMA CandidatesExecute ==
    ASSUME NEW n \in Nat
    PROVE  FirstCandidate(n) \in Nat /\ FirstCandidate(n) >= MINIMUM_EXECUTED
<1>1. GrossEstimate(n) \in Nat
  BY EstimateBounds
<1> HIDE DEF GrossEstimate
<1> QED BY <1>1 DEF FirstCandidate, MINIMUM_EXECUTED, EXACT_OUTPUT_SCAN_RADIUS

\* The scan of seventeen candidates sees every root there is, among all gross
\* amounts, in every remainder state.
LEMMA ScanIsComplete ==
    ASSUME IInv, NEW n \in Nat
    PROVE  /\ ScannedRoots(n) = {g \in Nat : g >= MINIMUM_EXECUTED /\ IsRoot(g, n)}
           /\ ScannedRoots(n) = {g \in n..(GrossEstimate(n) + 5 * EXACT_OUTPUT_SCAN_RADIUS) :
                                    g >= MINIMUM_EXECUTED /\ IsRoot(g, n)}
<1> DEFINE all == {g \in Nat : g >= MINIMUM_EXECUTED /\ IsRoot(g, n)}
           near == {g \in n..(GrossEstimate(n) + 5 * EXACT_OUTPUT_SCAN_RADIUS) :
                      g >= MINIMUM_EXECUTED /\ IsRoot(g, n)}
           first == FirstCandidate(n)
<1>1. first \in Nat /\ first >= MINIMUM_EXECUTED
  BY CandidatesExecute
<1>2. ASSUME NEW g \in ScannedRoots(n) PROVE g \in all
  <2>1. g \in first..(first + 2 * EXACT_OUTPUT_SCAN_RADIUS) /\ IsRoot(g, n)
    BY DEF ScannedRoots
  <2> HIDE DEF first
  <2>2. g \in Nat /\ g >= MINIMUM_EXECUTED
    BY <1>1, <2>1 DEF MINIMUM_EXECUTED
  <2> QED BY <2>1, <2>2
<1>3. ASSUME NEW g \in all PROVE g \in ScannedRoots(n) /\ g \in near
  BY RootsAreScanned DEF ScannedRoots
<1>4. ASSUME NEW g \in near PROVE g \in all
  <2>1. GrossEstimate(n) \in Nat
    BY EstimateBounds
  <2>2. g \in Nat
    BY <2>1 DEF EXACT_OUTPUT_SCAN_RADIUS
  <2> QED BY <2>2
<1> HIDE DEF all, near
<1>5. ScannedRoots(n) = all /\ all = near
  BY <1>2, <1>3, <1>4
<1> QED BY <1>5 DEF all, near

\* In every reachable remainder state the bounded scan returns the least gross
\* amount that leaves the requested net, and reverts only when there is none.
THEOREM ScanFindsLeastGross == Spec => []ExactOutputLeastGross
<1>1. IInv => ExactOutputLeastGross
  <2> SUFFICES ASSUME IInv, NEW n \in NetAmounts
               PROVE  GrossForExactOutput(n) =
                         Least({g \in n..(GrossEstimate(n) + 5 * EXACT_OUTPUT_SCAN_RADIUS) :
                                   g >= MINIMUM_EXECUTED /\ IsRoot(g, n)})
    BY DEF ExactOutputLeastGross
  <2>1. n \in Nat
    BY FeeAssumption
  <2> QED BY <2>1, ScanIsComplete DEF GrossForExactOutput
<1> QED BY Invariant, <1>1, PTL

\* The same without a bound on the gross amounts compared.
THEOREM ScanFindsLeastOfAll ==
    Spec => [](\A n \in NetAmounts :
                  GrossForExactOutput(n) = Least({g \in Nat : g >= MINIMUM_EXECUTED /\ IsRoot(g, n)}))
<1>1. IInv => \A n \in NetAmounts :
                 GrossForExactOutput(n) = Least({g \in Nat : g >= MINIMUM_EXECUTED /\ IsRoot(g, n)})
  BY FeeAssumption, ScanIsComplete DEF GrossForExactOutput
<1> QED BY Invariant, <1>1, PTL
=============================================================================
