-------------------------- MODULE ClaimStageProofs --------------------------
(***************************************************************************)
(* The safety of the claim stage for every number of failures and heads.   *)
(* IInv adds to the invariants of ClaimStage what the place of the run     *)
(* says about the journal, the budget, the fence and the chain.            *)
(***************************************************************************)
EXTENDS ClaimStage, TLAPS

Journalled == {"SIGNED", "BROADCAST", "FINALIZED"}
Sent == {"BROADCAST", "FINALIZED"}

\* What the place of the run says about the attempt.
PhaseInv ==
    /\ raw # 0 <=> pc = "recordSigned"
    /\ pc \in {"sign", "signature", "recordSigned"} => attempt = "PREPARED"
    /\ pc \in {"send", "transmit", "recordBroadcast"} => attempt = "SIGNED"
    /\ pc \in {"settle", "finality"} => attempt \in Sent
    /\ pc \in {"release", "complete"} => attempt = "FINALIZED"

\* Before the attempt is SIGNED every signature but a fresh one cost a failure.
SignatureInv ==
    /\ attempt \notin Journalled => signedTx = 0 /\ (pc # "recordSigned" => signatures <= failures)
    /\ attempt \in Journalled => signedTx \in 1..signatures

\* The budget entry is made before the signature and settled before finality.
BudgetInv ==
    /\ (attempt \in Journalled \/ pc \in {"signature", "recordSigned"}) => usd # "none"
    /\ usd \in {"CONFIRMED", "REVERTED"} => attempt \in Sent
    /\ usd = "CONFIRMED" => chain[signedTx] = "success"
    /\ usd = "REVERTED" => chain[signedTx] = "reverted"
    /\ attempt = "FINALIZED" => usd = "CONFIRMED"
    /\ pc \in {"settle", "finality", "release", "complete"} => chain[signedTx] = "success"
    /\ pc \in {"finality", "release", "complete"} => usd = "CONFIRMED"

\* From the reservation on, journal and key hold the run's own for as long as
\* its lease does; the lease that is lost does not come back to it.
FenceInv ==
    pc \in {"attempt", "sign", "signature", "recordSigned", "send", "transmit", "recordBroadcast"}
        => (lease = "live" => Own(journal) /\ Own(key) /\ journal = key)

Freed ==
    /\ journal # NoReservation /\ journal.state = "RELEASED"
    /\ key = NoReservation \/ key.owner = "other"

\* A stage is completed after the release and never run again.
DoneInv ==
    /\ pc = "complete" => Freed
    /\ complete => pc = "idle" /\ attempt = "FINALIZED" /\ Freed

Parts == PhaseInv /\ SignatureInv /\ OneClaimOnChain /\ BudgetInv /\ FenceInv /\ DoneInv

IInv == TypeOK /\ Parts

\* The first run starts with nothing recorded, reserved or sent.
LEMMA InitInvariant == Init => IInv
<1> SUFFICES ASSUME Init PROVE IInv
  OBVIOUS
<1>1. TypeOK
  <2>1. /\ signedTx \in 0..signatures /\ raw \in 0..signatures /\ failures \in 0..MaxFailures
        /\ signatures \in 0..(failures + 1) /\ head \in 0..MaxHead
        /\ seenHead \in 0..head /\ finalityHead \in 0..head
    BY BoundsAssumption DEF Init
  <2>2. chain \in [Transactions -> {"unsent", "void"} \cup OnChain]
    BY DEF Init
  <2> QED BY <2>1, <2>2 DEF Init, TypeOK, Steps
<1>2. OneClaimOnChain
  BY DEF Init, OneClaimOnChain, OnChain
<1>3. PhaseInv /\ BudgetInv /\ FenceInv /\ DoneInv
  BY DEF Init, PhaseInv, BudgetInv, FenceInv, DoneInv, Journalled
<1>4. SignatureInv
  BY DEF Init, SignatureInv, Journalled
<1> QED BY <1>1, <1>2, <1>3, <1>4 DEF IInv, Parts

\* A failure more leaves room for the signatures there are.
LEMMA WiderBound ==
    ASSUME NEW f \in Nat, NEW g \in Nat, NEW n \in 0..(f + 1), f <= g
    PROVE  n \in 0..(g + 1)
OBVIOUS

\* Every step of a run, every failure and every step of the chain keeps IInv.
LEMMA StepInvariant == IInv /\ [Next]_vars => IInv'
<1> SUFFICES ASSUME IInv, [Next]_vars PROVE IInv'
  OBVIOUS
<1> USE BoundsAssumption, NoReservationAssumption
<1> USE DEF IInv, Parts, PhaseInv, SignatureInv, OneClaimOnChain, BudgetInv, FenceInv, DoneInv, Freed, Own,
            TypeOK, Reservations, Transactions, Journalled, Sent, Steps, FencedSteps, NonceSteps, Reconciling,
            OnChain, Elsewhere, record, fence, network
<1>1. CASE StartRun
  <2>1. Aged(journal) \in Reservations \cup {NoReservation} /\ Aged(key) \in Reservations \cup {NoReservation}
    BY DEF Aged, Passed
  <2> QED BY <1>1, <2>1 DEF StartRun
<1>2. CASE ReconcileNothing
  BY <1>2 DEF ReconcileNothing, Unresolved, EndRun, Continue
<1>3. CASE ReconcileUnavailable
  BY <1>3 DEF ReconcileUnavailable, Unresolved, EndRun, Continue
<1>4. CASE ReconcileSigned
  BY <1>4 DEF ReconcileSigned, Continue
<1>5. CASE ReconcileReverted
  BY <1>5 DEF ReconcileReverted, EndRun
<1>6. CASE ReconcileSucceeded
  BY <1>6 DEF ReconcileSucceeded, Continue
<1>7. CASE SettleUsd
  BY <1>7 DEF SettleUsd, Continue
<1>8. CASE RecordFinality
  BY <1>8 DEF RecordFinality, Continue, EndRun
<1>9. CASE ReleaseWalletNonce
  BY <1>9 DEF ReleaseWalletNonce, Releasable, Continue
<1>10. CASE ReleaseRefused
  BY <1>10 DEF ReleaseRefused, EndRun
<1>11. CASE CompleteStage
  BY <1>11 DEF CompleteStage, EndRun
<1>12. CASE ReserveWalletNonce
  BY <1>12 DEF ReserveWalletNonce, Reservation, Continue
<1>13. CASE ReserveRefused
  BY <1>13 DEF ReserveRefused, EndRun
<1>14. CASE PrepareAttempt
  BY <1>14 DEF PrepareAttempt, Continue
<1>15. CASE ReserveUsd
  BY <1>15 DEF ReserveUsd, Continue
<1>16. CASE Sign
  BY <1>16 DEF Sign
<1>17. CASE RecordSigned
  BY <1>17 DEF RecordSigned
<1>18. CASE CheckSend
  BY <1>18 DEF CheckSend, Continue
<1>19. CASE Transmit
  BY <1>19 DEF Transmit, SendRecorded, Continue, EndRun
<1>20. CASE RecordBroadcast
  BY <1>20 DEF RecordBroadcast, Continue
<1>21. CASE GuardRefuses
  BY <1>21 DEF GuardRefuses, EndRun
<1>22. CASE Throw
  BY <1>22 DEF Throw, EndRun
<1>23. CASE Crash
  BY <1>23 DEF Crash, Releasable, Reservation
<1>24. CASE LeaseLapses
  BY <1>24 DEF LeaseLapses, Lapsed
<1>25. CASE WindowLapses
  <2>1. /\ Lapsed(journal) \in Reservations \cup {NoReservation}
        /\ Lapsed(key) \in Reservations \cup {NoReservation}
        /\ journal = key => Lapsed(journal) = Lapsed(key)
    BY DEF Lapsed
  <2>2. /\ Own(journal) => Own(Lapsed(journal))
        /\ Own(key) => Own(Lapsed(key))
        /\ Freed => /\ Lapsed(journal) # NoReservation /\ Lapsed(journal).state = "RELEASED"
                    /\ Lapsed(key) = NoReservation \/ Lapsed(key).owner = "other"
    BY DEF Lapsed
  <2>3. journal' = Lapsed(journal) /\ key' = Lapsed(key)
    BY <1>25 DEF WindowLapses
  <2>4. FenceInv' /\ DoneInv'
    BY <1>25, <2>1, <2>2, <2>3 DEF WindowLapses
  <2>5. failures' \in 0..MaxFailures /\ failures <= failures'
    BY <1>25 DEF WindowLapses
  <2>6. UNCHANGED <<record, pc, raw, seenHead, lease, network, signatures>>
    BY <1>25 DEF WindowLapses
  <2>7. TypeOK'
    <3>1. journal' \in Reservations \cup {NoReservation} /\ key' \in Reservations \cup {NoReservation}
      BY <2>1, <2>3
    <3>2. signatures' \in 0..(failures' + 1)
      <4>1. signatures \in 0..(failures + 1) /\ failures \in Nat
        OBVIOUS
      <4>2. signatures' = signatures /\ failures' \in Nat /\ failures <= failures'
        BY <2>5, <2>6
      <4> QED BY <4>1, <4>2, WiderBound
    <3> HIDE DEF Reservations
    <3> QED BY <2>5, <2>6, <3>1, <3>2
  <2>8. PhaseInv' /\ SignatureInv' /\ OneClaimOnChain' /\ BudgetInv'
    BY <2>5, <2>6
  <2> QED BY <2>4, <2>7, <2>8
<1>26. CASE HeadAdvances
  BY <1>26 DEF HeadAdvances
<1>27. CASE \E t \in Transactions : Finalize(t)
  BY <1>27 DEF Finalize
<1>28. CASE OtherTakesLease
  BY <1>28 DEF OtherTakesLease, Passed
<1>29. CASE OtherReserves
  BY <1>29 DEF OtherReserves
<1>30. CASE OtherSends
  BY <1>30 DEF OtherSends
<1>31. CASE OtherEnds
  BY <1>31 DEF OtherEnds
<1>32. CASE UNCHANGED vars
  BY <1>32 DEF vars
<1> QED BY <1>1, <1>2, <1>3, <1>4, <1>5, <1>6, <1>7, <1>8, <1>9, <1>10, <1>11, <1>12, <1>13, <1>14, <1>15, <1>16, <1>17, <1>18, <1>19, <1>20, <1>21, <1>22, <1>23, <1>24, <1>25, <1>26, <1>27, <1>28, <1>29, <1>30, <1>31, <1>32 DEF Next, Reconcile, Execute

LEMMA Inductive == Spec => []IInv
BY InitInvariant, StepInvariant, PTL DEF Spec

\* Nothing reaches the chain before the attempt is SIGNED: until then signedTx is 0,
\* which is no transaction.
LEMMA BudgetFromParts == IInv => BudgetFollowsChain
BY DEF IInv, Parts, TypeOK, SignatureInv, OneClaimOnChain, BudgetInv, BudgetFollowsChain,
       Transactions, OnChain, Journalled

LEMMA CompletionFromParts == IInv => CompletedClaimIsPaid
BY DEF IInv, Parts, BudgetInv, DoneInv, Freed, CompletedClaimIsPaid

\* Only Sign moves the signatures and only Transmit moves a claim to "pending";
\* both find the lease still the run's own.
LEMMA WalletStep ==
    ASSUME IInv, [Next]_vars,
           \/ signatures' # signatures
           \/ \E t \in Transactions : chain[t] = "unsent" /\ chain'[t] = "pending"
    PROVE  Own(key)
<1> USE DEF record, fence, network
<1>1. CASE Sign
  BY <1>1 DEF Sign, Fenced, IInv, Parts, FenceInv
<1>2. CASE Transmit
  BY <1>2 DEF Transmit, Fenced, IInv, Parts, FenceInv
<1>3. CASE \/ StartRun \/ Reconcile \/ GuardRefuses \/ ReconcileUnavailable \/ Throw \/ Crash
           \/ LeaseLapses \/ WindowLapses \/ HeadAdvances
           \/ OtherTakesLease \/ OtherReserves \/ OtherEnds \/ UNCHANGED vars
  BY <1>3 DEF StartRun, Reconcile, ReconcileNothing, ReconcileSigned, ReconcileReverted, ReconcileSucceeded,
              SettleUsd, RecordFinality, ReleaseWalletNonce, ReleaseRefused, CompleteStage, GuardRefuses,
              ReconcileUnavailable, Throw, Crash, LeaseLapses, WindowLapses, HeadAdvances,
              OtherTakesLease, OtherReserves, OtherEnds, vars
<1>4. CASE \/ ReserveWalletNonce \/ ReserveRefused \/ PrepareAttempt \/ ReserveUsd
           \/ RecordSigned \/ CheckSend \/ RecordBroadcast
  BY <1>4 DEF ReserveWalletNonce, ReserveRefused, PrepareAttempt, ReserveUsd, RecordSigned, CheckSend,
              RecordBroadcast
<1>5. CASE OtherSends
  BY <1>5 DEF OtherSends
<1>6. CASE \E t \in Transactions : Finalize(t)
  BY <1>6 DEF Finalize, IInv, TypeOK
<1> QED BY <1>1, <1>2, <1>3, <1>4, <1>5, <1>6 DEF Next, Execute

\* The journal, the budget and the run keep their shapes; signing again costs a
\* failure before recordSignedTransaction.
THEOREM TypeCorrect == Spec => []TypeOK
BY Inductive, PTL DEF IInv

\* Only the transaction whose bytes recordSignedTransaction wrote ever reaches
\* the chain, however many runs fail.
THEOREM AtMostOneClaim == Spec => []OneClaimOnChain
BY Inductive, PTL DEF IInv, Parts

\* reserveProcessClaimUsd precedes the claim on the chain and
\* finalizeProcessClaimUsd records how it ended.
THEOREM BudgetIsFaithful == Spec => []BudgetFollowsChain
BY Inductive, BudgetFromParts, PTL

\* Whatever another process does with the lease and the wallet, a run signs and
\* sends only while the wallet's global key holds its own reservation.
THEOREM SignsWithOwnWallet == Spec => UsesOwnWallet
BY Inductive, WalletStep, PTL DEF Spec, UsesOwnWallet

\* completeStage is reached only for a claim that is paid, accounted for and
\* released.
THEOREM CompletionIsPaid == Spec => []CompletedClaimIsPaid
BY Inductive, CompletionFromParts, PTL
=============================================================================
