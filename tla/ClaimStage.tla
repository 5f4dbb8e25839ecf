----------------------------- MODULE ClaimStage -----------------------------
(***************************************************************************)
(* The claim-process stage of one cycle, driven by successive runs of the  *)
(* automated cycle service: the chain attempt in the cycle's journal, the  *)
(* wallet nonce reservation in the journal and in the store's index, the   *)
(* USD budget entry, and the transaction on the chain.  A run reconciles,  *)
(* executes and reconciles again; it may throw or die at every await.      *)
(*                                                                         *)
(* Another process shares the lease and the wallet: once it holds the      *)
(* lease, it may use the wallet for another cycle (a payout retry or a     *)
(* supplementary settlement) while a run of this one that lost its lease   *)
(* is still going on.                                                      *)
(*                                                                         *)
(* Time appears as the order of three kinds of events: a lease is          *)
(* acquired, a lease lapses, the window of a reservation lapses.  A        *)
(* reservation may be taken over by a run that acquired its lease after    *)
(* the window lapsed, which is what "past" means.                          *)
(***************************************************************************)
EXTENDS Integers

CONSTANTS
    MaxFailures, \* bound: throws, deaths, lost messages and lapses in a run
    MaxHead,     \* bound: how often the finalized head moves
    NoReservation

ASSUME BoundsAssumption == MaxFailures \in Nat /\ MaxHead \in Nat

Transactions == 1..(MaxFailures + 1)

Reservations ==
    [owner : {"this", "earlier", "other"}, window : {"open", "lapsed", "past"}, state : {"HELD", "RELEASED"}]

ASSUME NoReservationAssumption == NoReservation \notin Reservations

VARIABLES
    attempt,      \* state of the stage's chain attempt in the journal
    signedTx,     \* the transaction recorded with it, 0 before
    finalityHead, \* the finalized head recorded with the finality evidence
    usd,          \* this cycle's entry of the process USD budget
    journal,      \* the wallet nonce reservation replayed from the journal
    key,          \* the wallet nonce reservation under its global key
    complete,     \* the stage is COMPLETE
    pc,           \* where the run is, "idle" without one
    raw,          \* the signature the run has not recorded yet, 0 without one
    seenHead,     \* the finalized head of the run's observation
    lease,        \* the cycle lease: "none", "live" or "lapsed" of a run of this
                  \* cycle, "taken" by another process, "using" the wallet
    chain,        \* what the chain knows of every transaction ever signed
    signatures,   \* how many were signed
    head,         \* the finalized head
    failures

record == <<attempt, signedTx, finalityHead, usd, complete>>
fence == <<journal, key>>
network == <<chain, head>>
vars == <<attempt, signedTx, finalityHead, usd, journal, key, complete, pc, raw, seenHead,
          lease, chain, signatures, head, failures>>

Reconciling == {"reconcile1", "reconcile2"}
OnChain == {"pending", "success", "reverted"}
Elsewhere == {"taken", "using"}

\* The steps that call through a capability or repository fenced by assertLease.
FencedSteps == Reconciling \cup {"settle", "finality", "release", "complete", "signature", "transmit"}
NonceSteps == {"sign", "signature", "send"}
Steps == {"idle", "reserve", "attempt", "recordSigned", "recordBroadcast"} \cup FencedSteps \cup NonceSteps

Init ==
    /\ attempt = "none" /\ signedTx = 0 /\ finalityHead = 0 /\ usd = "none" /\ complete = FALSE
    /\ journal = NoReservation /\ key = NoReservation
    /\ pc = "idle" /\ raw = 0 /\ seenHead = 0 /\ lease = "none"
    /\ chain = [t \in Transactions |-> "unsent"]
    /\ signatures = 0 /\ head = 0 /\ failures = 0

-----------------------------------------------------------------------------
(* Runs *)

\* How the window of a reservation looks to a run whose lease starts now.
Passed(r) ==
    IF r # NoReservation /\ r.window = "lapsed" THEN [r EXCEPT !.window = "past"] ELSE r

\* How a reservation looks to the next run of the stage.
Aged(r) ==
    IF r # NoReservation /\ r.owner = "this" THEN [Passed(r) EXCEPT !.owner = "earlier"] ELSE Passed(r)

\* A tick acquires the lease with a fresh fencing token and reaches the stage.
\* Runs of the stage itself do not overlap.
StartRun ==
    /\ pc = "idle" /\ ~complete /\ lease \in {"none", "lapsed"}
    /\ lease' = "live"
    /\ pc' = "reconcile1"
    /\ journal' = Aged(journal) /\ key' = Aged(key)
    /\ UNCHANGED <<record, raw, seenHead, network, signatures, failures>>

\* The finally block of a run: the lease is released if it is still owned.
EndRun ==
    /\ pc' = "idle" /\ raw' = 0
    /\ lease' = IF lease = "live" THEN "none" ELSE lease

Fenced == lease = "live"

Continue(step) == pc' = step /\ UNCHANGED <<raw, lease>>

-----------------------------------------------------------------------------
(* reconcileLiveClaimProcess *)

\* No evidence: the first time the run executes, the second time it throws
\* "remains unresolved after execution".
Unresolved ==
    \/ pc = "reconcile1" /\ Continue("reserve")
    \/ pc = "reconcile2" /\ EndRun

ReconcileNothing ==
    /\ pc \in Reconciling /\ Fenced
    /\ \/ attempt \in {"none", "PREPARED"}
       \/ attempt = "SIGNED" /\ chain[signedTx] \notin OnChain
       \/ attempt \in {"BROADCAST", "FINALIZED"} /\ chain[signedTx] = "pending"
    /\ Unresolved
    /\ UNCHANGED <<record, fence, seenHead, network, signatures, failures>>

\* A read fails: the answer is "no evidence", not an error.
ReconcileUnavailable ==
    /\ pc \in Reconciling /\ Fenced /\ failures < MaxFailures
    /\ attempt \in {"SIGNED", "BROADCAST", "FINALIZED"}
    /\ Unresolved
    /\ failures' = failures + 1
    /\ UNCHANGED <<record, fence, seenHead, network, signatures>>

\* The signed transaction is visible although its broadcast was never recorded.
ReconcileSigned ==
    /\ pc \in Reconciling /\ Fenced
    /\ attempt = "SIGNED" /\ chain[signedTx] \in OnChain
    /\ attempt' = "BROADCAST"
    /\ Continue(pc)
    /\ UNCHANGED <<signedTx, finalityHead, usd, complete, fence, seenHead, network, signatures, failures>>

\* A finalized revert settles the budget entry and throws.
ReconcileReverted ==
    /\ pc \in Reconciling /\ Fenced
    /\ attempt \in {"BROADCAST", "FINALIZED"} /\ chain[signedTx] = "reverted"
    /\ usd' = "REVERTED"
    /\ EndRun
    /\ UNCHANGED <<attempt, signedTx, finalityHead, complete, fence, seenHead, network, signatures, failures>>

\* Fault: the status of the finalized receipt is not looked at.
ReconcileAnyReceipt ==
    /\ pc \in Reconciling /\ Fenced
    /\ attempt \in {"BROADCAST", "FINALIZED"} /\ chain[signedTx] \in {"success", "reverted"}
    /\ seenHead' = head
    /\ Continue("settle")
    /\ UNCHANGED <<record, fence, network, signatures, failures>>

\* The evidence names the finalized head at the time of the observation.
ReconcileSucceeded ==
    /\ pc \in Reconciling /\ Fenced
    /\ attempt \in {"BROADCAST", "FINALIZED"} /\ chain[signedTx] = "success"
    /\ seenHead' = head
    /\ Continue("settle")
    /\ UNCHANGED <<record, fence, network, signatures, failures>>

\* recordClaimCustodyLedger and finalizeProcessClaimUsd, both repeatable.
SettleUsd ==
    /\ pc = "settle" /\ Fenced
    /\ usd' = "CONFIRMED"
    /\ Continue("finality")
    /\ UNCHANGED <<attempt, signedTx, finalityHead, complete, fence, seenHead, network, signatures, failures>>

\* recordFinality accepts a repetition only with the very same evidence.
RecordFinality ==
    /\ pc = "finality" /\ Fenced
    /\ \/ /\ attempt = "BROADCAST"
          /\ attempt' = "FINALIZED" /\ finalityHead' = seenHead
          /\ Continue("release")
       \/ /\ attempt = "FINALIZED" /\ seenHead = finalityHead
          /\ Continue("release")
          /\ UNCHANGED <<attempt, finalityHead>>
       \/ /\ attempt = "FINALIZED" /\ seenHead # finalityHead
          /\ EndRun
          /\ UNCHANGED <<attempt, finalityHead>>
    /\ UNCHANGED <<signedTx, usd, complete, fence, seenHead, network, signatures, failures>>

Own(r) == r # NoReservation /\ r.owner = "this"

\* releaseWalletNonce throws unless the journal's reservation carries the
\* run's fencing token and the global key has no newer one.
Releasable == Own(journal) /\ (key = NoReservation \/ Own(key))

\* Fault: the journal entry is written, the global key is left behind.
ReleaseJournalOnly ==
    /\ pc = "release" /\ Fenced /\ Releasable
    /\ journal' = [journal EXCEPT !.state = "RELEASED"]
    /\ Continue("complete")
    /\ UNCHANGED <<record, key, seenHead, network, signatures, failures>>

ReleaseWalletNonce ==
    /\ pc = "release" /\ Fenced /\ Releasable
    /\ journal' = [journal EXCEPT !.state = "RELEASED"] /\ key' = NoReservation
    /\ Continue("complete")
    /\ UNCHANGED <<record, seenHead, network, signatures, failures>>

ReleaseRefused ==
    /\ pc = "release" /\ Fenced /\ ~Releasable
    /\ EndRun
    /\ UNCHANGED <<record, fence, seenHead, network, signatures, failures>>

\* completeStage wants every chain attempt of the stage finalized; the run then
\* goes on with the next stage, and its end is folded in.
CompleteStage ==
    /\ pc = "complete" /\ Fenced /\ attempt = "FINALIZED"
    /\ complete' = TRUE
    /\ EndRun
    /\ UNCHANGED <<attempt, signedTx, finalityHead, usd, fence, seenHead, network, signatures, failures>>

-----------------------------------------------------------------------------
(* mutateClaimProcess *)

\* Fault: a held reservation of an earlier run is never replaced.
ReservableNever(r) ==
    r # NoReservation => r.state = "RELEASED" \/ (r.owner = "this" /\ r.window = "open")

\* A reservation that a new one may replace: none, an idempotent repetition,
\* a released one, or one whose window had lapsed before this run's lease.
Reservable(r) ==
    r # NoReservation => \/ r.state = "RELEASED"
                         \/ r.owner = "this" /\ r.window = "open"
                         \/ r.owner # "this" /\ r.window = "past"

CanReserve == lease = "live" /\ Reservable(journal) /\ Reservable(key)

Reservation == [owner |-> "this", window |-> "open", state |-> "HELD"]

\* reserveWalletNonce followed by assertWalletNonce.
ReserveWalletNonce ==
    /\ pc = "reserve" /\ CanReserve
    /\ journal' = Reservation /\ key' = Reservation
    /\ Continue("attempt")
    /\ UNCHANGED <<record, seenHead, network, signatures, failures>>

ReserveRefused ==
    /\ pc = "reserve" /\ ~CanReserve
    /\ EndRun
    /\ UNCHANGED <<record, fence, seenHead, network, signatures, failures>>

\* The attempt is prepared before anything is signed; a later run goes on
\* where the journal says the attempt is.
PrepareAttempt ==
    /\ pc = "attempt"
    /\ attempt' = IF attempt = "none" THEN "PREPARED" ELSE attempt
    /\ Continue(IF attempt \in {"none", "PREPARED"} THEN "sign"
                ELSE IF attempt = "SIGNED" THEN "send" ELSE "reconcile2")
    /\ UNCHANGED <<signedTx, finalityHead, usd, complete, fence, seenHead, network, signatures, failures>>

\* assertWalletNonce
NonceHeld == Own(journal) /\ journal.state = "HELD" /\ journal.window = "open"

\* assertWalletNonce and reserveProcessClaimUsd, before the signer is called.
ReserveUsd ==
    /\ pc = "sign" /\ NonceHeld /\ usd \in {"none", "RESERVED"}
    /\ usd' = "RESERVED"
    /\ Continue("signature")
    /\ UNCHANGED <<attempt, signedTx, finalityHead, complete, fence, seenHead, network, signatures, failures>>

\* The signer, behind the lease and the nonce fence.
Sign ==
    /\ pc = "signature" /\ Fenced /\ NonceHeld
    /\ signatures' = signatures + 1 /\ raw' = signatures + 1
    /\ pc' = "recordSigned"
    /\ UNCHANGED <<record, fence, seenHead, lease, network, failures>>

\* Fault: the signature is sent first and recorded with the broadcast.
SendUnrecorded ==
    /\ pc = "recordSigned" /\ attempt = "PREPARED"
    /\ chain' = [chain EXCEPT ![raw] = "pending"]
    /\ \/ attempt' = "SIGNED" /\ signedTx' = raw /\ raw' = 0 /\ pc' = "send" /\ UNCHANGED <<lease, failures>>
       \/ /\ failures < MaxFailures /\ failures' = failures + 1
          /\ EndRun /\ UNCHANGED <<attempt, signedTx>>
    /\ UNCHANGED <<finalityHead, usd, complete, fence, seenHead, head, signatures>>

\* recordSignedTransaction
RecordSigned ==
    /\ pc = "recordSigned" /\ attempt = "PREPARED"
    /\ attempt' = "SIGNED" /\ signedTx' = raw
    /\ raw' = 0 /\ pc' = "send"
    /\ UNCHANGED <<finalityHead, usd, complete, fence, seenHead, lease, network, signatures, failures>>

\* assertWalletNonce and the idempotent budget reservation, once more.
CheckSend ==
    /\ pc = "send" /\ NonceHeld /\ usd \in {"none", "RESERVED"}
    /\ usd' = "RESERVED"
    /\ Continue("transmit")
    /\ UNCHANGED <<attempt, signedTx, finalityHead, complete, fence, seenHead, network, signatures, failures>>

\* sendRawTransaction: the node takes the recorded bytes, unless their nonce
\* was used by another transaction.  The answer may be lost, and so may the
\* request.
SendRecorded ==
    \/ /\ chain[signedTx] # "void"
       /\ chain' = [chain EXCEPT ![signedTx] = IF @ = "unsent" THEN "pending" ELSE @]
       /\ Continue("recordBroadcast")
       /\ UNCHANGED failures
    \/ /\ chain[signedTx] = "void"
       /\ EndRun
       /\ UNCHANGED <<chain, failures>>
    \/ /\ failures < MaxFailures /\ failures' = failures + 1
       /\ \E arrived \in BOOLEAN :
             chain' = [chain EXCEPT ![signedTx] = IF arrived /\ @ = "unsent" THEN "pending" ELSE @]
       /\ EndRun

\* Fault: the client is handed to the stage without the lease fence.
TransmitUnfenced ==
    /\ pc = "transmit" /\ SendRecorded
    /\ UNCHANGED <<record, fence, seenHead, head, signatures>>

\* The client is fenced by the lease alone: assertWalletNonce lies one budget
\* transaction back.
Transmit ==
    /\ pc = "transmit" /\ Fenced /\ SendRecorded
    /\ UNCHANGED <<record, fence, seenHead, head, signatures>>

\* recordBroadcast
RecordBroadcast ==
    /\ pc = "recordBroadcast" /\ attempt = "SIGNED"
    /\ attempt' = "BROADCAST"
    /\ Continue("reconcile2")
    /\ UNCHANGED <<signedTx, finalityHead, usd, complete, fence, seenHead, network, signatures, failures>>

-----------------------------------------------------------------------------
(* Failures *)

\* A guard notices that the lease or the reservation is gone.
GuardRefuses ==
    /\ \/ pc \in FencedSteps /\ ~Fenced
       \/ pc \in NonceSteps /\ ~NonceHeld
       \/ pc \in {"sign", "send"} /\ usd \in {"CONFIRMED", "REVERTED"}
    /\ EndRun
    /\ UNCHANGED <<record, fence, seenHead, network, signatures, failures>>

\* A call throws: policy, authority, budget or node.
Throw ==
    /\ pc # "idle" /\ failures < MaxFailures
    /\ failures' = failures + 1
    /\ EndRun
    /\ UNCHANGED <<record, fence, seenHead, network, signatures>>

\* The process dies.  Between the two writes of a reservation or a release
\* the index is ahead of the journal.
Crash ==
    /\ pc # "idle" /\ failures < MaxFailures
    /\ failures' = failures + 1
    /\ pc' = "idle" /\ raw' = 0
    /\ \/ UNCHANGED key
       \/ pc = "reserve" /\ CanReserve /\ key' = Reservation
       \/ pc = "release" /\ Fenced /\ Releasable /\ key' = NoReservation
    /\ UNCHANGED <<record, journal, seenHead, lease, network, signatures>>

Lapsed(r) ==
    IF r # NoReservation /\ r.window = "open" THEN [r EXCEPT !.window = "lapsed"] ELSE r

\* The lease runs out: of a dead run, or of one that stalls.  A reservation's
\* window never ends after the lease it was made under.
LeaseLapses ==
    /\ lease = "live"
    /\ \/ pc = "idle" /\ UNCHANGED failures
       \/ pc # "idle" /\ failures < MaxFailures /\ failures' = failures + 1
    /\ lease' = "lapsed"
    /\ journal' = Lapsed(journal) /\ key' = Lapsed(key)
    /\ UNCHANGED <<record, pc, raw, seenHead, network, signatures>>

\* The window of a reservation lapses: of an earlier run, or of this one, whose
\* lease the heartbeat renewed.
WindowLapses ==
    /\ \E r \in {journal, key} : r # NoReservation /\ r.window = "open"
    /\ \/ (pc = "idle" \/ ~(Own(journal) \/ Own(key))) /\ UNCHANGED failures
       \/ pc # "idle" /\ failures < MaxFailures /\ failures' = failures + 1
    /\ journal' = Lapsed(journal) /\ key' = Lapsed(key)
    /\ UNCHANGED <<record, pc, raw, seenHead, lease, network, signatures>>

-----------------------------------------------------------------------------
(* Another process *)

\* It acquires a lease that is free or has lapsed, also that of a run of this
\* stage which stalls and goes on later.
OtherTakesLease ==
    /\ lease \in {"none", "lapsed"} /\ failures < MaxFailures
    /\ lease' = "taken" /\ failures' = failures + 1
    /\ journal' = Passed(journal) /\ key' = Passed(key)
    /\ UNCHANGED <<record, pc, raw, seenHead, network, signatures>>

\* reserveWalletNonce for another cycle: the journal of this one must hold no
\* unexpired reservation, and the global key none that may not be taken over.
OtherReserves ==
    /\ lease = "taken"
    /\ journal # NoReservation => journal.state = "RELEASED" \/ journal.window # "open"
    /\ key # NoReservation => key.window = "past"
    /\ key' = [owner |-> "other", window |-> "open", state |-> "HELD"]
    /\ lease' = "using"
    /\ UNCHANGED <<record, journal, pc, raw, seenHead, network, signatures, failures>>

\* Its transaction takes the wallet's next nonce, which every claim signed and
\* not sent so far carries.
OtherSends ==
    /\ lease = "using"
    /\ chain' = [t \in Transactions |->
                    IF t <= signatures /\ chain[t] = "unsent" THEN "void" ELSE chain[t]]
    /\ UNCHANGED <<record, fence, pc, raw, seenHead, lease, signatures, head, failures>>

\* Its run ends or dies, with the reservation released or left behind.
OtherEnds ==
    /\ lease \in Elsewhere
    /\ lease' = "none"
    /\ key' \in {key} \cup (IF lease = "using" THEN {NoReservation} ELSE {})
    /\ UNCHANGED <<record, journal, pc, raw, seenHead, network, signatures, failures>>

-----------------------------------------------------------------------------
(* The chain *)

\* A pending claim is included and finalized.  The hook refuses a cycle id it
\* has already paid.
Finalize(t) ==
    /\ chain[t] = "pending"
    /\ \E outcome \in {"success", "reverted"} :
          /\ outcome = "success" => \A u \in Transactions : chain[u] # "success"
          /\ chain' = [chain EXCEPT ![t] = outcome]
    /\ UNCHANGED <<record, fence, pc, raw, seenHead, lease, signatures, head, failures>>

HeadAdvances ==
    /\ head < MaxHead
    /\ head' = head + 1
    /\ UNCHANGED <<record, fence, pc, raw, seenHead, lease, chain, signatures, failures>>

Reconcile ==
    \/ ReconcileNothing \/ ReconcileSigned \/ ReconcileReverted \/ ReconcileSucceeded
    \/ SettleUsd \/ RecordFinality \/ ReleaseWalletNonce \/ ReleaseRefused \/ CompleteStage

Execute ==
    \/ ReserveWalletNonce \/ ReserveRefused \/ PrepareAttempt \/ ReserveUsd \/ Sign
    \/ RecordSigned \/ CheckSend \/ Transmit \/ RecordBroadcast

Next ==
    \/ StartRun \/ Reconcile \/ Execute \/ GuardRefuses
    \/ ReconcileUnavailable \/ Throw \/ Crash \/ LeaseLapses \/ WindowLapses
    \/ OtherTakesLease \/ OtherReserves \/ OtherSends \/ OtherEnds
    \/ HeadAdvances
    \/ \E t \in Transactions : Finalize(t)

Spec == Init /\ [][Next]_vars

\* The scheduler keeps ticking, a run that is not interrupted goes on, time
\* passes for the lease of a dead run and for windows that are open, the other
\* process gives the lease back or dies, and the chain finalizes what it has
\* taken.
Fairness ==
    /\ WF_vars(StartRun)
    /\ WF_vars(Reconcile \/ Execute \/ GuardRefuses)
    /\ WF_vars(pc = "idle" /\ LeaseLapses)
    /\ WF_vars(WindowLapses)
    /\ WF_vars(OtherEnds)
    /\ WF_vars(\E t \in Transactions : Finalize(t))

FairSpec == Spec /\ Fairness

-----------------------------------------------------------------------------
(* Properties *)

\* The journal, the budget and the run have the shapes the repository checks;
\* only a failure before recordSignedTransaction costs another signature.
TypeOK ==
    /\ attempt \in {"none", "PREPARED", "SIGNED", "BROADCAST", "FINALIZED"}
    /\ signedTx \in 0..signatures /\ raw \in 0..signatures
    /\ usd \in {"none", "RESERVED", "CONFIRMED", "REVERTED"}
    /\ complete \in BOOLEAN
    /\ journal \in Reservations \cup {NoReservation} /\ key \in Reservations \cup {NoReservation}
    /\ pc \in Steps
    /\ lease \in {"none", "live", "lapsed"} \cup Elsewhere
    /\ chain \in [Transactions -> {"unsent", "void"} \cup OnChain]
    /\ failures \in 0..MaxFailures
    /\ signatures \in 0..(failures + 1)
    /\ head \in 0..MaxHead /\ seenHead \in 0..head /\ finalityHead \in 0..head

\* Whatever fails and however often the stage is resumed, the chain only ever
\* sees the one transaction whose bytes the journal holds (mutateClaimProcess
\* records the signature before it sends and never signs again after that).
OneClaimOnChain == \A t \in Transactions : chain[t] \in OnChain => t = signedTx

\* The budget entry exists before the claim can reach the chain and ends as
\* the chain ended (reserveProcessClaimUsd, finalizeProcessClaimUsd).
BudgetFollowsChain ==
    /\ (\E t \in Transactions : chain[t] \in OnChain) => usd # "none"
    /\ usd = "CONFIRMED" => chain[signedTx] = "success"
    /\ usd = "REVERTED" => chain[signedTx] = "reverted"
    /\ attempt = "FINALIZED" => usd = "CONFIRMED"

\* A run of the stage signs a claim, or puts one on the chain, only while the
\* wallet's global key is its own: one that stalls and loses its lease to a
\* process which reserves the wallet for another cycle neither signs nor sends
\* when it goes on, and neither does one behind the half-written reservation of
\* a dead run (assertLease and the nonce fence of guardedSignerRole).
UsesOwnWallet ==
    [][(\/ signatures' # signatures
        \/ \E t \in Transactions : chain[t] = "unsent" /\ chain'[t] = "pending")
            => Own(key)]_vars

\* A completed stage is paid, accounted for, and has let go of the wallet.
CompletedClaimIsPaid ==
    complete => /\ attempt = "FINALIZED" /\ chain[signedTx] = "success" /\ usd = "CONFIRMED"
                /\ journal.state = "RELEASED"
                /\ key = NoReservation \/ key.owner = "other"

\* However the runs fail, once failures stop the claim reaches the chain and
\* its outcome reaches the journal or the budget: a reservation left behind, by
\* this cycle or another, delays later runs and does not stop them
\* (reserveWalletNonce's takeover).  The exception is a recorded claim whose
\* nonce another cycle used before it was sent: mutateClaimProcess sends the
\* same bytes again and never signs others.
ClaimIsSettled ==
    <>(attempt = "FINALIZED" \/ usd = "REVERTED" \/ (signedTx # 0 /\ chain[signedTx] = "void"))

\* A claim whose finality is recorded is completed by this run or a later one
\* (reconcileLiveClaimProcess is meant to be repeatable across restarts).
FinalizedClaimCompletes == attempt = "FINALIZED" ~> complete
=============================================================================
