------------------------------- MODULE Payout -------------------------------
(***************************************************************************)
(* The direct payout of adapters/src/app/stages/payout.mjs: one native     *)
(* transfer per recipient of a frozen plan, signed by the Operations       *)
(* wallet, plus the retries of refused transfers that an operator asks     *)
(* for.  A transfer is an attempt <<i, k>>: k = 0 is the transfer of the   *)
(* plan to recipient i, k > 0 its k-th retry.                              *)
(*                                                                         *)
(* State is kept in three places that change in separate steps: the paged  *)
(* payout state, the quarantine journal of the cycle repository, and the   *)
(* chain, which includes, finalizes, drops and reorganizes transactions    *)
(* between any two reads.  A run of the service can end between any two    *)
(* writes; the next one holds another lease and another fencing token, so  *)
(* an attempt only remembers whether the token it was signed under is that *)
(* of the run in progress (fenced).                                        *)
(*                                                                         *)
(* Amounts, gas, fees and feasibility are left out: the plan is admitted.  *)
(***************************************************************************)
EXTENDS Integers, Sequences, FiniteSets, SequencesExt

CONSTANTS
    N,               \* recipients of the plan, in its order
    Window,          \* state.inFlightWindow
    MaxRetries,      \* bound: retries of one recipient
    Faults,          \* the faults that may happen
    MaxFaults        \* bound: how many of them

ASSUME PayoutAssumption ==
    /\ N \in Nat \ {0} /\ Window \in Nat \ {0}
    /\ MaxRetries \in Nat /\ MaxFaults \in Nat
    /\ Faults \subseteq {"crash", "drop", "foreign", "reorg"}

Recipient == 1..N
Attempts == Recipient \X (0..MaxRetries)
Original(i) == <<i, 0>>
IsRetry(t) == t[2] > 0

NoNonce == -1

RESOLVED == {"FINALIZED", "REFUSED", "NONCE_INTERFERENCE"}
IN_FLIGHT == {"SIGNED", "BROADCAST"}

VARIABLES
    attempt,      \* payout state: [state, nonce, fenced] of every attempt
    nextNonce,    \* payout state
    quarantine,   \* payout state: recipients whose amount is a liability
    reservation,  \* repository: evidence a recipient was quarantined with
    retry,        \* repository: what became of a requested retry
    fresh,        \* recipients whose evidence names the present finalized head
    status,       \* chain: what became of an attempt's transaction
    latest,       \* chain: nonces used by the latest block
    final,        \* chain: nonces used by the finalized block
    phase, work, progressed,   \* the run in progress
    wallet,       \* whose token the wallet nonce reservation carries
    settled,      \* the payout stage is complete
    faults

payoutState == <<attempt, nextNonce, quarantine>>
repository == <<reservation, retry, fresh>>
chain == <<status, latest, final>>
runVars == <<phase, work, progressed, wallet, settled>>
vars == <<payoutState, repository, chain, runVars, faults>>

NoEvidence == [reason |-> "none", observed |-> 0]

Init ==
    /\ attempt = [t \in Attempts |->
                    [state |-> IF IsRetry(t) THEN "none" ELSE "PREPARED",
                     nonce |-> NoNonce, fenced |-> FALSE]]
    /\ nextNonce = NoNonce /\ quarantine = {}
    /\ reservation = [i \in Recipient |-> NoEvidence]
    /\ retry = [t \in Attempts |-> "none"]
    /\ fresh = {}
    /\ status = [t \in Attempts |-> "unsent"]
    /\ latest = 0 /\ final = 0
    /\ phase = "idle" /\ work = << >> /\ progressed = FALSE
    /\ wallet = "none" /\ settled = FALSE
    /\ faults = 0

-----------------------------------------------------------------------------
(* The chain, as the client of the Operations wallet reads it *)

Included(t) == status[t] \in {"ok", "reverted"}

\* Fault: a receipt is as good as a finalized receipt.
AnyReceipt(t) == Included(t)

\* readFinalizedTransactionReceipt
Finalized(t) == Included(t) /\ attempt[t].nonce < final

\* getTransaction finds it.
Visible(t) == Included(t) \/ (status[t] = "pool" /\ attempt[t].nonce >= latest)

\* getTransactionCount at the pending block: the node counts what is pooled
\* without a gap.
Pending ==
    LET pooled == {attempt[t].nonce : t \in {u \in Attempts : status[u] = "pool"}}
    IN  latest + Cardinality({n \in latest .. (latest + Cardinality(Attempts)) :
                                 \A m \in latest .. n : m \in pooled})

\* A transaction is included whatever its sender's client sees of it.
Include(t, result) ==
    /\ status[t] \in {"pool", "dropped"} /\ attempt[t].nonce = latest
    /\ status' = [status EXCEPT ![t] = result]
    /\ latest' = latest + 1
    /\ UNCHANGED <<final, payoutState, repository, runVars, faults>>

Finalize ==
    /\ final < latest
    /\ final' = final + 1
    /\ UNCHANGED <<status, latest, payoutState, repository, runVars, faults>>

\* Blocks without a transaction of the wallet are finalized as well.
HeadAdvances ==
    /\ fresh # {}
    /\ fresh' = {}
    /\ UNCHANGED <<chain, payoutState, reservation, retry, runVars, faults>>

Fault(kind) == kind \in Faults /\ faults < MaxFaults /\ faults' = faults + 1

\* The client's node forgets a transaction.
Drop(t) ==
    /\ status[t] = "pool" /\ attempt[t].nonce >= latest
    /\ Fault("drop")
    /\ status' = [status EXCEPT ![t] = "dropped"]
    /\ UNCHANGED <<latest, final, payoutState, repository, runVars>>

\* Another transaction of the wallet takes a nonce.
ForeignUse ==
    /\ Fault("foreign")
    /\ latest' = latest + 1
    /\ UNCHANGED <<status, final, payoutState, repository, runVars>>

\* The block of the last transaction is reorganized away; a transaction of
\* others would come back with its replacement.
Reorganize(t) ==
    /\ Included(t) /\ attempt[t].nonce = latest - 1 /\ latest > final
    /\ Fault("reorg")
    /\ latest' = latest - 1
    /\ status' = [status EXCEPT ![t] = "pool"]
    /\ UNCHANGED <<final, payoutState, repository, runVars>>

-----------------------------------------------------------------------------
(* The frozen plan *)

State(i) == attempt[Original(i)].state

OpenRetry(i) ==
    \E k \in 1..MaxRetries : attempt[<<i, k>>].state \in {"PREPARED"} \cup IN_FLIGHT

Paid(i) == \E k \in 0..MaxRetries : attempt[<<i, k>>].state = "FINALIZED"

\* isDirectPayoutComplete: with amounts left out, conservation says that every
\* recipient is either paid or in quarantine.
Complete ==
    \A i \in Recipient :
        /\ State(i) \in RESOLVED /\ ~OpenRetry(i)
        /\ Paid(i) # (i \in quarantine)

\* inFlightWindowRecipients: those in flight up to the first PREPARED one,
\* and that one when the window has room.
InFlightWindow(j) ==
    LET prepared == {i \in Recipient : State(i) = "PREPARED"}
        ahead == {i \in 1..(j - 1) : State(i) \in IN_FLIGHT}
    IN  /\ State(j) \notin RESOLVED
        /\ \A i \in prepared : j <= i
        /\ j \in prepared => Cardinality(ahead) < Window

InFlightWindowRecipients == {Original(j) : j \in {i \in Recipient : InFlightWindow(i)}}

\* A set of attempts in the order of the plan.
PlanOrder(S) == {s \in SetToSeqs(S) : \A m, n \in DOMAIN s : m < n => s[m][1] < s[n][1]}

-----------------------------------------------------------------------------
(* Runs *)

Unfenced == [t \in Attempts |-> [attempt[t] EXCEPT !.fenced = FALSE]]

\* listOpenPayoutRetries: unresolved retries, and resolved ones that the payout
\* state does not show yet.
OpenPayoutRetries ==
    {t \in Attempts : \/ retry[t] = "open"
                      \/ retry[t] \in {"REFUSED", "settled"} /\ attempt[t].state \notin RESOLVED}

\* A run starts under a token of its own, with the open retries.
BeginRun ==
    /\ phase = "idle"
    /\ ~settled \/ OpenPayoutRetries # {}
    /\ phase' = "retries" /\ work' \in SetToSeqs(OpenPayoutRetries)
    /\ progressed' = FALSE
    /\ attempt' = Unfenced
    /\ wallet' = IF wallet = "none" THEN "none" ELSE "other"
    /\ UNCHANGED <<nextNonce, quarantine, settled, repository, chain, faults>>

\* The retries are done; the payout of the active cycle follows.
RetriesDone ==
    /\ phase = "retries" /\ work = << >>
    /\ phase' = IF settled THEN "idle" ELSE "begun"
    /\ UNCHANGED <<work, progressed, wallet, settled, payoutState, repository, chain, faults>>

Target == Head(work)

\* The run is over.
Abandon ==
    /\ phase' = "idle" /\ work' = << >> /\ progressed' = FALSE
    /\ UNCHANGED <<wallet, settled>>

\* The service catches what a retry throws and goes on with the next one.
NextRetry ==
    /\ phase' = "retries" /\ work' = Tail(work)
    /\ UNCHANGED <<progressed, wallet, settled>>

Throw == IF IsRetry(Target) THEN NextRetry ELSE Abandon

\* A boundary of the target is persisted; a retry stays the target.
Persisted ==
    /\ phase' = IF IsRetry(Target) THEN "retry" ELSE "pass"
    /\ work' = IF IsRetry(Target) THEN work ELSE Tail(work)
    /\ progressed' = TRUE
    /\ UNCHANGED <<wallet, settled>>

\* The target is left as it is.
Unchanged ==
    /\ phase' = IF IsRetry(Target) THEN "retries" ELSE "pass"
    /\ work' = Tail(work)
    /\ UNCHANGED <<progressed, wallet, settled>>

Goto(p) == phase' = p /\ UNCHANGED <<work, progressed, wallet, settled>>

\* mutatePayout up to the first pass: reserveDirectPayoutWalletNonce and
\* ensureDirectPayoutState.  That the reservation is refused while the window
\* of an earlier one is open only delays the run and is left out.
Mutate ==
    /\ phase = "begun" /\ ~Complete
    /\ phase' = "pass" /\ progressed' = TRUE /\ wallet' = "current"
    /\ nextNonce' = IF nextNonce = NoNonce THEN Pending ELSE nextNonce
    /\ UNCHANGED <<attempt, quarantine, work, settled, repository, chain, faults>>

\* advanceDirectPayoutUntilPending, between two passes.
NextPass ==
    /\ phase = "pass" /\ work = << >> /\ ~Complete
    /\ IF progressed /\ InFlightWindowRecipients # {}
       THEN /\ work' \in PlanOrder(InFlightWindowRecipients) /\ progressed' = FALSE
            /\ UNCHANGED <<phase, wallet, settled>>
       ELSE Abandon
    /\ UNCHANGED <<payoutState, repository, chain, faults>>

\* releaseDirectPayoutWalletNonce.
ReleaseWalletNonce ==
    /\ phase = "pass" /\ work = << >> /\ Complete
    /\ phase' = "released"
    /\ UNCHANGED <<work, progressed, wallet, settled, payoutState, repository, chain, faults>>

\* reconcileLivePayout, before and after the mutation of a run.  The release
\* in recoverDirectPayoutWalletNonce is refused, with a message it does not
\* recognize, when the reservation carries another token.
Reconcile ==
    /\ phase \in {"begun", "released"} /\ Complete
    /\ IF wallet = "current"
       THEN /\ settled' = TRUE
            /\ phase' = "idle" /\ progressed' = FALSE
            /\ UNCHANGED <<work, wallet>>
       ELSE Abandon
    /\ UNCHANGED <<payoutState, repository, chain, faults>>

\* The process dies, or an RPC request of the run fails.
Crash ==
    /\ phase # "idle"
    /\ Fault("crash")
    /\ Abandon
    /\ UNCHANGED <<payoutState, repository, chain>>

-----------------------------------------------------------------------------
(* The boundaries of an attempt *)

Active(states) ==
    /\ phase \in {"pass", "retry"} /\ work # << >>
    /\ attempt[Target].state \in states

SetState(t, s) == attempt' = [attempt EXCEPT ![t].state = s]

\* A nonce is reserved only while it is the next the chain will take.
ReserveNonce ==
    /\ Active({"PREPARED"}) /\ attempt[Target].nonce = NoNonce
    /\ IF IF IsRetry(Target) THEN Pending >= nextNonce ELSE Pending = nextNonce
       THEN /\ attempt' = [attempt EXCEPT ![Target].nonce = Pending]
            /\ nextNonce' = Pending + 1
            /\ Persisted
       ELSE Throw /\ UNCHANGED <<attempt, nextNonce>>
    /\ UNCHANGED <<quarantine, repository, chain, faults>>

Sign ==
    /\ Active({"PREPARED"}) /\ attempt[Target].nonce # NoNonce
    /\ IF Pending = attempt[Target].nonce
       THEN /\ attempt' = [attempt EXCEPT ![Target].state = "SIGNED", ![Target].fenced = TRUE]
            /\ Persisted
       ELSE Throw /\ UNCHANGED attempt
    /\ UNCHANGED <<nextNonce, quarantine, repository, chain, faults>>

\* broadcastExactSignedBytes: the wallet reservation must carry the token the
\* bytes were signed under, and the node takes no nonce twice.
Submit(then) ==
    IF attempt[Target].fenced /\ attempt[Target].nonce >= latest
    THEN /\ status' = [status EXCEPT ![Target] = "pool"]
         /\ then
    ELSE Throw /\ UNCHANGED status

Broadcast ==
    /\ Active({"SIGNED"}) /\ ~Finalized(Target)
    /\ Submit(Goto("sent"))
    /\ UNCHANGED <<latest, final, payoutState, repository, faults>>

PersistBroadcast ==
    /\ phase = "sent"
    /\ SetState(Target, "BROADCAST")
    /\ Persisted
    /\ UNCHANGED <<nextNonce, quarantine, repository, chain, faults>>

\* Fault: only signed attempts are looked up.
SettleSigned ==
    /\ Active({"SIGNED"}) /\ Finalized(Target) /\ status[Target] = "ok" /\ ~IsRetry(Target)
    /\ SetState(Target, "FINALIZED")
    /\ Persisted
    /\ UNCHANGED <<nextNonce, quarantine, repository, chain, faults>>

\* reconcileRecipientAttempt finds the payment final.
Settle ==
    /\ Active(IN_FLIGHT) /\ Finalized(Target) /\ status[Target] = "ok" /\ ~IsRetry(Target)
    /\ SetState(Target, "FINALIZED")
    /\ Persisted
    /\ UNCHANGED <<nextNonce, quarantine, repository, chain, faults>>

\* reservePayoutQuarantine: a repeated reservation must bring the same evidence.
Quarantine(i, evidence, then) ==
    \/ /\ reservation[i] = NoEvidence
       /\ reservation' = [reservation EXCEPT ![i] = evidence]
       /\ fresh' = fresh \cup {i}
       /\ Goto(then)
    \/ /\ reservation[i] = evidence /\ (evidence.reason = "TRANSACTION_REVERTED" => i \in fresh)
       /\ Goto(then)
       /\ UNCHANGED <<reservation, fresh>>
    \/ /\ reservation[i] # NoEvidence
       /\ reservation[i] # evidence \/ (evidence.reason = "TRANSACTION_REVERTED" /\ i \notin fresh)
       /\ Throw
       /\ UNCHANGED <<reservation, fresh>>

Refuse ==
    /\ Active(IN_FLIGHT) /\ Finalized(Target) /\ status[Target] = "reverted" /\ ~IsRetry(Target)
    /\ Quarantine(Target[1], [reason |-> "TRANSACTION_REVERTED", observed |-> 0], "REFUSED")
    /\ UNCHANGED <<payoutState, retry, chain, faults>>

\* The second half of refuseRecipient and of recordNonceInterference.
PersistLiability ==
    /\ phase \in {"REFUSED", "NONCE_INTERFERENCE"}
    /\ SetState(Target, phase)
    /\ quarantine' = quarantine \cup {Target[1]}
    /\ Persisted
    /\ UNCHANGED <<nextNonce, repository, chain, faults>>

\* A broadcast transaction that is not final: wait while the node knows it.
LookUp ==
    /\ Active({"BROADCAST"}) /\ ~Finalized(Target)
    /\ IF Visible(Target) \/ IsRetry(Target) THEN Unchanged ELSE Goto("nonces")
    /\ UNCHANGED <<payoutState, repository, chain, faults>>

\* It did not; the nonces are read next, of a chain that may have moved on.
RecoverDropped ==
    /\ phase = "nonces"
    /\ LET nonce == attempt[Target].nonce
       IN  \/ /\ Pending > nonce
              /\ Quarantine(Target[1],
                            [reason |-> "NONCE_INTERFERENCE", observed |-> Pending],
                            "NONCE_INTERFERENCE")
              /\ UNCHANGED status
           \/ /\ Pending = nonce /\ latest = nonce
              /\ Submit(Unchanged)
              /\ UNCHANGED <<reservation, fresh>>
           \/ /\ Pending <= nonce /\ ~(Pending = nonce /\ latest = nonce)
              /\ Unchanged
              /\ UNCHANGED <<status, reservation, fresh>>
    /\ UNCHANGED <<latest, final, payoutState, retry, faults>>

-----------------------------------------------------------------------------
(* Retries of refused recipients *)

\* The operator's retry-refused-payout: requestPayoutQuarantineRetry.
RequestRetry(i) ==
    /\ reservation[i] # NoEvidence
    /\ \A k \in 1..MaxRetries : retry[<<i, k>>] \notin {"open", "settled"}
    /\ \E k \in 1..MaxRetries :
          /\ retry[<<i, k>>] = "none"
          /\ \A j \in 1..(k - 1) : retry[<<i, j>>] # "none"
          /\ retry' = [retry EXCEPT ![<<i, k>>] = "open"]
    /\ UNCHANGED <<reservation, fresh, payoutState, chain, runVars, faults>>

\* runPayoutRetry: reserve the wallet nonce.
BeginRetry ==
    /\ phase = "retries" /\ work # << >>
    /\ phase' = "retry" /\ wallet' = "current"
    /\ UNCHANGED <<work, progressed, settled, payoutState, repository, chain, faults>>

\* Fault: the outcome of the original transfer is not checked.
MayOpenAny(t) == \A i \in Recipient \ {t[1]} : State(i) \in RESOLVED /\ ~OpenRetry(i)

\* A retry is opened only for a recipient that was refused on chain, when
\* nothing else of the plan is unresolved.  The branch that settles an original
\* which turns out to have succeeded is left out: REFUSED is recorded from a
\* finalized block (OutcomeFinal).
MayOpen(t) ==
    /\ State(t[1]) = "REFUSED"
    /\ \A i \in Recipient \ {t[1]} : State(i) \in RESOLVED /\ ~OpenRetry(i)
    /\ Finalized(Original(t[1]))

OpenOrThrow ==
    /\ Active({"none"}) /\ retry[Target] = "open"
    /\ IF MayOpen(Target)
       THEN SetState(Target, "PREPARED") /\ Persisted
       ELSE NextRetry /\ UNCHANGED attempt
    /\ UNCHANGED <<nextNonce, quarantine, repository, chain, faults>>

\* recordPayoutQuarantineRetryRefusal or settlePayoutQuarantine.
ResolveRetry ==
    /\ Active(IN_FLIGHT) /\ IsRetry(Target) /\ retry[Target] = "open" /\ Finalized(Target)
    /\ retry' = [retry EXCEPT ![Target] = IF status[Target] = "ok" THEN "settled" ELSE "REFUSED"]
    /\ Goto("retry")
    /\ UNCHANGED <<reservation, fresh, payoutState, chain, faults>>

\* Fault: a paid retry leaves the liability.
ProjectRetryKeeping ==
    /\ phase = "retry" /\ retry[Target] \in {"REFUSED", "settled"}
    /\ SetState(Target, IF retry[Target] = "settled" THEN "FINALIZED" ELSE "REFUSED")
    /\ NextRetry
    /\ UNCHANGED <<nextNonce, quarantine, repository, chain, faults>>

\* The payout state follows the journal, in this run or, through
\* repairDurableRetryProjection, in a later one.
ProjectRetry ==
    /\ phase = "retry" /\ retry[Target] \in {"REFUSED", "settled"}
    /\ SetState(Target, IF retry[Target] = "settled" THEN "FINALIZED" ELSE "REFUSED")
    /\ quarantine' = IF retry[Target] = "settled" THEN quarantine \ {Target[1]} ELSE quarantine
    /\ NextRetry
    /\ UNCHANGED <<nextNonce, repository, chain, faults>>

-----------------------------------------------------------------------------
RunStep ==
    \/ BeginRun \/ RetriesDone \/ BeginRetry \/ Mutate \/ NextPass \/ ReleaseWalletNonce \/ Reconcile
    \/ ReserveNonce \/ Sign \/ Broadcast \/ PersistBroadcast \/ Settle
    \/ Refuse \/ PersistLiability \/ LookUp \/ RecoverDropped
    \/ OpenOrThrow \/ ResolveRetry \/ ProjectRetry

ChainStep ==
    \/ \E t \in Attempts, result \in {"ok", "reverted"} : Include(t, result)
    \/ Finalize \/ HeadAdvances

Next ==
    \/ RunStep \/ ChainStep
    \/ Crash
    \/ \E t \in Attempts : Drop(t) \/ Reorganize(t)
    \/ ForeignUse
    \/ \E i \in Recipient : RequestRetry(i)

Spec == Init /\ [][Next]_vars

\* The scheduler keeps ticking; a transaction the node knows is included once
\* its turn has come, and blocks are finalized.
Fairness ==
    /\ WF_vars(RunStep)
    /\ WF_vars(\E t \in Attempts, result \in {"ok", "reverted"} :
                   status[t] = "pool" /\ Include(t, result))
    /\ WF_vars(Finalize)

FairSpec == Spec /\ Fairness

-----------------------------------------------------------------------------
(* Properties *)

TypeOK ==
    /\ attempt \in [Attempts -> [state : {"none", "PREPARED"} \cup IN_FLIGHT \cup RESOLVED,
                                 nonce : Nat \cup {NoNonce}, fenced : BOOLEAN]]
    /\ nextNonce \in Nat \cup {NoNonce}
    /\ quarantine \subseteq Recipient /\ fresh \subseteq Recipient
    /\ reservation \in [Recipient ->
          [reason : {"none", "TRANSACTION_REVERTED", "NONCE_INTERFERENCE"}, observed : Nat]]
    /\ retry \in [Attempts -> {"none", "open", "REFUSED", "settled"}]
    /\ status \in [Attempts -> {"unsent", "pool", "dropped", "ok", "reverted"}]
    /\ latest \in Nat /\ final \in 0..latest
    /\ phase \in {"idle", "begun", "pass", "retries", "retry", "sent", "nonces", "released",
                  "REFUSED", "NONCE_INTERFERENCE"}
    /\ work \in Seq(Attempts) /\ progressed \in BOOLEAN
    /\ wallet \in {"none", "current", "other"} /\ settled \in BOOLEAN
    /\ faults \in 0..MaxFaults

\* No recipient is paid twice, whatever the chain, the operator and crashes do.
PaidOnce ==
    \A i \in Recipient : Cardinality({k \in 0..MaxRetries : status[<<i, k>>] = "ok"}) <= 1

\* What the payout state says of a resolved transfer is final on chain.
OutcomeFinal ==
    \A t \in Attempts :
        /\ attempt[t].state = "FINALIZED" => Finalized(t) /\ status[t] = "ok"
        /\ attempt[t].state = "REFUSED" => Finalized(t) /\ status[t] = "reverted"

\* A liability of the payout state is backed by the repository until it is
\* settled there, and a settled payout owes or has paid every recipient.
LiabilityBacked ==
    /\ \A i \in quarantine : reservation[i] # NoEvidence
    /\ \A i \in Recipient :
          Paid(i) /\ State(i) # "FINALIZED" => \E k \in 1..MaxRetries : retry[<<i, k>>] = "settled"
    /\ settled => \A i \in Recipient : Paid(i) # (i \in quarantine)

\* Recovery that the code refuses: signed bytes whose token is not that of the
\* run, evidence that differs from the reserved one, a nonce taken by others.
BroadcastRefused ==
    \E t \in Attempts :
        /\ attempt[t].state \in IN_FLIGHT /\ ~Visible(t)
        /\ ~attempt[t].fenced \/ IsRetry(t)

EvidenceConflict ==
    \E i \in Recipient : reservation[i] # NoEvidence /\ State(i) \notin RESOLVED

NonceTaken ==
    \E t \in Attempts :
        /\ attempt[t].state = "PREPARED" \/ (IsRetry(t) /\ attempt[t].state \in IN_FLIGHT /\ ~Included(t))
        /\ Pending # IF attempt[t].nonce = NoNonce THEN nextNonce ELSE attempt[t].nonce

ReleaseRefused == Complete /\ wallet = "other"

Wedged == BroadcastRefused \/ EvidenceConflict \/ NonceTaken \/ ReleaseRefused

\* The payout settles unless it stays in one of those states for ever.
SettlesUnlessWedged == []<>(~Wedged) => <>settled
=============================================================================
