---------------------------- MODULE PayoutProofs ----------------------------
(***************************************************************************)
(* No recipient of the direct payout is paid twice, no recorded outcome is *)
(* undone, and every liability the payout leaves is backed by evidence in  *)
(* the repository: for every number of recipients, retries and faults and  *)
(* for every window.                                                       *)
(***************************************************************************)
EXTENDS Payout, FiniteSetTheorems, SequenceTheorems, TLAPS

\* The types of TypeOK, in the parts that its proof takes apart.
States == {"none", "PREPARED"} \cup IN_FLIGHT \cup RESOLVED

Sent == IN_FLIGHT \cup RESOLVED

AttemptType == [state : States, nonce : Nat \cup {NoNonce}, fenced : BOOLEAN]

AttemptsTyped == attempt \in [Attempts -> AttemptType]

WorkTyped == work \in Seq(Attempts)

FlagsTyped == progressed \in BOOLEAN /\ settled \in BOOLEAN

ChainTyped ==
    /\ status \in [Attempts -> {"unsent", "pool", "dropped", "ok", "reverted"}]
    /\ latest \in Nat /\ final \in 0..latest

RepositoryTyped ==
    /\ quarantine \subseteq Recipient /\ fresh \subseteq Recipient
    /\ reservation \in [Recipient ->
          [reason : {"none", "TRANSACTION_REVERTED", "NONCE_INTERFERENCE"}, observed : Nat]]
    /\ retry \in [Attempts -> {"none", "open", "REFUSED", "settled"}]

PlacesTyped ==
    /\ nextNonce \in Nat \cup {NoNonce}
    /\ phase \in {"idle", "begun", "pass", "retries", "retry", "sent", "nonces", "released",
                  "REFUSED", "NONCE_INTERFERENCE"}
    /\ wallet \in {"none", "current", "other"}
    /\ faults \in 0..MaxFaults

Typing == /\ AttemptsTyped /\ WorkTyped /\ FlagsTyped
          /\ ChainTyped /\ RepositoryTyped /\ PlacesTyped

\* What a run has in hand at each place of it.
WorkInv ==
    /\ phase \in {"idle", "begun", "released"} => work = << >>
    /\ phase \in {"retry", "sent", "nonces", "REFUSED", "NONCE_INTERFERENCE"} => work # << >>
    /\ phase \in {"retries", "retry"} => \A n \in 1..Len(work) : IsRetry(work[n])
    /\ phase \in {"pass", "nonces", "REFUSED", "NONCE_INTERFERENCE"} =>
          \A n \in 1..Len(work) : ~IsRetry(work[n])
    /\ phase = "sent" => \A n \in 1..Len(work) : IsRetry(work[n]) <=> IsRetry(Target)
    /\ phase = "sent" => attempt[Target].state = "SIGNED"
    /\ phase \in {"nonces", "NONCE_INTERFERENCE"} => attempt[Target].state = "BROADCAST"
    /\ phase = "REFUSED" => /\ attempt[Target].state \in IN_FLIGHT
                            /\ Finalized(Target) /\ status[Target] = "reverted"

\* A nonce is given to one attempt, and the wallet has used those of included
\* transactions.
NonceInv ==
    /\ \A t \in Attempts : attempt[t].nonce # NoNonce => attempt[t].nonce < nextNonce
    /\ \A t, u \in Attempts :
          t # u /\ attempt[t].nonce # NoNonce => attempt[t].nonce # attempt[u].nonce
    /\ \A t \in Attempts : attempt[t].state \in Sent => attempt[t].nonce # NoNonce
    /\ \A t \in Attempts : status[t] # "unsent" => attempt[t].state \in Sent
    /\ \A t \in Attempts : Included(t) => attempt[t].nonce < latest

\* A retry follows a refusal of the plan's transfer, alone, and the journal
\* knows only final outcomes.
RetryInv ==
    /\ \A t \in Attempts : retry[t] # "none" => IsRetry(t)
    /\ \A t \in Attempts : IsRetry(t) /\ attempt[t].state # "none" =>
          retry[t] # "none" /\ State(t[1]) = "REFUSED"
    /\ \A t, u \in Attempts :
          t # u /\ t[1] = u[1] /\ retry[t] \in {"open", "settled"} => retry[u] \notin {"open", "settled"}
    /\ \A t \in Attempts :
          /\ retry[t] = "settled" => Finalized(t) /\ status[t] = "ok"
          /\ retry[t] = "REFUSED" => Finalized(t) /\ status[t] = "reverted"

IInv == Typing /\ WorkInv /\ NonceInv /\ RetryInv /\ OutcomeFinal

-----------------------------------------------------------------------------
(* Attempts, nonces and work *)

LEMMA AttemptShape ==
    /\ \A i \in Recipient : Original(i) \in Attempts /\ ~IsRetry(Original(i)) /\ Original(i)[1] = i
    /\ \A t \in Attempts : t[1] \in Recipient
    /\ \A t \in Attempts : ~IsRetry(t) => t = Original(t[1])
    /\ \A i \in Recipient, k \in 1..MaxRetries :
          <<i, k>> \in Attempts /\ IsRetry(<<i, k>>) /\ <<i, k>>[1] = i
BY PayoutAssumption DEF Attempts, Original, IsRetry, Recipient

LEMMA AttemptsFinite == IsFiniteSet(Attempts) /\ Cardinality(Attempts) \in Nat
<1>1. IsFiniteSet(1..N) /\ IsFiniteSet(0..MaxRetries)
  BY PayoutAssumption, FS_Interval
<1>2. IsFiniteSet(Attempts)
  BY <1>1, FS_Product DEF Attempts, Recipient
<1> QED
  BY <1>2, FS_CardinalityType

\* The pending transaction count is a nonce the chain has not used.
LEMMA PendingNat ==
    ASSUME latest \in Nat
    PROVE  Pending \in Nat /\ Pending >= latest
<1> DEFINE c == Cardinality(Attempts)
           pooled == {attempt[t].nonce : t \in {u \in Attempts : status[u] = "pool"}}
           run == {n \in latest .. (latest + c) : \A m \in latest .. n : m \in pooled}
<1>1. c \in Nat
  BY AttemptsFinite
<1>2. IsFiniteSet(latest .. (latest + c))
  BY <1>1, FS_Interval
<1>3. IsFiniteSet(run)
  BY <1>2, FS_Subset
<1>4. Cardinality(run) \in Nat
  BY <1>3, FS_CardinalityType
<1>5. Pending = latest + Cardinality(run)
  BY DEF Pending
<1> HIDE DEF run
<1> QED
  BY <1>4, <1>5

\* The work of a run is a sequence of attempts.
LEMMA WorkShape ==
    ASSUME work \in Seq(Attempts), work # << >>
    PROVE  /\ Target \in Attempts /\ Target = work[1] /\ Len(work) \in Nat \ {0}
           /\ Tail(work) \in Seq(Attempts) /\ Len(Tail(work)) = Len(work) - 1
           /\ \A n \in 1..Len(Tail(work)) : Tail(work)[n] = work[n + 1] /\ n + 1 \in 1..Len(work)
<1>1. Target = work[1] /\ Len(work) \in Nat \ {0}
  BY DEF Target
<1>2. /\ Target \in Attempts /\ Tail(work) \in Seq(Attempts)
      /\ Len(Tail(work)) = Len(work) - 1
      /\ \A n \in 1..Len(Tail(work)) : Tail(work)[n] = work[n + 1]
  BY HeadTailProperties DEF Target
<1> QED
  BY <1>1, <1>2

\* The sequences a run takes for its work contain attempts of the given set.
LEMMA SetToSeqsShape ==
    ASSUME NEW S \in SUBSET Attempts, NEW s \in SetToSeqs(S)
    PROVE  s \in Seq(Attempts) /\ \A n \in 1..Len(s) : s[n] \in S
<1>1. IsFiniteSet(S)
  BY AttemptsFinite, FS_Subset
<1>2. Cardinality(S) \in Nat
  BY <1>1, FS_CardinalityType
<1>3. s \in [1..Cardinality(S) -> S]
  BY DEF SetToSeqs
<1> QED
  BY <1>2, <1>3

-----------------------------------------------------------------------------
(* What the steps do to an attempt *)

LEMMA SetStateEffect ==
    ASSUME AttemptsTyped, NEW t \in Attempts, NEW s \in States, SetState(t, s)
    PROVE  /\ AttemptsTyped' /\ attempt'[t].state = s
           /\ \A u \in Attempts : attempt'[u].nonce = attempt[u].nonce
           /\ \A u \in Attempts \ {t} : attempt'[u] = attempt[u]
BY DEF SetState, AttemptsTyped, AttemptType

LEMMA BeginRunEffect ==
    ASSUME AttemptsTyped, BeginRun
    PROVE  /\ AttemptsTyped'
           /\ \A u \in Attempts : attempt'[u].nonce = attempt[u].nonce /\ attempt'[u].state = attempt[u].state
           /\ work' \in Seq(Attempts)
           /\ \A n \in 1..Len(work') : work'[n] \in OpenPayoutRetries
           /\ phase' = "retries" /\ progressed' = FALSE
           /\ wallet' = (IF wallet = "none" THEN "none" ELSE "other")
           /\ UNCHANGED <<nextNonce, quarantine, settled, repository, chain, faults>>
<1>1. /\ attempt' = Unfenced
      /\ phase' = "retries" /\ progressed' = FALSE
      /\ wallet' = (IF wallet = "none" THEN "none" ELSE "other")
      /\ UNCHANGED <<nextNonce, quarantine, settled, repository, chain, faults>>
      /\ work' \in SetToSeqs(OpenPayoutRetries)
  BY DEF BeginRun
<1>2. ASSUME NEW r \in AttemptType
      PROVE  LET f == [r EXCEPT !.fenced = FALSE]
             IN  f \in AttemptType /\ f.state = r.state /\ f.nonce = r.nonce
  BY DEF AttemptType
<1>3. \A u \in Attempts : Unfenced[u] = [attempt[u] EXCEPT !.fenced = FALSE]
  BY DEF Unfenced
<1>4. \A u \in Attempts : /\ Unfenced[u] \in AttemptType
                          /\ Unfenced[u].state = attempt[u].state /\ Unfenced[u].nonce = attempt[u].nonce
  BY <1>2, <1>3 DEF AttemptsTyped
<1>5. Unfenced = [u \in Attempts |-> Unfenced[u]]
  BY DEF Unfenced
<1>6. Unfenced \in [Attempts -> AttemptType]
  BY <1>4, <1>5
<1>7. OpenPayoutRetries \in SUBSET Attempts
  BY DEF OpenPayoutRetries
<1>8. work' \in Seq(Attempts) /\ \A n \in 1..Len(work') : work'[n] \in OpenPayoutRetries
  BY <1>1, <1>7, SetToSeqsShape
<1> QED
  BY <1>1, <1>4, <1>6, <1>8 DEF AttemptsTyped

\* A reserved nonce lies beyond every nonce given before.
LEMMA ReserveNonceEffect ==
    ASSUME Typing, WorkInv, ReserveNonce
    PROVE  /\ Target \in Attempts /\ Target = work[1] /\ work # << >>
           /\ attempt[Target].state = "PREPARED" /\ attempt[Target].nonce = NoNonce
           /\ AttemptsTyped'
           /\ \A u \in Attempts : attempt'[u].state = attempt[u].state
           /\ \A u \in Attempts \ {Target} : attempt'[u] = attempt[u]
           /\ \/ UNCHANGED <<attempt, nextNonce>> /\ Throw
              \/ /\ attempt'[Target].nonce \in Nat /\ attempt'[Target].nonce >= nextNonce
                 /\ nextNonce' = attempt'[Target].nonce + 1 /\ Persisted
           /\ phase \in {"pass", "retry"}
           /\ UNCHANGED <<quarantine, repository, chain, faults>>
<1>1. /\ work # << >> /\ phase \in {"pass", "retry"}
      /\ attempt[Target].state = "PREPARED" /\ attempt[Target].nonce = NoNonce
      /\ UNCHANGED <<quarantine, repository, chain, faults>>
  BY DEF ReserveNonce, Active
<1>2. Target \in Attempts /\ Target = work[1] /\ Pending \in Nat
  BY <1>1, WorkShape, PendingNat DEF Typing, WorkTyped, ChainTyped
<1>3. CASE UNCHANGED <<attempt, nextNonce>> /\ Throw
  BY <1>1, <1>2, <1>3 DEF Typing, AttemptsTyped
<1>4. CASE /\ IF IsRetry(Target) THEN Pending >= nextNonce ELSE Pending = nextNonce
           /\ attempt' = [attempt EXCEPT ![Target].nonce = Pending]
           /\ nextNonce' = Pending + 1
           /\ Persisted
  <2>1. Pending >= nextNonce
    BY <1>2, <1>4 DEF Typing, PlacesTyped, NoNonce
  <2>2. /\ AttemptsTyped' /\ attempt'[Target].nonce = Pending
        /\ \A u \in Attempts : attempt'[u].state = attempt[u].state
        /\ \A u \in Attempts \ {Target} : attempt'[u] = attempt[u]
    BY <1>2, <1>4 DEF Typing, AttemptsTyped, AttemptType
  <2> QED
    BY <1>1, <1>2, <1>4, <2>1, <2>2
<1> QED
  BY <1>3, <1>4 DEF ReserveNonce

LEMMA SignEffect ==
    ASSUME Typing, WorkInv, Sign
    PROVE  /\ Target \in Attempts /\ Target = work[1] /\ work # << >>
           /\ attempt[Target].state = "PREPARED" /\ attempt[Target].nonce # NoNonce
           /\ AttemptsTyped'
           /\ \A u \in Attempts : attempt'[u].nonce = attempt[u].nonce
           /\ \A u \in Attempts \ {Target} : attempt'[u] = attempt[u]
           /\ \/ UNCHANGED attempt /\ Throw
              \/ attempt'[Target].state = "SIGNED" /\ Persisted
           /\ phase \in {"pass", "retry"}
           /\ UNCHANGED <<nextNonce, quarantine, repository, chain, faults>>
<1>1. /\ work # << >> /\ phase \in {"pass", "retry"}
      /\ attempt[Target].state = "PREPARED" /\ attempt[Target].nonce # NoNonce
      /\ UNCHANGED <<nextNonce, quarantine, repository, chain, faults>>
  BY DEF Sign, Active
<1>2. Target \in Attempts /\ Target = work[1]
  BY <1>1, WorkShape DEF Typing, WorkTyped
<1>3. CASE UNCHANGED attempt /\ Throw
  BY <1>1, <1>2, <1>3 DEF Typing, AttemptsTyped
<1>4. CASE /\ attempt' = [attempt EXCEPT ![Target].state = "SIGNED", ![Target].fenced = TRUE]
           /\ Persisted
  <2>1. ASSUME NEW r \in AttemptType
        PROVE  LET f == [[r EXCEPT !.state = "SIGNED"] EXCEPT !.fenced = TRUE]
               IN  f \in AttemptType /\ f.state = "SIGNED" /\ f.nonce = r.nonce
    BY DEF AttemptType, States, IN_FLIGHT
  <2>2. /\ attempt' = [attempt EXCEPT ![Target] =
                          [[attempt[Target] EXCEPT !.state = "SIGNED"] EXCEPT !.fenced = TRUE]]
        /\ attempt[Target] \in AttemptType
    BY <1>2, <1>4 DEF Typing, AttemptsTyped
  <2>3. /\ AttemptsTyped' /\ attempt'[Target].state = "SIGNED"
        /\ attempt'[Target].nonce = attempt[Target].nonce
        /\ \A u \in Attempts \ {Target} : attempt'[u] = attempt[u]
    BY <1>2, <2>1, <2>2 DEF Typing, AttemptsTyped
  <2> QED
    BY <1>1, <1>2, <1>4, <2>3
<1> QED
  BY <1>3, <1>4 DEF Sign

-----------------------------------------------------------------------------
(* Where a run goes on from a target *)

\* A run that throws, persists a boundary or leaves its target unchanged keeps
\* the retries and the plan's transfers apart.
LEMMA AfterTarget ==
    ASSUME WorkTyped, WorkInv, work # << >>, Throw \/ Persisted \/ Unchanged,
           phase \in {"pass", "retry", "sent", "nonces", "REFUSED", "NONCE_INTERFERENCE"}
    PROVE  WorkInv'
<1>1. /\ Target = work[1] /\ Len(work) \in Nat \ {0} /\ Len(Tail(work)) = Len(work) - 1
      /\ \A n \in 1..Len(Tail(work)) : Tail(work)[n] = work[n + 1] /\ n + 1 \in 1..Len(work)
  BY WorkShape DEF WorkTyped
<1>2. \/ IsRetry(Target) /\ \A n \in 1..Len(work) : IsRetry(work[n])
      \/ ~IsRetry(Target) /\ \A n \in 1..Len(work) : ~IsRetry(work[n])
  BY <1>1 DEF WorkInv
<1>3. \/ phase' = "idle" /\ work' = << >>
      \/ phase' = "retries" /\ work' = Tail(work) /\ IsRetry(Target)
      \/ phase' = "retry" /\ work' = work /\ IsRetry(Target)
      \/ phase' = "pass" /\ work' = Tail(work) /\ ~IsRetry(Target)
  BY DEF Throw, NextRetry, Abandon, Persisted, Unchanged
<1>4. CASE phase' = "idle" /\ work' = << >>
  BY <1>4 DEF WorkInv
<1>5. CASE phase' = "retries" /\ work' = Tail(work) /\ IsRetry(Target)
  BY <1>1, <1>2, <1>5 DEF WorkInv
<1>6. CASE phase' = "retry" /\ work' = work /\ IsRetry(Target)
  BY <1>2, <1>6 DEF WorkInv
<1>7. CASE phase' = "pass" /\ work' = Tail(work) /\ ~IsRetry(Target)
  BY <1>1, <1>2, <1>7 DEF WorkInv
<1> QED
  BY <1>3, <1>4, <1>5, <1>6, <1>7

\* A run that stays with its target, to persist what it has read or sent.
LEMMA SameTarget ==
    ASSUME WorkTyped, WorkInv, work # << >>, UNCHANGED <<work, attempt>>, phase \in {"pass", "retry", "nonces"},
           \/ phase' = "sent" /\ attempt[Target].state = "SIGNED"
           \/ phase' \in {"nonces", "NONCE_INTERFERENCE"} /\ attempt[Target].state = "BROADCAST" /\ phase # "retry"
    PROVE  WorkInv'
<1>1. Target = work[1] /\ Len(work) \in Nat \ {0} /\ Target' = Target
  BY WorkShape DEF WorkTyped, Target
<1> QED
  BY <1>1 DEF WorkInv

-----------------------------------------------------------------------------
\* The attempts of the payout state keep their shape.
LEMMA StepAttemptsTyped == ASSUME IInv, [Next]_vars PROVE AttemptsTyped'
<1> USE DEF IInv, Typing, WorkTyped, WorkInv, payoutState, repository, chain, runVars
<1>11. CASE BeginRun
  BY <1>11, BeginRunEffect
<1>12. CASE RetriesDone
  BY <1>12 DEF RetriesDone, AttemptsTyped
<1>13. CASE BeginRetry
  BY <1>13 DEF BeginRetry, AttemptsTyped
<1>14. CASE Mutate
  BY <1>14 DEF Mutate, AttemptsTyped
<1>15. CASE NextPass
  BY <1>15 DEF NextPass, Abandon, AttemptsTyped
<1>16. CASE ReleaseWalletNonce
  BY <1>16 DEF ReleaseWalletNonce, AttemptsTyped
<1>17. CASE Reconcile
  BY <1>17 DEF Reconcile, Abandon, AttemptsTyped
<1>18. CASE ReserveNonce
  BY <1>18, ReserveNonceEffect
<1>19. CASE Sign
  BY <1>19, SignEffect
<1>20. CASE Broadcast
  BY <1>20 DEF Broadcast, Active, Submit, Goto, Throw, NextRetry, Abandon, AttemptsTyped
<1>21. CASE PersistBroadcast
  <2>1. Target \in Attempts /\ "BROADCAST" \in States
    BY <1>21, WorkShape DEF PersistBroadcast, States, IN_FLIGHT, RESOLVED
  <2> QED
    BY <1>21, <2>1, SetStateEffect DEF PersistBroadcast
<1>22. CASE Settle
  <2>1. Target \in Attempts /\ "FINALIZED" \in States
    BY <1>22, WorkShape DEF Settle, Active, States, IN_FLIGHT, RESOLVED
  <2> QED
    BY <1>22, <2>1, SetStateEffect DEF Settle, Active
<1>23. CASE Refuse
  BY <1>23 DEF Refuse, Active, Quarantine, Goto, Throw, NextRetry, Abandon, AttemptsTyped
<1>24. CASE PersistLiability
  <2>1. Target \in Attempts /\ phase \in States
    BY <1>24, WorkShape DEF PersistLiability, States, IN_FLIGHT, RESOLVED
  <2> QED
    BY <1>24, <2>1, SetStateEffect DEF PersistLiability
<1>25. CASE LookUp
  BY <1>25 DEF LookUp, Active, Unchanged, Goto, AttemptsTyped
<1>26. CASE RecoverDropped
  BY <1>26 DEF RecoverDropped, Quarantine, Submit, Unchanged, Goto, Throw, NextRetry, Abandon, AttemptsTyped
<1>27. CASE OpenOrThrow
  <2>1. Target \in Attempts /\ "PREPARED" \in States
    BY <1>27, WorkShape DEF OpenOrThrow, Active, States, IN_FLIGHT, RESOLVED
  <2>2. CASE UNCHANGED attempt
    BY <2>2 DEF AttemptsTyped
  <2>3. CASE SetState(Target, "PREPARED")
    BY <2>1, <2>3, SetStateEffect
  <2> QED
    BY <1>27, <2>2, <2>3 DEF OpenOrThrow
<1>28. CASE ResolveRetry
  BY <1>28 DEF ResolveRetry, Active, Goto, AttemptsTyped
<1>29. CASE ProjectRetry
  <2>1. Target \in Attempts /\ "FINALIZED" \in States /\ "REFUSED" \in States
    BY <1>29, WorkShape DEF ProjectRetry, States, IN_FLIGHT, RESOLVED
  <2>2. SetState(Target, "FINALIZED") \/ SetState(Target, "REFUSED")
    BY <1>29 DEF ProjectRetry
  <2> QED
    BY <2>1, <2>2, SetStateEffect
<1>30. ASSUME NEW t \in Attempts, NEW result \in {"ok", "reverted"}, Include(t, result) PROVE AttemptsTyped'
  BY <1>30 DEF Include, AttemptsTyped
<1>31. CASE Finalize
  BY <1>31 DEF Finalize, AttemptsTyped
<1>32. CASE HeadAdvances
  BY <1>32 DEF HeadAdvances, AttemptsTyped
<1>33. CASE Crash
  BY <1>33 DEF Crash, Fault, Abandon, AttemptsTyped
<1>34. ASSUME NEW t \in Attempts, Drop(t) PROVE AttemptsTyped'
  BY <1>34 DEF Drop, Fault, AttemptsTyped
<1>35. ASSUME NEW t \in Attempts, Reorganize(t) PROVE AttemptsTyped'
  BY <1>35 DEF Reorganize, Fault, AttemptsTyped
<1>36. CASE ForeignUse
  BY <1>36 DEF ForeignUse, Fault, AttemptsTyped
<1>37. ASSUME NEW i \in Recipient, RequestRetry(i) PROVE AttemptsTyped'
  BY <1>37 DEF RequestRetry, AttemptsTyped
<1>38. CASE UNCHANGED vars
  BY <1>38 DEF vars, AttemptsTyped
<1> QED
  BY <1>11, <1>12, <1>13, <1>14, <1>15, <1>16, <1>17, <1>18, <1>19, <1>20, <1>21, <1>22, <1>23, <1>24, <1>25, <1>26, <1>27, <1>28, <1>29, <1>30, <1>31, <1>32, <1>33, <1>34, <1>35, <1>36, <1>37, <1>38 DEF Next, RunStep, ChainStep

\* The work of a run stays a sequence of attempts.
LEMMA StepWorkTyped == ASSUME IInv, [Next]_vars PROVE WorkTyped'
<1>1. work \in Seq(Attempts) /\ << >> \in Seq(Attempts)
  BY DEF IInv, Typing, WorkTyped
<1>2. work # << >> => Tail(work) \in Seq(Attempts)
  BY <1>1, WorkShape
<1>3. phase \in {"retry", "sent", "nonces", "REFUSED", "NONCE_INTERFERENCE"} => work # << >>
  BY DEF IInv, WorkInv
<1> USE <1>1, <1>2, <1>3 DEF WorkTyped, payoutState, repository, chain, runVars
<1>11. CASE BeginRun
  BY <1>11, BeginRunEffect DEF IInv, Typing
<1>12. CASE RetriesDone
  BY <1>12 DEF RetriesDone
<1>13. CASE BeginRetry
  BY <1>13 DEF BeginRetry
<1>14. CASE Mutate
  BY <1>14 DEF Mutate
<1>15. CASE NextPass
  <2>1. InFlightWindowRecipients \in SUBSET Attempts
    BY AttemptShape DEF InFlightWindowRecipients
  <2>2. ASSUME NEW s \in PlanOrder(InFlightWindowRecipients) PROVE s \in Seq(Attempts)
    BY <2>1, SetToSeqsShape DEF PlanOrder
  <2> QED
    BY <1>15, <2>2 DEF NextPass, Abandon
<1>16. CASE ReleaseWalletNonce
  BY <1>16 DEF ReleaseWalletNonce
<1>17. CASE Reconcile
  BY <1>17 DEF Reconcile, Abandon
<1>18. CASE ReserveNonce
  BY <1>18 DEF ReserveNonce, Active, Persisted, Throw, NextRetry, Abandon
<1>19. CASE Sign
  BY <1>19 DEF Sign, Active, Persisted, Throw, NextRetry, Abandon
<1>20. CASE Broadcast
  BY <1>20 DEF Broadcast, Active, Submit, Goto, Throw, NextRetry, Abandon
<1>21. CASE PersistBroadcast
  BY <1>21 DEF PersistBroadcast, SetState, Persisted
<1>22. CASE Settle
  BY <1>22 DEF Settle, Active, SetState, Persisted
<1>23. CASE Refuse
  BY <1>23 DEF Refuse, Active, Quarantine, Goto, Throw, NextRetry, Abandon
<1>24. CASE PersistLiability
  BY <1>24 DEF PersistLiability, SetState, Persisted
<1>25. CASE LookUp
  BY <1>25 DEF LookUp, Active, Unchanged, Goto
<1>26. CASE RecoverDropped
  BY <1>26 DEF RecoverDropped, Quarantine, Submit, Unchanged, Goto, Throw, NextRetry, Abandon
<1>27. CASE OpenOrThrow
  BY <1>27 DEF OpenOrThrow, Active, SetState, Persisted, NextRetry, MayOpen
<1>28. CASE ResolveRetry
  BY <1>28 DEF ResolveRetry, Active, Goto
<1>29. CASE ProjectRetry
  BY <1>29 DEF ProjectRetry, SetState, NextRetry
<1>30. ASSUME NEW t \in Attempts, NEW result \in {"ok", "reverted"}, Include(t, result) PROVE WorkTyped'
  BY <1>30 DEF Include
<1>31. CASE Finalize
  BY <1>31 DEF Finalize
<1>32. CASE HeadAdvances
  BY <1>32 DEF HeadAdvances
<1>33. CASE Crash
  BY <1>33 DEF Crash, Fault, Abandon
<1>34. ASSUME NEW t \in Attempts, Drop(t) PROVE WorkTyped'
  BY <1>34 DEF Drop, Fault
<1>35. ASSUME NEW t \in Attempts, Reorganize(t) PROVE WorkTyped'
  BY <1>35 DEF Reorganize, Fault
<1>36. CASE ForeignUse
  BY <1>36 DEF ForeignUse, Fault
<1>37. ASSUME NEW i \in Recipient, RequestRetry(i) PROVE WorkTyped'
  BY <1>37 DEF RequestRetry
<1>38. CASE UNCHANGED vars
  BY <1>38 DEF vars
<1> QED
  BY <1>11, <1>12, <1>13, <1>14, <1>15, <1>16, <1>17, <1>18, <1>19, <1>20, <1>21, <1>22, <1>23, <1>24, <1>25, <1>26, <1>27, <1>28, <1>29, <1>30, <1>31, <1>32, <1>33, <1>34, <1>35, <1>36, <1>37, <1>38 DEF Next, RunStep, ChainStep

\* The flags of a run stay flags.
LEMMA StepFlagsTyped == ASSUME IInv, [Next]_vars PROVE FlagsTyped'
<1> USE DEF IInv, Typing, FlagsTyped, payoutState, repository, chain, runVars
<1>11. CASE BeginRun
  BY <1>11 DEF BeginRun
<1>12. CASE RetriesDone
  BY <1>12 DEF RetriesDone
<1>13. CASE BeginRetry
  BY <1>13 DEF BeginRetry
<1>14. CASE Mutate
  BY <1>14 DEF Mutate
<1>15. CASE NextPass
  BY <1>15 DEF NextPass, Abandon
<1>16. CASE ReleaseWalletNonce
  BY <1>16 DEF ReleaseWalletNonce
<1>17. CASE Reconcile
  BY <1>17 DEF Reconcile, Abandon
<1>18. CASE ReserveNonce
  BY <1>18 DEF ReserveNonce, Active, Persisted, Throw, NextRetry, Abandon
<1>19. CASE Sign
  BY <1>19 DEF Sign, Active, Persisted, Throw, NextRetry, Abandon
<1>20. CASE Broadcast
  BY <1>20 DEF Broadcast, Active, Submit, Goto, Throw, NextRetry, Abandon
<1>21. CASE PersistBroadcast
  BY <1>21 DEF PersistBroadcast, SetState, Persisted
<1>22. CASE Settle
  BY <1>22 DEF Settle, Active, SetState, Persisted
<1>23. CASE Refuse
  BY <1>23 DEF Refuse, Active, Quarantine, Goto, Throw, NextRetry, Abandon
<1>24. CASE PersistLiability
  BY <1>24 DEF PersistLiability, SetState, Persisted
<1>25. CASE LookUp
  BY <1>25 DEF LookUp, Active, Unchanged, Goto
<1>26. CASE RecoverDropped
  BY <1>26 DEF RecoverDropped, Quarantine, Submit, Unchanged, Goto, Throw, NextRetry, Abandon
<1>27. CASE OpenOrThrow
  BY <1>27 DEF OpenOrThrow, Active, SetState, Persisted, NextRetry, MayOpen
<1>28. CASE ResolveRetry
  BY <1>28 DEF ResolveRetry, Active, Goto
<1>29. CASE ProjectRetry
  BY <1>29 DEF ProjectRetry, SetState, NextRetry
<1>30. ASSUME NEW t \in Attempts, NEW result \in {"ok", "reverted"}, Include(t, result) PROVE FlagsTyped'
  BY <1>30 DEF Include
<1>31. CASE Finalize
  BY <1>31 DEF Finalize
<1>32. CASE HeadAdvances
  BY <1>32 DEF HeadAdvances
<1>33. CASE Crash
  BY <1>33 DEF Crash, Fault, Abandon
<1>34. ASSUME NEW t \in Attempts, Drop(t) PROVE FlagsTyped'
  BY <1>34 DEF Drop, Fault
<1>35. ASSUME NEW t \in Attempts, Reorganize(t) PROVE FlagsTyped'
  BY <1>35 DEF Reorganize, Fault
<1>36. CASE ForeignUse
  BY <1>36 DEF ForeignUse, Fault
<1>37. ASSUME NEW i \in Recipient, RequestRetry(i) PROVE FlagsTyped'
  BY <1>37 DEF RequestRetry
<1>38. CASE UNCHANGED vars
  BY <1>38 DEF vars
<1> QED
  BY <1>11, <1>12, <1>13, <1>14, <1>15, <1>16, <1>17, <1>18, <1>19, <1>20, <1>21, <1>22, <1>23, <1>24, <1>25, <1>26, <1>27, <1>28, <1>29, <1>30, <1>31, <1>32, <1>33, <1>34, <1>35, <1>36, <1>37, <1>38 DEF Next, RunStep, ChainStep

\* The chain as the wallet sees it keeps its shape.
LEMMA StepChainTyped == ASSUME IInv, [Next]_vars PROVE ChainTyped'
<1>1. work # << >> => Target \in Attempts
  BY WorkShape DEF IInv, Typing, WorkTyped
<1> USE <1>1 DEF IInv, Typing, ChainTyped, WorkInv, payoutState, repository, chain, runVars
<1>11. CASE BeginRun
  BY <1>11 DEF BeginRun
<1>12. CASE RetriesDone
  BY <1>12 DEF RetriesDone
<1>13. CASE BeginRetry
  BY <1>13 DEF BeginRetry
<1>14. CASE Mutate
  BY <1>14 DEF Mutate
<1>15. CASE NextPass
  BY <1>15 DEF NextPass, Abandon
<1>16. CASE ReleaseWalletNonce
  BY <1>16 DEF ReleaseWalletNonce
<1>17. CASE Reconcile
  BY <1>17 DEF Reconcile, Abandon
<1>18. CASE ReserveNonce
  BY <1>18 DEF ReserveNonce, Active, Persisted, Throw, NextRetry, Abandon
<1>19. CASE Sign
  BY <1>19 DEF Sign, Active, Persisted, Throw, NextRetry, Abandon
<1>20. CASE Broadcast
  BY <1>20 DEF Broadcast, Active, Submit, Goto, Throw, NextRetry, Abandon
<1>21. CASE PersistBroadcast
  BY <1>21 DEF PersistBroadcast, SetState, Persisted
<1>22. CASE Settle
  BY <1>22 DEF Settle, Active, SetState, Persisted
<1>23. CASE Refuse
  BY <1>23 DEF Refuse, Active, Quarantine, Goto, Throw, NextRetry, Abandon
<1>24. CASE PersistLiability
  BY <1>24 DEF PersistLiability, SetState, Persisted
<1>25. CASE LookUp
  BY <1>25 DEF LookUp, Active, Unchanged, Goto
<1>26. CASE RecoverDropped
  BY <1>26 DEF RecoverDropped, Quarantine, Submit, Unchanged, Goto, Throw, NextRetry, Abandon
<1>27. CASE OpenOrThrow
  BY <1>27 DEF OpenOrThrow, Active, SetState, Persisted, NextRetry, MayOpen
<1>28. CASE ResolveRetry
  BY <1>28 DEF ResolveRetry, Active, Goto
<1>29. CASE ProjectRetry
  BY <1>29 DEF ProjectRetry, SetState, NextRetry
<1>30. ASSUME NEW t \in Attempts, NEW result \in {"ok", "reverted"}, Include(t, result) PROVE ChainTyped'
  BY <1>30 DEF Include
<1>31. CASE Finalize
  BY <1>31 DEF Finalize
<1>32. CASE HeadAdvances
  BY <1>32 DEF HeadAdvances
<1>33. CASE Crash
  BY <1>33 DEF Crash, Fault, Abandon
<1>34. ASSUME NEW t \in Attempts, Drop(t) PROVE ChainTyped'
  BY <1>34 DEF Drop, Fault
<1>35. ASSUME NEW t \in Attempts, Reorganize(t) PROVE ChainTyped'
  BY <1>35 DEF Reorganize, Fault
<1>36. CASE ForeignUse
  BY <1>36 DEF ForeignUse, Fault
<1>37. ASSUME NEW i \in Recipient, RequestRetry(i) PROVE ChainTyped'
  BY <1>37 DEF RequestRetry
<1>38. CASE UNCHANGED vars
  BY <1>38 DEF vars
<1> QED
  BY <1>11, <1>12, <1>13, <1>14, <1>15, <1>16, <1>17, <1>18, <1>19, <1>20, <1>21, <1>22, <1>23, <1>24, <1>25, <1>26, <1>27, <1>28, <1>29, <1>30, <1>31, <1>32, <1>33, <1>34, <1>35, <1>36, <1>37, <1>38 DEF Next, RunStep, ChainStep

\* The quarantine journal keeps its shape.
LEMMA StepRepositoryTyped == ASSUME IInv, [Next]_vars PROVE RepositoryTyped'
<1>1. work # << >> => Target \in Attempts /\ Target[1] \in Recipient
  BY WorkShape, AttemptShape DEF IInv, Typing, WorkTyped
<1>2. Pending \in Nat
  BY PendingNat DEF IInv, Typing, ChainTyped
<1> USE <1>1, <1>2, AttemptShape DEF IInv, Typing, RepositoryTyped, WorkInv, payoutState, repository, chain, runVars
<1>11. CASE BeginRun
  BY <1>11 DEF BeginRun
<1>12. CASE RetriesDone
  BY <1>12 DEF RetriesDone
<1>13. CASE BeginRetry
  BY <1>13 DEF BeginRetry
<1>14. CASE Mutate
  BY <1>14 DEF Mutate
<1>15. CASE NextPass
  BY <1>15 DEF NextPass, Abandon
<1>16. CASE ReleaseWalletNonce
  BY <1>16 DEF ReleaseWalletNonce
<1>17. CASE Reconcile
  BY <1>17 DEF Reconcile, Abandon
<1>18. CASE ReserveNonce
  BY <1>18 DEF ReserveNonce, Active, Persisted, Throw, NextRetry, Abandon
<1>19. CASE Sign
  BY <1>19 DEF Sign, Active, Persisted, Throw, NextRetry, Abandon
<1>20. CASE Broadcast
  BY <1>20 DEF Broadcast, Active, Submit, Goto, Throw, NextRetry, Abandon
<1>21. CASE PersistBroadcast
  BY <1>21 DEF PersistBroadcast, SetState, Persisted
<1>22. CASE Settle
  BY <1>22 DEF Settle, Active, SetState, Persisted
<1>23. CASE Refuse
  BY <1>23 DEF Refuse, Active, Quarantine, Goto, Throw, NextRetry, Abandon
<1>24. CASE PersistLiability
  BY <1>24 DEF PersistLiability, SetState, Persisted
<1>25. CASE LookUp
  BY <1>25 DEF LookUp, Active, Unchanged, Goto
<1>26. CASE RecoverDropped
  BY <1>26 DEF RecoverDropped, Quarantine, Submit, Unchanged, Goto, Throw, NextRetry, Abandon
<1>27. CASE OpenOrThrow
  BY <1>27 DEF OpenOrThrow, Active, SetState, Persisted, NextRetry, MayOpen
<1>28. CASE ResolveRetry
  BY <1>28 DEF ResolveRetry, Active, Goto
<1>29. CASE ProjectRetry
  BY <1>29 DEF ProjectRetry, SetState, NextRetry
<1>30. ASSUME NEW t \in Attempts, NEW result \in {"ok", "reverted"}, Include(t, result) PROVE RepositoryTyped'
  BY <1>30 DEF Include
<1>31. CASE Finalize
  BY <1>31 DEF Finalize
<1>32. CASE HeadAdvances
  BY <1>32 DEF HeadAdvances
<1>33. CASE Crash
  BY <1>33 DEF Crash, Fault, Abandon
<1>34. ASSUME NEW t \in Attempts, Drop(t) PROVE RepositoryTyped'
  BY <1>34 DEF Drop, Fault
<1>35. ASSUME NEW t \in Attempts, Reorganize(t) PROVE RepositoryTyped'
  BY <1>35 DEF Reorganize, Fault
<1>36. CASE ForeignUse
  BY <1>36 DEF ForeignUse, Fault
<1>37. ASSUME NEW i \in Recipient, RequestRetry(i) PROVE RepositoryTyped'
  BY <1>37 DEF RequestRetry
<1>38. CASE UNCHANGED vars
  BY <1>38 DEF vars
<1> QED
  BY <1>11, <1>12, <1>13, <1>14, <1>15, <1>16, <1>17, <1>18, <1>19, <1>20, <1>21, <1>22, <1>23, <1>24, <1>25, <1>26, <1>27, <1>28, <1>29, <1>30, <1>31, <1>32, <1>33, <1>34, <1>35, <1>36, <1>37, <1>38 DEF Next, RunStep, ChainStep

\* A run is at a known place.
LEMMA StepPlacesTyped == ASSUME IInv, [Next]_vars PROVE PlacesTyped'
<1>1. Pending \in Nat
  BY PendingNat DEF IInv, Typing, ChainTyped
<1> USE <1>1, PayoutAssumption DEF IInv, Typing, PlacesTyped, payoutState, repository, chain, runVars
<1>11. CASE BeginRun
  BY <1>11 DEF BeginRun
<1>12. CASE RetriesDone
  BY <1>12 DEF RetriesDone
<1>13. CASE BeginRetry
  BY <1>13 DEF BeginRetry
<1>14. CASE Mutate
  BY <1>14 DEF Mutate
<1>15. CASE NextPass
  BY <1>15 DEF NextPass, Abandon
<1>16. CASE ReleaseWalletNonce
  BY <1>16 DEF ReleaseWalletNonce
<1>17. CASE Reconcile
  BY <1>17 DEF Reconcile, Abandon
<1>18. CASE ReserveNonce
  BY <1>18 DEF ReserveNonce, Active, Persisted, Throw, NextRetry, Abandon
<1>19. CASE Sign
  BY <1>19 DEF Sign, Active, Persisted, Throw, NextRetry, Abandon
<1>20. CASE Broadcast
  BY <1>20 DEF Broadcast, Active, Submit, Goto, Throw, NextRetry, Abandon
<1>21. CASE PersistBroadcast
  BY <1>21 DEF PersistBroadcast, SetState, Persisted
<1>22. CASE Settle
  BY <1>22 DEF Settle, Active, SetState, Persisted
<1>23. CASE Refuse
  BY <1>23 DEF Refuse, Active, Quarantine, Goto, Throw, NextRetry, Abandon
<1>24. CASE PersistLiability
  BY <1>24 DEF PersistLiability, SetState, Persisted
<1>25. CASE LookUp
  BY <1>25 DEF LookUp, Active, Unchanged, Goto
<1>26. CASE RecoverDropped
  BY <1>26 DEF RecoverDropped, Quarantine, Submit, Unchanged, Goto, Throw, NextRetry, Abandon
<1>27. CASE OpenOrThrow
  BY <1>27 DEF OpenOrThrow, Active, SetState, Persisted, NextRetry, MayOpen
<1>28. CASE ResolveRetry
  BY <1>28 DEF ResolveRetry, Active, Goto
<1>29. CASE ProjectRetry
  BY <1>29 DEF ProjectRetry, SetState, NextRetry
<1>30. ASSUME NEW t \in Attempts, NEW result \in {"ok", "reverted"}, Include(t, result) PROVE PlacesTyped'
  BY <1>30 DEF Include
<1>31. CASE Finalize
  BY <1>31 DEF Finalize
<1>32. CASE HeadAdvances
  BY <1>32 DEF HeadAdvances
<1>33. CASE Crash
  BY <1>33 DEF Crash, Fault, Abandon
<1>34. ASSUME NEW t \in Attempts, Drop(t) PROVE PlacesTyped'
  BY <1>34 DEF Drop, Fault
<1>35. ASSUME NEW t \in Attempts, Reorganize(t) PROVE PlacesTyped'
  BY <1>35 DEF Reorganize, Fault
<1>36. CASE ForeignUse
  BY <1>36 DEF ForeignUse, Fault
<1>37. ASSUME NEW i \in Recipient, RequestRetry(i) PROVE PlacesTyped'
  BY <1>37 DEF RequestRetry
<1>38. CASE UNCHANGED vars
  BY <1>38 DEF vars
<1> QED
  BY <1>11, <1>12, <1>13, <1>14, <1>15, <1>16, <1>17, <1>18, <1>19, <1>20, <1>21, <1>22, <1>23, <1>24, <1>25, <1>26, <1>27, <1>28, <1>29, <1>30, <1>31, <1>32, <1>33, <1>34, <1>35, <1>36, <1>37, <1>38 DEF Next, RunStep, ChainStep

\* The run is where its work allows it to be.
LEMMA StepWorkInv == ASSUME IInv, [Next]_vars PROVE WorkInv'
<1>1. work # << >> => /\ Target \in Attempts /\ Target = work[1] /\ Len(work) \in Nat \ {0}
                       /\ Len(Tail(work)) = Len(work) - 1
                       /\ \A n \in 1..Len(Tail(work)) : Tail(work)[n] = work[n + 1] /\ n + 1 \in 1..Len(work)
  BY WorkShape DEF IInv, Typing, WorkTyped
<1>2. Len(<< >>) = 0 /\ (work' = work => Target' = Target)
  BY DEF Target
<1>3. WorkInv /\ RetryInv /\ Typing
  BY DEF IInv
<1> USE <1>1, <1>2, <1>3, AttemptShape
<1> USE DEF Typing, AttemptsTyped, AttemptType, WorkTyped, ChainTyped, RepositoryTyped, PlacesTyped, WorkInv,
            States, IN_FLIGHT, RESOLVED, Sent, NoNonce, Included, Finalized, payoutState, repository, chain, runVars
<1>11. CASE BeginRun
  <2>1. phase' = "retries" /\ \A n \in 1..Len(work') : work'[n] \in OpenPayoutRetries
    BY <1>11, BeginRunEffect
  <2>2. ASSUME NEW t \in OpenPayoutRetries PROVE IsRetry(t)
    BY DEF OpenPayoutRetries, RetryInv
  <2> QED
    BY <2>1, <2>2
<1>12. CASE RetriesDone
  BY <1>12 DEF RetriesDone
<1>13. CASE BeginRetry
  BY <1>13 DEF BeginRetry
<1>14. CASE Mutate
  BY <1>14 DEF Mutate
<1>15. CASE NextPass
  <2>1. InFlightWindowRecipients \in SUBSET Attempts /\ \A t \in InFlightWindowRecipients : ~IsRetry(t)
    BY DEF InFlightWindowRecipients
  <2>2. ASSUME NEW s \in PlanOrder(InFlightWindowRecipients)
        PROVE  \A n \in 1..Len(s) : ~IsRetry(s[n])
    BY <2>1, SetToSeqsShape DEF PlanOrder
  <2> QED
    BY <1>15, <2>2 DEF NextPass, Abandon
<1>16. CASE ReleaseWalletNonce
  BY <1>16 DEF ReleaseWalletNonce
<1>17. CASE Reconcile
  BY <1>17 DEF Reconcile, Abandon
<1>18. CASE ReserveNonce
  <2>1. phase \in {"pass", "retry"} /\ work # << >> /\ (Throw \/ Persisted)
    BY <1>18, ReserveNonceEffect DEF ReserveNonce
  <2>2. WorkTyped
    BY DEF Typing
  <2>3. WorkInv
    OBVIOUS
  <2> QED
    BY <2>1, <2>2, <2>3, AfterTarget
<1>19. CASE Sign
  <2>1. phase \in {"pass", "retry"} /\ work # << >> /\ (Throw \/ Persisted)
    BY <1>19, SignEffect DEF Sign
  <2>2. WorkTyped
    BY DEF Typing
  <2>3. WorkInv
    OBVIOUS
  <2> QED
    BY <2>1, <2>2, <2>3, AfterTarget
<1>20. CASE Broadcast
  <2>0. WorkTyped /\ WorkInv
    BY DEF Typing
  <2>1. phase \in {"pass", "retry"} /\ work # << >> /\ UNCHANGED attempt /\ attempt[Target].state = "SIGNED"
    BY <1>20 DEF Broadcast, Active
  <2>2. CASE Throw
    BY <2>0, <2>1, <2>2, AfterTarget
  <2>3. CASE Goto("sent")
    <3>1. phase' = "sent" /\ UNCHANGED <<work, attempt>>
      BY <2>1, <2>3 DEF Goto
    <3> QED
      BY <2>0, <2>1, <3>1, SameTarget
  <2> QED
    BY <1>20, <2>2, <2>3 DEF Broadcast, Submit
<1>21. CASE PersistBroadcast
  <2>0. WorkTyped /\ WorkInv
    BY DEF Typing
  <2>1. phase = "sent" /\ Persisted /\ work # << >>
    BY <1>21 DEF PersistBroadcast
  <2> QED
    BY <2>0, <2>1, AfterTarget
<1>22. CASE Settle
  <2>1. phase \in {"pass", "retry"} /\ work # << >> /\ (Persisted)
    BY <1>22 DEF Settle, Active
  <2>2. WorkTyped
    BY DEF Typing
  <2>3. WorkInv
    OBVIOUS
  <2> QED
    BY <2>1, <2>2, <2>3, AfterTarget
<1>23. CASE Refuse
  <2>0. WorkTyped /\ WorkInv
    BY DEF Typing
  <2>1. /\ phase \in {"pass", "retry"} /\ work # << >> /\ UNCHANGED <<attempt, status, final>>
        /\ attempt[Target].state \in IN_FLIGHT /\ Finalized(Target) /\ status[Target] = "reverted"
        /\ ~IsRetry(Target)
    BY <1>23 DEF Refuse, Active
  <2>2. CASE Throw
    BY <2>0, <2>1, <2>2, AfterTarget
  <2>3. CASE Goto("REFUSED")
    <3>1. phase' = "REFUSED" /\ work' = work /\ phase = "pass"
      BY <2>1, <2>3 DEF Goto
    <3> HIDE DEF AttemptsTyped, AttemptType, WorkTyped, ChainTyped, RepositoryTyped, PlacesTyped, Typing
    <3> QED
      BY <2>1, <3>1
  <2> QED
    BY <1>23, <2>2, <2>3 DEF Refuse, Quarantine
<1>24. CASE PersistLiability
  <2>0. WorkTyped /\ WorkInv
    BY DEF Typing
  <2>1. phase \in {"REFUSED", "NONCE_INTERFERENCE"} /\ Persisted /\ work # << >>
    BY <1>24 DEF PersistLiability
  <2> QED
    BY <2>0, <2>1, AfterTarget
<1>25. CASE LookUp
  <2>0. WorkTyped /\ WorkInv
    BY DEF Typing
  <2>1. phase \in {"pass", "retry"} /\ work # << >> /\ UNCHANGED attempt /\ attempt[Target].state = "BROADCAST"
    BY <1>25 DEF LookUp, Active
  <2>2. CASE Unchanged
    BY <2>0, <2>1, <2>2, AfterTarget
  <2>3. CASE Goto("nonces") /\ ~IsRetry(Target)
    <3>1. phase' = "nonces" /\ UNCHANGED <<work, attempt>> /\ phase # "retry"
      BY <2>1, <2>3 DEF Goto
    <3> QED
      BY <2>0, <2>1, <3>1, SameTarget
  <2> QED
    BY <1>25, <2>2, <2>3 DEF LookUp
<1>26. CASE RecoverDropped
  <2>0. WorkTyped /\ WorkInv
    BY DEF Typing
  <2>1. phase = "nonces" /\ work # << >> /\ UNCHANGED attempt /\ attempt[Target].state = "BROADCAST"
    BY <1>26 DEF RecoverDropped
  <2>2. CASE Throw \/ Unchanged
    BY <2>0, <2>1, <2>2, AfterTarget
  <2>3. CASE Goto("NONCE_INTERFERENCE")
    <3>1. phase' = "NONCE_INTERFERENCE" /\ UNCHANGED <<work, attempt>> /\ phase # "retry"
      BY <2>1, <2>3 DEF Goto
    <3> QED
      BY <2>0, <2>1, <3>1, SameTarget
  <2> QED
    BY <1>26, <2>2, <2>3 DEF RecoverDropped, Quarantine, Submit
<1>27. CASE OpenOrThrow
  <2>0. WorkTyped /\ WorkInv
    BY DEF Typing
  <2>1. phase \in {"pass", "retry"} /\ work # << >> /\ retry[Target] = "open" /\ (NextRetry \/ Persisted)
    BY <1>27 DEF OpenOrThrow, Active
  <2>2. IsRetry(Target)
    BY <2>1 DEF RetryInv
  <2>3. Throw \/ Persisted
    BY <2>1, <2>2 DEF Throw
  <2> QED
    BY <2>0, <2>1, <2>3, AfterTarget
<1>28. CASE ResolveRetry
  BY <1>28 DEF ResolveRetry, Active, Goto
<1>29. CASE ProjectRetry
  BY <1>29 DEF ProjectRetry, SetState, NextRetry
<1>30. ASSUME NEW t \in Attempts, NEW result \in {"ok", "reverted"}, Include(t, result) PROVE WorkInv'
  BY <1>30 DEF Include
<1>31. CASE Finalize
  BY <1>31 DEF Finalize
<1>32. CASE HeadAdvances
  BY <1>32 DEF HeadAdvances
<1>33. CASE Crash
  BY <1>33 DEF Crash, Fault, Abandon
<1>34. ASSUME NEW t \in Attempts, Drop(t) PROVE WorkInv'
  BY <1>34 DEF Drop, Fault
<1>35. ASSUME NEW t \in Attempts, Reorganize(t) PROVE WorkInv'
  BY <1>35 DEF Reorganize, Fault
<1>36. CASE ForeignUse
  BY <1>36 DEF ForeignUse, Fault
<1>37. ASSUME NEW i \in Recipient, RequestRetry(i) PROVE WorkInv'
  BY <1>37 DEF RequestRetry
<1>38. CASE UNCHANGED vars
  BY <1>38 DEF vars
<1> QED
  BY <1>11, <1>12, <1>13, <1>14, <1>15, <1>16, <1>17, <1>18, <1>19, <1>20, <1>21, <1>22, <1>23, <1>24, <1>25, <1>26, <1>27, <1>28, <1>29, <1>30, <1>31, <1>32, <1>33, <1>34, <1>35, <1>36, <1>37, <1>38 DEF Next, RunStep, ChainStep

\* Nonces are given once and used in order.
LEMMA StepNonceInv == ASSUME IInv, [Next]_vars PROVE NonceInv'
<1>1. work # << >> => Target \in Attempts /\ Target = work[1]
  BY WorkShape DEF IInv, Typing, WorkTyped
<1>2. Pending \in Nat /\ Pending >= latest
  BY PendingNat DEF IInv, Typing, ChainTyped
<1>3. WorkInv /\ NonceInv /\ RetryInv /\ OutcomeFinal /\ Typing
  BY DEF IInv
<1> USE <1>1, <1>2, <1>3, PayoutAssumption, AttemptShape
<1> USE DEF Typing, AttemptsTyped, AttemptType, WorkTyped, ChainTyped, RepositoryTyped, PlacesTyped, WorkInv, NonceInv, RetryInv, OutcomeFinal,
            States, IN_FLIGHT, RESOLVED, Sent, NoNonce, Included, Finalized, State, payoutState, repository, chain, runVars
<1>11. CASE BeginRun
  <2>1. /\ \A u \in Attempts : attempt'[u].nonce = attempt[u].nonce /\ attempt'[u].state = attempt[u].state
        /\ UNCHANGED <<nextNonce, retry, status, latest, final>>
    BY <1>11, BeginRunEffect
  <2> HIDE DEF AttemptsTyped, AttemptType, WorkTyped, WorkInv, RepositoryTyped, PlacesTyped
  <2> QED
    BY <2>1
<1>12. CASE RetriesDone
  BY <1>12 DEF RetriesDone
<1>13. CASE BeginRetry
  BY <1>13 DEF BeginRetry
<1>14. CASE Mutate
  BY <1>14 DEF Mutate
<1>15. CASE NextPass
  BY <1>15 DEF NextPass, Abandon
<1>16. CASE ReleaseWalletNonce
  BY <1>16 DEF ReleaseWalletNonce
<1>17. CASE Reconcile
  BY <1>17 DEF Reconcile, Abandon
<1>18. CASE ReserveNonce
  <2>0. /\ Target \in Attempts /\ attempt[Target].state = "PREPARED" /\ attempt[Target].nonce = NoNonce
        /\ \A u \in Attempts : attempt'[u].state = attempt[u].state
        /\ \A u \in Attempts \ {Target} : attempt'[u] = attempt[u]
        /\ \/ UNCHANGED <<attempt, nextNonce>>
           \/ /\ attempt'[Target].nonce \in Nat /\ attempt'[Target].nonce >= nextNonce
              /\ nextNonce' = attempt'[Target].nonce + 1
        /\ UNCHANGED <<retry, status, latest, final>>
    BY <1>18, ReserveNonceEffect
  <2>1. /\ \A u \in Attempts : attempt[u].nonce \in Int
        /\ nextNonce \in Int
    OBVIOUS
  <2> HIDE DEF AttemptsTyped, AttemptType, WorkTyped, WorkInv, RepositoryTyped, PlacesTyped
  <2>2. status[Target] = "unsent"
    BY <2>0
  <2>3. CASE UNCHANGED <<attempt, nextNonce>>
    BY <2>0, <2>3
  <2>4. CASE /\ attempt'[Target].nonce \in Nat /\ attempt'[Target].nonce >= nextNonce
             /\ nextNonce' = attempt'[Target].nonce + 1
    <3>1. \A u \in Attempts : attempt'[u].nonce # NoNonce => attempt'[u].nonce < nextNonce'
      BY <2>0, <2>1, <2>4
    <3>2. \A u \in Attempts \ {Target} : attempt'[u].nonce # attempt'[Target].nonce
      BY <2>0, <2>1, <2>4
    <3>3. \A t, u \in Attempts :
             t # u /\ attempt'[t].nonce # NoNonce => attempt'[t].nonce # attempt'[u].nonce
      BY <2>0, <3>2
    <3>4. \A t \in Attempts : /\ attempt'[t].state \in Sent => attempt'[t].nonce # NoNonce
                              /\ status'[t] # "unsent" => attempt'[t].state \in Sent
      BY <2>0
    <3>5. \A t \in Attempts : Included(t)' => attempt'[t].nonce < latest'
      BY <2>0, <2>2
    <3> QED
      BY <3>1, <3>3, <3>4, <3>5
  <2> QED
    BY <2>0, <2>3, <2>4
<1>19. CASE Sign
  <2>0. /\ Target \in Attempts /\ attempt[Target].state = "PREPARED" /\ attempt[Target].nonce # NoNonce
        /\ \A u \in Attempts : attempt'[u].nonce = attempt[u].nonce
        /\ \A u \in Attempts \ {Target} : attempt'[u] = attempt[u]
        /\ UNCHANGED attempt \/ attempt'[Target].state = "SIGNED"
        /\ UNCHANGED <<nextNonce, retry, status, latest, final>>
    BY <1>19, SignEffect
  <2> HIDE DEF AttemptsTyped, AttemptType, WorkTyped, WorkInv, RepositoryTyped, PlacesTyped
  <2>1. CASE UNCHANGED attempt
    BY <2>0, <2>1
  <2>2. CASE attempt'[Target].state = "SIGNED"
    BY <2>0, <2>2
  <2> QED
    BY <2>0, <2>1, <2>2
<1>20. CASE Broadcast
  BY <1>20 DEF Broadcast, Active, Submit, Goto, Throw, NextRetry, Abandon
<1>21. CASE PersistBroadcast
  BY <1>21 DEF PersistBroadcast, SetState, Persisted
<1>22. CASE Settle
  BY <1>22 DEF Settle, Active, SetState, Persisted
<1>23. CASE Refuse
  BY <1>23 DEF Refuse, Active, Quarantine, Goto, Throw, NextRetry, Abandon
<1>24. CASE PersistLiability
  BY <1>24 DEF PersistLiability, SetState, Persisted
<1>25. CASE LookUp
  BY <1>25 DEF LookUp, Active, Unchanged, Goto
<1>26. CASE RecoverDropped
  BY <1>26 DEF RecoverDropped, Quarantine, Submit, Unchanged, Goto, Throw, NextRetry, Abandon
<1>27. CASE OpenOrThrow
  <2>0. AttemptsTyped /\ Target \in Attempts /\ "PREPARED" \in States
    BY <1>27 DEF OpenOrThrow, Active
  <2>1. /\ attempt[Target].state = "none" /\ retry[Target] = "open"
        /\ UNCHANGED <<nextNonce, quarantine, repository, chain, faults>>
    BY <1>27 DEF OpenOrThrow, Active
  <2>2. CASE UNCHANGED attempt
    BY <2>1, <2>2
  <2>3. CASE SetState(Target, "PREPARED") /\ MayOpen(Target)
    <3>1. /\ attempt'[Target].state = "PREPARED"
          /\ \A u \in Attempts : attempt'[u].nonce = attempt[u].nonce
          /\ \A u \in Attempts \ {Target} : attempt'[u] = attempt[u]
      BY <2>0, <2>3, SetStateEffect
    <3> HIDE DEF AttemptsTyped, AttemptType, WorkTyped, WorkInv, RepositoryTyped, PlacesTyped
    <3>2. State(Target[1]) = "REFUSED" /\ IsRetry(Target) /\ Target # Original(Target[1])
      BY <2>0, <2>1, <2>3 DEF MayOpen
    <3> QED
      BY <2>0, <2>1, <3>1, <3>2
  <2> QED
    BY <1>27, <2>2, <2>3 DEF OpenOrThrow
<1>28. CASE ResolveRetry
  BY <1>28 DEF ResolveRetry, Active, Goto
<1>29. CASE ProjectRetry
  BY <1>29 DEF ProjectRetry, SetState, NextRetry
<1>30. ASSUME NEW t \in Attempts, NEW result \in {"ok", "reverted"}, Include(t, result) PROVE NonceInv'
  <2>1. /\ \A u \in Attempts : attempt[u].nonce \in Int
        /\ latest \in Nat /\ attempt[t].nonce = latest /\ latest' = latest + 1
        /\ status[t] # "unsent" /\ \A u \in Attempts \ {t} : status'[u] = status[u]
        /\ UNCHANGED <<attempt, nextNonce>>
    BY <1>30 DEF Include
  <2> HIDE DEF AttemptsTyped, AttemptType, WorkTyped, WorkInv, RepositoryTyped, PlacesTyped, ChainTyped
  <2> QED
    BY <2>1
<1>31. CASE Finalize
  BY <1>31 DEF Finalize
<1>32. CASE HeadAdvances
  BY <1>32 DEF HeadAdvances
<1>33. CASE Crash
  BY <1>33 DEF Crash, Fault, Abandon
<1>34. ASSUME NEW t \in Attempts, Drop(t) PROVE NonceInv'
  BY <1>34 DEF Drop, Fault
<1>35. ASSUME NEW t \in Attempts, Reorganize(t) PROVE NonceInv'
  BY <1>35 DEF Reorganize, Fault
<1>36. CASE ForeignUse
  BY <1>36 DEF ForeignUse, Fault
<1>37. ASSUME NEW i \in Recipient, RequestRetry(i) PROVE NonceInv'
  BY <1>37 DEF RequestRetry
<1>38. CASE UNCHANGED vars
  BY <1>38 DEF vars
<1> QED
  BY <1>11, <1>12, <1>13, <1>14, <1>15, <1>16, <1>17, <1>18, <1>19, <1>20, <1>21, <1>22, <1>23, <1>24, <1>25, <1>26, <1>27, <1>28, <1>29, <1>30, <1>31, <1>32, <1>33, <1>34, <1>35, <1>36, <1>37, <1>38 DEF Next, RunStep, ChainStep

\* Retries follow refusals, one at a time.
LEMMA StepRetryInv == ASSUME IInv, [Next]_vars PROVE RetryInv'
<1>1. work # << >> => Target \in Attempts /\ Target = work[1]
  BY WorkShape DEF IInv, Typing, WorkTyped
<1>2. Pending \in Nat /\ Pending >= latest
  BY PendingNat DEF IInv, Typing, ChainTyped
<1>3. WorkInv /\ NonceInv /\ RetryInv /\ OutcomeFinal /\ Typing
  BY DEF IInv
<1> USE <1>1, <1>2, <1>3, PayoutAssumption, AttemptShape
<1> USE DEF Typing, AttemptsTyped, AttemptType, WorkTyped, ChainTyped, RepositoryTyped, PlacesTyped, WorkInv, NonceInv, RetryInv, OutcomeFinal,
            States, IN_FLIGHT, RESOLVED, Sent, NoNonce, Included, Finalized, State, payoutState, repository, chain, runVars
<1>11. CASE BeginRun
  <2>1. /\ \A u \in Attempts : attempt'[u].nonce = attempt[u].nonce /\ attempt'[u].state = attempt[u].state
        /\ UNCHANGED <<nextNonce, retry, status, latest, final>>
    BY <1>11, BeginRunEffect
  <2> HIDE DEF AttemptsTyped, AttemptType, WorkTyped, WorkInv, RepositoryTyped, PlacesTyped
  <2> QED
    BY <2>1
<1>12. CASE RetriesDone
  BY <1>12 DEF RetriesDone
<1>13. CASE BeginRetry
  BY <1>13 DEF BeginRetry
<1>14. CASE Mutate
  BY <1>14 DEF Mutate
<1>15. CASE NextPass
  BY <1>15 DEF NextPass, Abandon
<1>16. CASE ReleaseWalletNonce
  BY <1>16 DEF ReleaseWalletNonce
<1>17. CASE Reconcile
  BY <1>17 DEF Reconcile, Abandon
<1>18. CASE ReserveNonce
  <2>0. /\ Target \in Attempts /\ attempt[Target].state = "PREPARED" /\ attempt[Target].nonce = NoNonce
        /\ \A u \in Attempts : attempt'[u].state = attempt[u].state
        /\ \A u \in Attempts \ {Target} : attempt'[u] = attempt[u]
        /\ \/ UNCHANGED <<attempt, nextNonce>>
           \/ /\ attempt'[Target].nonce \in Nat /\ attempt'[Target].nonce >= nextNonce
              /\ nextNonce' = attempt'[Target].nonce + 1
        /\ UNCHANGED <<retry, status, latest, final>>
    BY <1>18, ReserveNonceEffect
  <2>1. /\ \A u \in Attempts : attempt[u].nonce \in Int
        /\ nextNonce \in Int
    OBVIOUS
  <2> HIDE DEF AttemptsTyped, AttemptType, WorkTyped, WorkInv, RepositoryTyped, PlacesTyped
  <2>2. status[Target] = "unsent"
    BY <2>0
  <2>3. CASE UNCHANGED <<attempt, nextNonce>>
    BY <2>0, <2>3
  <2>4. CASE /\ attempt'[Target].nonce \in Nat /\ attempt'[Target].nonce >= nextNonce
             /\ nextNonce' = attempt'[Target].nonce + 1
    BY <2>0, <2>1, <2>2, <2>4
  <2> QED
    BY <2>0, <2>3, <2>4
<1>19. CASE Sign
  <2>0. /\ Target \in Attempts /\ attempt[Target].state = "PREPARED" /\ attempt[Target].nonce # NoNonce
        /\ \A u \in Attempts : attempt'[u].nonce = attempt[u].nonce
        /\ \A u \in Attempts \ {Target} : attempt'[u] = attempt[u]
        /\ UNCHANGED attempt \/ attempt'[Target].state = "SIGNED"
        /\ UNCHANGED <<nextNonce, retry, status, latest, final>>
    BY <1>19, SignEffect
  <2> HIDE DEF AttemptsTyped, AttemptType, WorkTyped, WorkInv, RepositoryTyped, PlacesTyped
  <2>1. CASE UNCHANGED attempt
    BY <2>0, <2>1
  <2>2. CASE attempt'[Target].state = "SIGNED"
    BY <2>0, <2>2
  <2> QED
    BY <2>0, <2>1, <2>2
<1>20. CASE Broadcast
  BY <1>20 DEF Broadcast, Active, Submit, Goto, Throw, NextRetry, Abandon
<1>21. CASE PersistBroadcast
  BY <1>21 DEF PersistBroadcast, SetState, Persisted
<1>22. CASE Settle
  BY <1>22 DEF Settle, Active, SetState, Persisted
<1>23. CASE Refuse
  BY <1>23 DEF Refuse, Active, Quarantine, Goto, Throw, NextRetry, Abandon
<1>24. CASE PersistLiability
  BY <1>24 DEF PersistLiability, SetState, Persisted
<1>25. CASE LookUp
  BY <1>25 DEF LookUp, Active, Unchanged, Goto
<1>26. CASE RecoverDropped
  BY <1>26 DEF RecoverDropped, Quarantine, Submit, Unchanged, Goto, Throw, NextRetry, Abandon
<1>27. CASE OpenOrThrow
  <2>0. AttemptsTyped /\ Target \in Attempts /\ "PREPARED" \in States
    BY <1>27 DEF OpenOrThrow, Active
  <2>1. /\ attempt[Target].state = "none" /\ retry[Target] = "open"
        /\ UNCHANGED <<nextNonce, quarantine, repository, chain, faults>>
    BY <1>27 DEF OpenOrThrow, Active
  <2>2. CASE UNCHANGED attempt
    BY <2>1, <2>2
  <2>3. CASE SetState(Target, "PREPARED") /\ MayOpen(Target)
    <3>1. /\ attempt'[Target].state = "PREPARED"
          /\ \A u \in Attempts : attempt'[u].nonce = attempt[u].nonce
          /\ \A u \in Attempts \ {Target} : attempt'[u] = attempt[u]
      BY <2>0, <2>3, SetStateEffect
    <3> HIDE DEF AttemptsTyped, AttemptType, WorkTyped, WorkInv, RepositoryTyped, PlacesTyped
    <3>2. State(Target[1]) = "REFUSED" /\ IsRetry(Target) /\ Target # Original(Target[1])
      BY <2>0, <2>1, <2>3 DEF MayOpen
    <3> QED
      BY <2>0, <2>1, <3>1, <3>2
  <2> QED
    BY <1>27, <2>2, <2>3 DEF OpenOrThrow
<1>28. CASE ResolveRetry
  <2>1. /\ Target \in Attempts /\ retry[Target] = "open" /\ IsRetry(Target)
        /\ Finalized(Target) /\ UNCHANGED <<attempt, status, final>>
        /\ retry'[Target] = (IF status[Target] = "ok" THEN "settled" ELSE "REFUSED")
        /\ \A t \in Attempts \ {Target} : retry'[t] = retry[t]
    BY <1>28 DEF ResolveRetry, Active
  <2> HIDE DEF AttemptsTyped, AttemptType, WorkTyped, WorkInv, PlacesTyped, ChainTyped, NonceInv, OutcomeFinal,
               RepositoryTyped
  <2> QED
    BY <2>1
<1>29. CASE ProjectRetry
  <2>0. AttemptsTyped /\ Target \in Attempts /\ "FINALIZED" \in States /\ "REFUSED" \in States
    BY <1>29 DEF ProjectRetry
  <2>1. /\ retry[Target] \in {"REFUSED", "settled"} /\ UNCHANGED <<retry, chain>>
        /\ SetState(Target, "FINALIZED") \/ SetState(Target, "REFUSED")
    BY <1>29 DEF ProjectRetry
  <2>2. /\ \A u \in Attempts : attempt'[u].nonce = attempt[u].nonce
        /\ \A u \in Attempts \ {Target} : attempt'[u] = attempt[u]
    BY <2>0, <2>1, SetStateEffect
  <2> HIDE DEF AttemptsTyped, AttemptType, WorkTyped, WorkInv, PlacesTyped, ChainTyped, RepositoryTyped, OutcomeFinal
  <2>3. attempt[Target].state \in Sent /\ IsRetry(Target)
    BY <2>0, <2>1
  <2>4. State(Target[1]) = "REFUSED" /\ Target # Original(Target[1])
    BY <2>0, <2>3
  <2>5. \A i \in Recipient : State(i)' = State(i) \/ Target = Original(i)
    BY <2>0, <2>2
  <2> HIDE DEF NonceInv
  <2> QED
    BY <2>0, <2>1, <2>2, <2>3, <2>4, <2>5
<1>30. ASSUME NEW t \in Attempts, NEW result \in {"ok", "reverted"}, Include(t, result) PROVE RetryInv'
  BY <1>30 DEF Include
<1>31. CASE Finalize
  BY <1>31 DEF Finalize
<1>32. CASE HeadAdvances
  BY <1>32 DEF HeadAdvances
<1>33. CASE Crash
  BY <1>33 DEF Crash, Fault, Abandon
<1>34. ASSUME NEW t \in Attempts, Drop(t) PROVE RetryInv'
  BY <1>34 DEF Drop, Fault
<1>35. ASSUME NEW t \in Attempts, Reorganize(t) PROVE RetryInv'
  BY <1>35 DEF Reorganize, Fault
<1>36. CASE ForeignUse
  BY <1>36 DEF ForeignUse, Fault
<1>37. ASSUME NEW i \in Recipient, RequestRetry(i) PROVE RetryInv'
  <2>1. PICK k \in 1..MaxRetries :
          /\ retry[<<i, k>>] = "none"
          /\ retry' = [retry EXCEPT ![<<i, k>>] = "open"]
    BY <1>37 DEF RequestRetry
  <2>2. /\ \A t \in Attempts : t[1] = i => retry[t] \notin {"open", "settled"}
        /\ UNCHANGED <<attempt, status, final>>
    <3>1. /\ \A j \in 1..MaxRetries : retry[<<i, j>>] \notin {"open", "settled"}
          /\ UNCHANGED <<attempt, status, final>>
      BY <1>37 DEF RequestRetry
    <3>2. ASSUME NEW t \in Attempts, t[1] = i, retry[t] # "none"
          PROVE  \E j \in 1..MaxRetries : t = <<i, j>>
      <4>1. IsRetry(t)
        BY <3>2
      <4> QED
        BY <3>2, <4>1 DEF Attempts, IsRetry, Recipient
    <3> QED
      BY <3>1, <3>2
  <2>3. /\ <<i, k>> \in Attempts /\ IsRetry(<<i, k>>) /\ <<i, k>>[1] = i /\ retry'[<<i, k>>] = "open"
        /\ \A t \in Attempts \ {<<i, k>>} : retry'[t] = retry[t]
    BY <2>1
  <2> HIDE DEF AttemptsTyped, AttemptType, WorkTyped, WorkInv, PlacesTyped, ChainTyped, NonceInv, OutcomeFinal
  <2> QED
    BY <2>1, <2>2, <2>3
<1>38. CASE UNCHANGED vars
  BY <1>38 DEF vars
<1> QED
  BY <1>11, <1>12, <1>13, <1>14, <1>15, <1>16, <1>17, <1>18, <1>19, <1>20, <1>21, <1>22, <1>23, <1>24, <1>25, <1>26, <1>27, <1>28, <1>29, <1>30, <1>31, <1>32, <1>33, <1>34, <1>35, <1>36, <1>37, <1>38 DEF Next, RunStep, ChainStep

\* A recorded outcome is final and stays so.
LEMMA StepOutcomeFinal == ASSUME IInv, [Next]_vars PROVE OutcomeFinal'
<1>1. work # << >> => Target \in Attempts /\ Target = work[1]
  BY WorkShape DEF IInv, Typing, WorkTyped
<1>2. Pending \in Nat /\ Pending >= latest
  BY PendingNat DEF IInv, Typing, ChainTyped
<1>3. WorkInv /\ NonceInv /\ RetryInv /\ OutcomeFinal /\ Typing
  BY DEF IInv
<1> USE <1>1, <1>2, <1>3, PayoutAssumption, AttemptShape
<1> USE DEF Typing, AttemptsTyped, AttemptType, WorkTyped, ChainTyped, RepositoryTyped, PlacesTyped, WorkInv, NonceInv, RetryInv, OutcomeFinal,
            States, IN_FLIGHT, RESOLVED, Sent, NoNonce, Included, Finalized, State, payoutState, repository, chain, runVars
<1>11. CASE BeginRun
  <2>1. /\ \A u \in Attempts : attempt'[u].nonce = attempt[u].nonce /\ attempt'[u].state = attempt[u].state
        /\ UNCHANGED <<nextNonce, retry, status, latest, final>>
    BY <1>11, BeginRunEffect
  <2> HIDE DEF AttemptsTyped, AttemptType, WorkTyped, WorkInv, RepositoryTyped, PlacesTyped
  <2> QED
    BY <2>1
<1>12. CASE RetriesDone
  BY <1>12 DEF RetriesDone
<1>13. CASE BeginRetry
  BY <1>13 DEF BeginRetry
<1>14. CASE Mutate
  BY <1>14 DEF Mutate
<1>15. CASE NextPass
  BY <1>15 DEF NextPass, Abandon
<1>16. CASE ReleaseWalletNonce
  BY <1>16 DEF ReleaseWalletNonce
<1>17. CASE Reconcile
  BY <1>17 DEF Reconcile, Abandon
<1>18. CASE ReserveNonce
  BY <1>18 DEF ReserveNonce, Active, Persisted, Throw, NextRetry, Abandon
<1>19. CASE Sign
  BY <1>19 DEF Sign, Active, Persisted, Throw, NextRetry, Abandon
<1>20. CASE Broadcast
  BY <1>20 DEF Broadcast, Active, Submit, Goto, Throw, NextRetry, Abandon
<1>21. CASE PersistBroadcast
  BY <1>21 DEF PersistBroadcast, SetState, Persisted
<1>22. CASE Settle
  BY <1>22 DEF Settle, Active, SetState, Persisted
<1>23. CASE Refuse
  BY <1>23 DEF Refuse, Active, Quarantine, Goto, Throw, NextRetry, Abandon
<1>24. CASE PersistLiability
  BY <1>24 DEF PersistLiability, SetState, Persisted
<1>25. CASE LookUp
  BY <1>25 DEF LookUp, Active, Unchanged, Goto
<1>26. CASE RecoverDropped
  BY <1>26 DEF RecoverDropped, Quarantine, Submit, Unchanged, Goto, Throw, NextRetry, Abandon
<1>27. CASE OpenOrThrow
  <2>0. AttemptsTyped /\ Target \in Attempts /\ "PREPARED" \in States
    BY <1>27 DEF OpenOrThrow, Active
  <2>1. /\ attempt[Target].state = "none" /\ retry[Target] = "open"
        /\ UNCHANGED <<nextNonce, quarantine, repository, chain, faults>>
    BY <1>27 DEF OpenOrThrow, Active
  <2>2. CASE UNCHANGED attempt
    BY <2>1, <2>2
  <2>3. CASE SetState(Target, "PREPARED") /\ MayOpen(Target)
    <3>1. /\ attempt'[Target].state = "PREPARED"
          /\ \A u \in Attempts : attempt'[u].nonce = attempt[u].nonce
          /\ \A u \in Attempts \ {Target} : attempt'[u] = attempt[u]
      BY <2>0, <2>3, SetStateEffect
    <3> HIDE DEF AttemptsTyped, AttemptType, WorkTyped, WorkInv, RepositoryTyped, PlacesTyped
    <3>2. State(Target[1]) = "REFUSED" /\ IsRetry(Target) /\ Target # Original(Target[1])
      BY <2>0, <2>1, <2>3 DEF MayOpen
    <3> QED
      BY <2>0, <2>1, <3>1, <3>2
  <2> QED
    BY <1>27, <2>2, <2>3 DEF OpenOrThrow
<1>28. CASE ResolveRetry
  BY <1>28 DEF ResolveRetry, Active, Goto
<1>29. CASE ProjectRetry
  BY <1>29 DEF ProjectRetry, SetState, NextRetry
<1>30. ASSUME NEW t \in Attempts, NEW result \in {"ok", "reverted"}, Include(t, result) PROVE OutcomeFinal'
  BY <1>30 DEF Include
<1>31. CASE Finalize
  BY <1>31 DEF Finalize
<1>32. CASE HeadAdvances
  BY <1>32 DEF HeadAdvances
<1>33. CASE Crash
  BY <1>33 DEF Crash, Fault, Abandon
<1>34. ASSUME NEW t \in Attempts, Drop(t) PROVE OutcomeFinal'
  BY <1>34 DEF Drop, Fault
<1>35. ASSUME NEW t \in Attempts, Reorganize(t) PROVE OutcomeFinal'
  BY <1>35 DEF Reorganize, Fault
<1>36. CASE ForeignUse
  BY <1>36 DEF ForeignUse, Fault
<1>37. ASSUME NEW i \in Recipient, RequestRetry(i) PROVE OutcomeFinal'
  BY <1>37 DEF RequestRetry
<1>38. CASE UNCHANGED vars
  BY <1>38 DEF vars
<1> QED
  BY <1>11, <1>12, <1>13, <1>14, <1>15, <1>16, <1>17, <1>18, <1>19, <1>20, <1>21, <1>22, <1>23, <1>24, <1>25, <1>26, <1>27, <1>28, <1>29, <1>30, <1>31, <1>32, <1>33, <1>34, <1>35, <1>36, <1>37, <1>38 DEF Next, RunStep, ChainStep

-----------------------------------------------------------------------------
LEMMA InitInvariant == Init => IInv
<1> SUFFICES ASSUME Init PROVE IInv
  OBVIOUS
<1>1. AttemptsTyped /\ \A t \in Attempts : attempt[t].nonce = NoNonce
  BY DEF Init, AttemptsTyped, AttemptType, States, IN_FLIGHT, RESOLVED, NoNonce
<1>2. \A t \in Attempts : /\ attempt[t].state = (IF IsRetry(t) THEN "none" ELSE "PREPARED")
                          /\ status[t] = "unsent" /\ retry[t] = "none"
  BY DEF Init
<1>3. /\ WorkTyped
      /\ FlagsTyped
      /\ ChainTyped
      /\ RepositoryTyped
      /\ PlacesTyped
  <2>0. WorkTyped
    BY DEF Init, WorkTyped
  <2>1. FlagsTyped
    BY DEF Init, FlagsTyped
  <2>2. ChainTyped
    BY DEF Init, ChainTyped
  <2>3. NoEvidence \in [reason : {"none", "TRANSACTION_REVERTED", "NONCE_INTERFERENCE"}, observed : Nat]
    BY DEF NoEvidence
  <2>4. RepositoryTyped
    BY <2>3 DEF Init, RepositoryTyped
  <2>5. PlacesTyped
    BY PayoutAssumption DEF Init, PlacesTyped
  <2> QED
    BY <2>0, <2>1, <2>2, <2>4, <2>5
<1>4. WorkInv
  BY DEF Init, WorkInv
<1>5. NonceInv /\ RetryInv /\ OutcomeFinal
  BY <1>1, <1>2 DEF NonceInv, RetryInv, OutcomeFinal, Included, Finalized, Sent, IN_FLIGHT, RESOLVED
<1> QED
  BY <1>1, <1>3, <1>4, <1>5 DEF IInv, Typing

LEMMA StepInvariant == IInv /\ [Next]_vars => IInv'
BY StepAttemptsTyped, StepWorkTyped, StepFlagsTyped, StepChainTyped, StepRepositoryTyped,
   StepPlacesTyped, StepWorkInv, StepNonceInv, StepRetryInv, StepOutcomeFinal
   DEF IInv, Typing

LEMMA Invariance == Spec => []IInv
BY InitInvariant, StepInvariant, PTL DEF Spec

-----------------------------------------------------------------------------
(* The theorems *)

\* The payout state, the journal and the run of payout.mjs have the types the
\* model gives them, after any crash, fault and retry.
THEOREM TypeCorrect == Spec => []TypeOK
<1>1. IInv => TypeOK
  BY DEF IInv, Typing, AttemptsTyped, AttemptType, States, WorkTyped, FlagsTyped, ChainTyped,
         RepositoryTyped, PlacesTyped, TypeOK
<1> QED
  BY <1>1, Invariance, PTL

\* What the payout state records as FINALIZED or REFUSED is the finalized outcome
\* on chain: no reorganization, late inclusion or retry can contradict it.
THEOREM OutcomesAreFinal == Spec => []OutcomeFinal
<1>1. IInv => OutcomeFinal
  BY DEF IInv
<1> QED
  BY <1>1, Invariance, PTL

\* No two transfers to a recipient succeed, the plan's and its retries counted,
\* however many recipients, retries, crashes and reorganizations there are.
THEOREM NobodyPaidTwice == Spec => []PaidOnce
<1>1. ASSUME IInv, NEW i \in Recipient
      PROVE  Cardinality({k \in 0..MaxRetries : status[<<i, k>>] = "ok"}) <= 1
  <2> DEFINE paid == {k \in 0..MaxRetries : status[<<i, k>>] = "ok"}
  <2>1. \A k \in paid : <<i, k>> \in Attempts /\ attempt[<<i, k>>].state \in Sent
    BY <1>1 DEF IInv, NonceInv, Attempts
  <2>2. \A k \in paid : k # 0 => retry[<<i, k>>] \in {"open", "settled"} /\ State(i) = "REFUSED"
    <3> SUFFICES ASSUME NEW k \in paid, k # 0
                 PROVE  retry[<<i, k>>] \in {"open", "settled"} /\ State(i) = "REFUSED"
      OBVIOUS
    <3>1. IsRetry(<<i, k>>) /\ attempt[<<i, k>>].state # "none" /\ <<i, k>>[1] = i
      BY <2>1, PayoutAssumption DEF IsRetry, Sent, IN_FLIGHT, RESOLVED
    <3>2. retry[<<i, k>>] # "none" /\ State(i) = "REFUSED"
      BY <1>1, <2>1, <3>1 DEF IInv, RetryInv
    <3>3. retry[<<i, k>>] # "REFUSED"
      BY <1>1, <2>1 DEF IInv, RetryInv
    <3> QED
      BY <1>1, <2>1, <3>2, <3>3 DEF IInv, Typing, RepositoryTyped
  <2>3. 0 \in paid => State(i) # "REFUSED"
    BY <1>1, <2>1 DEF IInv, OutcomeFinal, State, Original
  <2>4. \A k, m \in paid : k = m
    <3> SUFFICES ASSUME NEW k \in paid, NEW m \in paid, k # m PROVE FALSE
      OBVIOUS
    <3>1. k # 0 /\ m # 0
      BY <2>2, <2>3
    <3>2. <<i, k>> # <<i, m>> /\ <<i, k>>[1] = <<i, m>>[1]
      OBVIOUS
    <3> QED
      BY <1>1, <2>1, <2>2, <3>1, <3>2 DEF IInv, RetryInv
  <2> HIDE DEF paid
  <2>5. paid = {} => Cardinality(paid) <= 1
    BY FS_EmptySet
  <2>6. ASSUME NEW k, paid = {k} PROVE Cardinality(paid) <= 1
    <3>1. Cardinality({k}) = 1
      BY FS_Singleton
    <3> QED
      BY <2>6, <3>1
  <2>7. paid # {} => \E k : paid = {k}
    BY <2>4
  <2>8. Cardinality(paid) <= 1
    BY <2>5, <2>6, <2>7
  <2> QED
    BY <2>8 DEF paid
<1>2. IInv => PaidOnce
  BY <1>1 DEF PaidOnce
<1> QED
  BY <1>2, Invariance, PTL

-----------------------------------------------------------------------------
(***************************************************************************)
(* Liabilities.  A recipient enters the quarantine of the payout state     *)
(* only after the repository holds its evidence, which nothing removes.  A *)
(* settled payout has only retries left, and a retry that is recorded as   *)
(* paid takes its recipient out of the quarantine in the same write.       *)
(***************************************************************************)

Owed ==
    /\ \A i \in quarantine : reservation[i] # NoEvidence
    /\ phase \in {"REFUSED", "NONCE_INTERFERENCE"} => reservation[Target[1]] # NoEvidence

RetriesPaid == \A t \in Attempts : IsRetry(t) /\ attempt[t].state = "FINALIZED" => retry[t] = "settled"

OnlyRetries ==
    settled => phase \in {"idle", "retries", "retry", "sent"} /\ \A n \in 1..Len(work) : IsRetry(work[n])

Balanced == \A i \in Recipient : Paid(i) # (i \in quarantine)

LiabilityInv == Owed /\ RetriesPaid /\ OnlyRetries /\ (settled => Balanced)

\* The same transfers are recorded as paid.
SamePaid == \A t \in Attempts : attempt'[t].state = "FINALIZED" <=> attempt[t].state = "FINALIZED"

LEMMA BalancedKept ==
    ASSUME SamePaid, quarantine' = quarantine, Balanced
    PROVE  Balanced'
<1>1. ASSUME NEW i \in Recipient PROVE Paid(i)' = Paid(i)
  <2>1. \A k \in 0..MaxRetries : <<i, k>> \in Attempts
    BY DEF Attempts
  <2> QED BY <2>1 DEF Paid, SamePaid
<1> QED BY <1>1 DEF Balanced

\* Only three steps record an outcome.
LEMMA OutcomesKept ==
    ASSUME IInv, [Next]_vars
    PROVE  (SamePaid /\ quarantine' = quarantine) \/ Settle \/ PersistLiability \/ ProjectRetry
<1>t. AttemptsTyped /\ WorkInv /\ (work # << >> => Target \in Attempts)
  BY WorkShape DEF IInv, Typing, WorkTyped
<1>a. ASSUME NEW t \in Attempts, NEW s \in States, SetState(t, s),
             attempt[t].state # "FINALIZED", s # "FINALIZED"
      PROVE  SamePaid
  BY <1>a, <1>t, SetStateEffect DEF SamePaid
<1>1. CASE BeginRun
  BY <1>1, <1>t, BeginRunEffect DEF SamePaid
<1>2. CASE ReserveNonce
  BY <1>2, ReserveNonceEffect DEF SamePaid, IInv
<1>3. CASE Sign
  <2>1. /\ Target \in Attempts /\ attempt[Target].state = "PREPARED" /\ quarantine' = quarantine
        /\ \A u \in Attempts \ {Target} : attempt'[u] = attempt[u]
        /\ UNCHANGED attempt \/ attempt'[Target].state = "SIGNED"
    BY <1>3, SignEffect DEF IInv
  <2> QED BY <2>1 DEF SamePaid
<1>4. CASE PersistBroadcast
  <2>1. /\ SetState(Target, "BROADCAST") /\ quarantine' = quarantine /\ work # << >>
        /\ attempt[Target].state = "SIGNED"
    BY <1>4, <1>t DEF PersistBroadcast, WorkInv
  <2>2. "BROADCAST" \in States
    BY DEF States, IN_FLIGHT
  <2> QED BY <1>a, <1>t, <2>1, <2>2
<1>5. CASE OpenOrThrow
  <2>1. /\ SetState(Target, "PREPARED") \/ attempt' = attempt
        /\ quarantine' = quarantine /\ work # << >> /\ attempt[Target].state = "none"
    BY <1>5, <1>t DEF OpenOrThrow, Active
  <2>2. "PREPARED" \in States
    BY DEF States
  <2>3. CASE attempt' = attempt
    BY <2>1, <2>3 DEF SamePaid
  <2> QED BY <1>a, <1>t, <2>1, <2>2, <2>3
<1>6. CASE \/ RetriesDone \/ BeginRetry \/ Mutate \/ NextPass \/ ReleaseWalletNonce \/ Reconcile
           \/ Broadcast \/ Refuse \/ LookUp \/ RecoverDropped \/ ResolveRetry
  <2>1. UNCHANGED <<attempt, quarantine>>
    BY <1>6, Zenon DEF RetriesDone, BeginRetry, Mutate, NextPass, ReleaseWalletNonce, Reconcile,
       Broadcast, Refuse, LookUp, RecoverDropped, ResolveRetry, payoutState
  <2> QED BY <2>1 DEF SamePaid
<1>7. CASE ChainStep
  <2>1. UNCHANGED <<attempt, quarantine>>
    BY <1>7, Zenon DEF ChainStep, Include, Finalize, HeadAdvances, payoutState
  <2> QED BY <2>1 DEF SamePaid
<1>8. CASE Crash \/ (\E t \in Attempts : Drop(t) \/ Reorganize(t)) \/ ForeignUse
           \/ (\E i \in Recipient : RequestRetry(i)) \/ UNCHANGED vars
  <2>1. UNCHANGED <<attempt, quarantine>>
    BY <1>8, Zenon DEF Crash, Drop, Reorganize, ForeignUse, RequestRetry, vars, payoutState
  <2> QED BY <2>1 DEF SamePaid
<1> QED BY <1>1, <1>2, <1>3, <1>4, <1>5, <1>6, <1>7, <1>8, Zenon DEF Next, RunStep

\* The journal never takes back that a retry was paid.
LEMMA PaidRetriesStay ==
    ASSUME IInv, [Next]_vars
    PROVE  \A t \in Attempts : retry[t] = "settled" => retry'[t] = "settled"
<1>t. retry \in [Attempts -> {"none", "open", "REFUSED", "settled"}]
  BY DEF IInv, Typing, RepositoryTyped
<1>1. CASE ResolveRetry
  BY <1>1, <1>t DEF ResolveRetry
<1>2. ASSUME NEW i \in Recipient, RequestRetry(i)
      PROVE  \A t \in Attempts : retry[t] = "settled" => retry'[t] = "settled"
  BY <1>2, <1>t DEF RequestRetry
<1>3. ASSUME retry' = retry
      PROVE  \A t \in Attempts : retry[t] = "settled" => retry'[t] = "settled"
  BY <1>3
<1>4. CASE \/ BeginRun \/ RetriesDone \/ BeginRetry \/ Mutate \/ NextPass \/ ReleaseWalletNonce \/ Reconcile
           \/ ReserveNonce \/ Sign \/ Broadcast \/ PersistBroadcast \/ Settle
           \/ Refuse \/ PersistLiability \/ LookUp \/ RecoverDropped \/ OpenOrThrow \/ ProjectRetry
  BY <1>3, <1>4, Zenon DEF BeginRun, RetriesDone, BeginRetry, Mutate, NextPass, ReleaseWalletNonce, Reconcile,
     ReserveNonce, Sign, Broadcast, PersistBroadcast, Settle, Refuse, PersistLiability, LookUp,
     RecoverDropped, OpenOrThrow, ProjectRetry, repository
<1>5. CASE \/ ChainStep \/ Crash \/ (\E t \in Attempts : Drop(t) \/ Reorganize(t)) \/ ForeignUse
           \/ UNCHANGED vars
  BY <1>3, <1>5, Zenon DEF ChainStep, Include, Finalize, HeadAdvances, Crash, Drop, Reorganize, ForeignUse,
     vars, repository
<1> QED BY <1>1, <1>2, <1>4, <1>5, Zenon DEF Next, RunStep

\* What a retry is recorded with follows the journal.
LEMMA ProjectRetryEffect ==
    ASSUME IInv, ProjectRetry
    PROVE  /\ Target \in Attempts /\ IsRetry(Target) /\ Target[1] \in Recipient
           /\ retry' = retry /\ retry[Target] \in {"REFUSED", "settled"}
           /\ attempt'[Target].state = (IF retry[Target] = "settled" THEN "FINALIZED" ELSE "REFUSED")
           /\ \A u \in Attempts \ {Target} : attempt'[u] = attempt[u]
           /\ quarantine' = (IF retry[Target] = "settled" THEN quarantine \ {Target[1]} ELSE quarantine)
<1>1. /\ phase = "retry" /\ work # << >> /\ \A n \in 1..Len(work) : IsRetry(work[n])
  BY DEF ProjectRetry, IInv, WorkInv
<1>2. Target \in Attempts /\ Target = work[1] /\ Len(work) \in Nat \ {0} /\ AttemptsTyped
  BY <1>1, WorkShape DEF IInv, Typing, WorkTyped
<1>3. IsRetry(Target) /\ Target[1] \in Recipient
  BY <1>1, <1>2, AttemptShape
<1> DEFINE s == IF retry[Target] = "settled" THEN "FINALIZED" ELSE "REFUSED"
<1>4. /\ SetState(Target, s) /\ retry' = retry /\ retry[Target] \in {"REFUSED", "settled"}
      /\ quarantine' = IF retry[Target] = "settled" THEN quarantine \ {Target[1]} ELSE quarantine
  BY DEF ProjectRetry, repository
<1>5. s \in States
  BY DEF States, RESOLVED
<1> HIDE DEF s
<1>6. attempt'[Target].state = s /\ \A u \in Attempts \ {Target} : attempt'[u] = attempt[u]
  BY <1>2, <1>4, <1>5, SetStateEffect
<1> QED BY <1>2, <1>3, <1>4, <1>6 DEF s

LEMMA StepRetriesPaid ==
    ASSUME IInv, RetriesPaid, [Next]_vars
    PROVE  RetriesPaid'
<1>1. CASE SamePaid
  BY <1>1, PaidRetriesStay DEF SamePaid, RetriesPaid
<1>2. ASSUME NEW t \in Attempts, ~IsRetry(t), NEW s \in States, SetState(t, s) PROVE RetriesPaid'
  <2>1. \A u \in Attempts \ {t} : attempt'[u] = attempt[u]
    BY <1>2, SetStateEffect DEF IInv, Typing
  <2> QED BY <1>2, <2>1, PaidRetriesStay DEF RetriesPaid
<1>3. CASE Settle
  <2>1. /\ SetState(Target, "FINALIZED") /\ ~IsRetry(Target) /\ work # << >>
    BY <1>3 DEF Settle, Active
  <2>2. Target \in Attempts /\ "FINALIZED" \in States
    BY <2>1, WorkShape DEF IInv, Typing, WorkTyped, States, RESOLVED
  <2> QED BY <1>2, <2>1, <2>2
<1>4. CASE PersistLiability
  <2>1. SetState(Target, phase) /\ phase \in {"REFUSED", "NONCE_INTERFERENCE"}
    BY <1>4 DEF PersistLiability
  <2>2. work # << >> /\ \A n \in 1..Len(work) : ~IsRetry(work[n])
    BY <2>1 DEF IInv, WorkInv
  <2>3. Target \in Attempts /\ ~IsRetry(Target) /\ phase \in States
    BY <2>1, <2>2, WorkShape DEF IInv, Typing, WorkTyped, States, RESOLVED
  <2> QED BY <1>2, <2>1, <2>3
<1>5. CASE ProjectRetry
  BY <1>5, ProjectRetryEffect DEF RetriesPaid
<1> QED BY <1>1, <1>3, <1>4, <1>5, OutcomesKept

\* Nothing but the reconciliation of a complete payout settles it.
LEMMA SettledBy ==
    ASSUME [Next]_vars
    PROVE  settled' = settled \/ (Reconcile /\ phase \in {"begun", "released"} /\ Complete)
<1>1. CASE Reconcile
  BY <1>1 DEF Reconcile
<1>2. CASE \/ BeginRun \/ RetriesDone \/ BeginRetry \/ Mutate \/ NextPass \/ ReleaseWalletNonce
           \/ ReserveNonce \/ Sign \/ Broadcast \/ PersistBroadcast \/ Settle
           \/ Refuse \/ PersistLiability \/ LookUp \/ RecoverDropped \/ OpenOrThrow \/ ResolveRetry \/ ProjectRetry
  BY <1>2, Zenon DEF BeginRun, RetriesDone, BeginRetry, Mutate, NextPass, ReleaseWalletNonce,
     ReserveNonce, Sign, Broadcast, PersistBroadcast, Settle, Refuse, PersistLiability, LookUp,
     RecoverDropped, OpenOrThrow, ResolveRetry, ProjectRetry, Submit, Quarantine, Goto, Persisted, Unchanged,
     Throw, NextRetry, Abandon
<1>3. CASE \/ ChainStep \/ Crash \/ (\E t \in Attempts : Drop(t) \/ Reorganize(t)) \/ ForeignUse
           \/ (\E i \in Recipient : RequestRetry(i)) \/ UNCHANGED vars
  BY <1>3, Zenon DEF ChainStep, Include, Finalize, HeadAdvances, Crash, Drop, Reorganize, ForeignUse,
     RequestRetry, vars, runVars, Abandon
<1> QED BY <1>1, <1>2, <1>3, Zenon DEF Next, RunStep

LEMMA StepOnlyRetries ==
    ASSUME IInv, OnlyRetries, [Next]_vars
    PROVE  OnlyRetries'
<1> SUFFICES ASSUME settled'
             PROVE  phase' \in {"idle", "retries", "retry", "sent"} /\ \A n \in 1..Len(work') : IsRetry(work'[n])
  BY DEF OnlyRetries
<1> DEFINE Goal == phase' \in {"idle", "retries", "retry", "sent"} /\ \A n \in 1..Len(work') : IsRetry(work'[n])
<1>w. work # << >> =>
        /\ Target = work[1] /\ Target \in Attempts /\ 1 \in 1..Len(work)
        /\ \A n \in 1..Len(Tail(work)) : Tail(work)[n] = work[n + 1] /\ n + 1 \in 1..Len(work)
  BY WorkShape DEF IInv, Typing, WorkTyped
<1>1. CASE Reconcile /\ phase \in {"begun", "released"}
  <2>1. work = << >> /\ work' = << >> /\ phase' = "idle"
    BY <1>1 DEF Reconcile, Abandon, IInv, WorkInv
  <2> QED BY <2>1
<1>2. CASE settled' = settled
  <2>1. /\ settled /\ phase \in {"idle", "retries", "retry", "sent"} /\ \A n \in 1..Len(work) : IsRetry(work[n])
        /\ (work # << >> => IsRetry(Target))
    BY <1>2, <1>w DEF OnlyRetries
  <2>a. ASSUME work # << >>, Throw \/ Persisted \/ Unchanged PROVE Goal
    <3>1. \/ phase' = "retries" /\ work' = Tail(work)
          \/ phase' = "retry" /\ work' = work
      BY <2>a, <2>1 DEF Throw, NextRetry, Persisted, Unchanged
    <3> QED BY <1>w, <2>a, <2>1, <3>1
  <2>b. ASSUME work' = work, phase' \in {"idle", "retries", "retry", "sent"} PROVE Goal
    BY <2>b, <2>1
  <2>c. ASSUME Abandon PROVE Goal
    BY <2>c DEF Abandon
  <2>2. CASE BeginRun
    <3>1. /\ phase' = "retries" /\ work' \in Seq(Attempts)
          /\ \A n \in 1..Len(work') : work'[n] \in OpenPayoutRetries
      BY <2>2, BeginRunEffect DEF IInv, Typing
    <3>2. \A t \in OpenPayoutRetries : retry[t] # "none" /\ t \in Attempts
      BY DEF OpenPayoutRetries
    <3>3. \A t \in OpenPayoutRetries : IsRetry(t)
      BY <3>2 DEF IInv, RetryInv
    <3> QED BY <3>1, <3>3
  <2>3. CASE RetriesDone \/ BeginRetry
    BY <2>1, <2>3, <2>b DEF RetriesDone, BeginRetry
  <2>4. CASE Mutate \/ NextPass \/ ReleaseWalletNonce \/ Reconcile \/ PersistLiability \/ RecoverDropped
    BY <2>1, <2>4 DEF Mutate, NextPass, ReleaseWalletNonce, Reconcile, PersistLiability, RecoverDropped
  <2>5. CASE ReserveNonce \/ Sign
    BY <2>5, <2>a DEF ReserveNonce, Sign, Active
  <2>6. CASE Broadcast
    BY <2>6, <2>a, <2>b DEF Broadcast, Active, Submit, Goto
  <2>7. CASE PersistBroadcast
    BY <2>7, <2>a DEF PersistBroadcast, IInv, WorkInv
  <2>8. CASE Settle \/ Refuse
    BY <2>1, <2>8 DEF Settle, Refuse, Active
  <2>9. CASE LookUp
    <3>1. work # << >> /\ Unchanged
      BY <2>9, <2>1 DEF LookUp, Active
    <3> QED BY <3>1, <2>a
  <2>10. CASE OpenOrThrow
    <3>1. work # << >> /\ (Persisted \/ NextRetry)
      BY <2>10 DEF OpenOrThrow, Active
    <3>2. Throw = NextRetry
      BY <2>1, <3>1 DEF Throw
    <3> QED BY <2>a, <3>1, <3>2
  <2>11. CASE ResolveRetry
    BY <2>11, <2>b DEF ResolveRetry, Goto
  <2>12. CASE ProjectRetry
    <3>1. work # << >> /\ NextRetry
      BY <2>12 DEF ProjectRetry, IInv, WorkInv
    <3>2. Throw = NextRetry
      BY <2>1, <3>1 DEF Throw
    <3> QED BY <2>a, <3>1, <3>2
  <2>13. CASE Crash
    BY <2>13, <2>c DEF Crash
  <2>14. CASE \/ ChainStep \/ (\E t \in Attempts : Drop(t) \/ Reorganize(t)) \/ ForeignUse
              \/ (\E i \in Recipient : RequestRetry(i)) \/ UNCHANGED vars
    <3>1. UNCHANGED <<work, phase>>
      BY <2>14, Zenon DEF ChainStep, Include, Finalize, HeadAdvances, Drop, Reorganize, ForeignUse,
         RequestRetry, vars, runVars
    <3> QED BY <2>1, <2>b, <3>1
  <2> HIDE DEF Goal
  <2> QED
    BY <2>2, <2>3, <2>4, <2>5, <2>6, <2>7, <2>8, <2>9, <2>10, <2>11, <2>12, <2>13, <2>14, Zenon DEF Next, RunStep
<1> QED BY <1>1, <1>2, SettledBy

LEMMA StepBalanced ==
    ASSUME IInv, LiabilityInv, [Next]_vars
    PROVE  (settled => Balanced)'
<1> SUFFICES ASSUME settled' PROVE Balanced'
  OBVIOUS
<1>1. CASE Reconcile /\ phase \in {"begun", "released"} /\ Complete
  <2>1. Balanced
    BY <1>1 DEF Complete, Balanced
  <2>2. UNCHANGED <<attempt, quarantine>>
    BY <1>1 DEF Reconcile, payoutState
  <2> QED BY <2>1, <2>2, BalancedKept DEF SamePaid
<1>2. CASE settled' = settled
  <2>1. /\ Balanced /\ phase \in {"idle", "retries", "retry", "sent"}
        /\ \A n \in 1..Len(work) : IsRetry(work[n])
    BY <1>2 DEF LiabilityInv, OnlyRetries
  <2>2. CASE SamePaid /\ quarantine' = quarantine
    BY <2>1, <2>2, BalancedKept
  <2>3. CASE Settle
    <3>1. phase = "retry" /\ work # << >> /\ ~IsRetry(Target)
      BY <2>1, <2>3 DEF Settle, Active
    <3>2. Target = work[1] /\ 1 \in 1..Len(work)
      BY <3>1, WorkShape DEF IInv, Typing, WorkTyped
    <3> QED BY <2>1, <3>1, <3>2
  <2>4. CASE PersistLiability
    BY <2>1, <2>4 DEF PersistLiability
  <2>5. CASE ProjectRetry
    <3>1. /\ Target \in Attempts /\ IsRetry(Target) /\ Target[1] \in Recipient
          /\ retry[Target] \in {"REFUSED", "settled"}
          /\ attempt'[Target].state = (IF retry[Target] = "settled" THEN "FINALIZED" ELSE "REFUSED")
          /\ \A u \in Attempts \ {Target} : attempt'[u] = attempt[u]
          /\ quarantine' = (IF retry[Target] = "settled" THEN quarantine \ {Target[1]} ELSE quarantine)
      BY <2>5, ProjectRetryEffect
    <3>2. CASE retry[Target] = "REFUSED"
      <4>1. attempt[Target].state # "FINALIZED" /\ attempt'[Target].state # "FINALIZED"
        BY <3>1, <3>2 DEF LiabilityInv, RetriesPaid
      <4>2. SamePaid /\ quarantine' = quarantine
        BY <3>1, <3>2, <4>1 DEF SamePaid
      <4> QED BY <2>1, <4>2, BalancedKept
    <3>3. CASE retry[Target] = "settled"
      <4> SUFFICES ASSUME NEW i \in Recipient PROVE Paid(i)' # (i \in quarantine')
        BY DEF Balanced
      <4>0. PICK j \in Recipient, m \in 0..MaxRetries : Target = <<j, m>>
        BY <3>1 DEF Attempts
      <4>1. CASE i = Target[1]
        <5>1. i = j /\ attempt'[<<i, m>>].state = "FINALIZED" /\ i \notin quarantine'
          BY <3>1, <3>3, <4>0, <4>1
        <5>2. Paid(i)'
          BY <5>1 DEF Paid
        <5> QED BY <5>1, <5>2
      <4>2. CASE i # Target[1]
        <5>1. \A k \in 0..MaxRetries : <<i, k>> \in Attempts \ {Target}
          BY <4>0, <4>2 DEF Attempts
        <5>2. Paid(i)' = Paid(i)
          BY <3>1, <5>1 DEF Paid
        <5>3. (i \in quarantine') = (i \in quarantine)
          BY <3>1, <3>3, <4>2
        <5>4. Paid(i) # (i \in quarantine)
          BY <2>1 DEF Balanced
        <5> QED BY <5>2, <5>3, <5>4
      <4> QED BY <4>1, <4>2
    <3> QED BY <3>1, <3>2, <3>3
  <2> QED BY <2>2, <2>3, <2>4, <2>5, OutcomesKept
<1> QED BY <1>1, <1>2, SettledBy

\* Evidence stays with the repository, and a recipient whose liability is about
\* to be persisted has some.
LEMMA EvidenceStays ==
    ASSUME IInv, [Next]_vars
    PROVE  \A i \in Recipient : reservation[i] # NoEvidence => reservation'[i] # NoEvidence
<1>t. reservation \in [Recipient ->
          [reason : {"none", "TRANSACTION_REVERTED", "NONCE_INTERFERENCE"}, observed : Nat]]
  BY DEF IInv, Typing, RepositoryTyped
<1>a. ASSUME NEW i, NEW e, NEW s, Quarantine(i, e, s)
      PROVE  \A j \in Recipient : reservation[j] # NoEvidence => reservation'[j] = reservation[j]
  BY <1>a, <1>t DEF Quarantine
<1>b. ASSUME reservation' = reservation
      PROVE  \A i \in Recipient : reservation[i] # NoEvidence => reservation'[i] # NoEvidence
  BY <1>b
<1>1. CASE Refuse \/ RecoverDropped
  BY <1>1, <1>a, <1>b DEF Refuse, RecoverDropped
<1>2. CASE \/ BeginRun \/ RetriesDone \/ BeginRetry \/ Mutate \/ NextPass \/ ReleaseWalletNonce \/ Reconcile
           \/ ReserveNonce \/ Sign \/ Broadcast \/ PersistBroadcast \/ Settle
           \/ PersistLiability \/ LookUp \/ OpenOrThrow \/ ResolveRetry \/ ProjectRetry
  BY <1>b, <1>2, Zenon DEF BeginRun, RetriesDone, BeginRetry, Mutate, NextPass, ReleaseWalletNonce, Reconcile,
     ReserveNonce, Sign, Broadcast, PersistBroadcast, Settle, PersistLiability, LookUp,
     OpenOrThrow, ResolveRetry, ProjectRetry, repository
<1>3. CASE \/ ChainStep \/ Crash \/ (\E t \in Attempts : Drop(t) \/ Reorganize(t)) \/ ForeignUse
           \/ (\E i \in Recipient : RequestRetry(i)) \/ UNCHANGED vars
  BY <1>b, <1>3, Zenon DEF ChainStep, Include, Finalize, HeadAdvances, Crash, Drop, Reorganize, ForeignUse,
     RequestRetry, vars, repository
<1> QED BY <1>1, <1>2, <1>3, Zenon DEF Next, RunStep

\* The evidence a run reserves, or finds again, is there.
LEMMA ReservedEvidence ==
    ASSUME IInv, NEW i \in Recipient, NEW e, NEW s, Quarantine(i, e, s), e.reason # "none"
    PROVE  reservation'[i] # NoEvidence \/ Throw
<1>1. e # NoEvidence
  BY DEF NoEvidence
<1> QED BY <1>1 DEF Quarantine, IInv, Typing, RepositoryTyped

LEMMA StepOwed ==
    ASSUME IInv, Owed, [Next]_vars
    PROVE  Owed'
<1>w. work # << >> => Target \in Attempts /\ Target[1] \in Recipient
  BY WorkShape, AttemptShape DEF IInv, Typing, WorkTyped
<1>q. quarantine \subseteq Recipient
  BY DEF IInv, Typing, RepositoryTyped
<1>p. phase \in {"REFUSED", "NONCE_INTERFERENCE"} => work # << >>
  BY DEF IInv, WorkInv
<1>1. \A i \in quarantine' : reservation'[i] # NoEvidence
  <2>1. quarantine' \subseteq quarantine
        \/ (PersistLiability /\ phase \in {"REFUSED", "NONCE_INTERFERENCE"} /\ quarantine' = quarantine \cup {Target[1]})
    <3>1. CASE Settle
      BY <3>1 DEF Settle
    <3>2. CASE PersistLiability
      BY <3>2 DEF PersistLiability
    <3>3. CASE ProjectRetry
      BY <3>3, ProjectRetryEffect
    <3> QED BY <3>1, <3>2, <3>3, OutcomesKept
  <2> QED BY <1>q, <1>w, <1>p, <2>1, EvidenceStays DEF Owed
<1>2. ASSUME phase' \in {"REFUSED", "NONCE_INTERFERENCE"} PROVE reservation'[Target'[1]] # NoEvidence
  <2>a. ASSUME Throw \/ Persisted \/ Unchanged \/ Abandon \/ NextRetry PROVE FALSE
    BY <1>2, <2>a DEF Throw, Persisted, Unchanged, Abandon, NextRetry
  <2>1. CASE UNCHANGED <<phase, work>>
    <3>1. Target' = Target /\ phase \in {"REFUSED", "NONCE_INTERFERENCE"}
      BY <1>2, <2>1 DEF Target
    <3>2. reservation[Target[1]] # NoEvidence /\ Target[1] \in Recipient
      BY <1>p, <1>w, <3>1 DEF Owed
    <3> QED BY <3>1, <3>2, EvidenceStays
  <2>2. CASE Refuse \/ RecoverDropped
    <3>1. work # << >>
      BY <2>2 DEF Refuse, RecoverDropped, Active, IInv, WorkInv
    <3>2. Pending \in Nat
      BY PendingNat DEF IInv, Typing, ChainTyped
    <3>3. PICK e, s : Quarantine(Target[1], e, s) /\ e.reason # "none"
      <4>1. CASE Refuse
        BY <4>1 DEF Refuse
      <4>2. CASE RecoverDropped
        BY <2>a, <4>2 DEF RecoverDropped, Submit
      <4> QED BY <2>2, <4>1, <4>2
    <3>4. reservation'[Target[1]] # NoEvidence
      BY <1>w, <2>a, <3>1, <3>3, ReservedEvidence
    <3>5. work' = work
      BY <2>a, <3>3 DEF Quarantine, Goto
    <3> QED BY <3>4, <3>5 DEF Target
  <2>3. CASE \/ BeginRun \/ RetriesDone \/ BeginRetry \/ Mutate \/ ReleaseWalletNonce
    BY <1>2, <2>3 DEF BeginRun, RetriesDone, BeginRetry, Mutate, ReleaseWalletNonce
  <2>4. CASE Reconcile
    BY <1>2, <2>a, <2>4 DEF Reconcile
  <2>5. CASE NextPass
    BY <1>2, <2>a, <2>5 DEF NextPass
  <2>6. CASE \/ ReserveNonce \/ Sign \/ PersistBroadcast \/ Settle \/ PersistLiability \/ OpenOrThrow \/ ProjectRetry
             \/ Crash
    BY <2>a, <2>6, Zenon DEF ReserveNonce, Sign, PersistBroadcast, Settle, PersistLiability, OpenOrThrow,
       ProjectRetry, Crash
  <2>7. CASE Broadcast \/ LookUp \/ ResolveRetry
    BY <1>2, <2>a, <2>7 DEF Broadcast, Submit, LookUp, ResolveRetry, Goto
  <2>8. CASE \/ ChainStep \/ (\E t \in Attempts : Drop(t) \/ Reorganize(t)) \/ ForeignUse
             \/ (\E i \in Recipient : RequestRetry(i)) \/ UNCHANGED vars
    BY <2>1, <2>8, Zenon DEF ChainStep, Include, Finalize, HeadAdvances, Drop, Reorganize, ForeignUse,
       RequestRetry, vars, runVars
  <2> QED BY <2>2, <2>3, <2>4, <2>5, <2>6, <2>7, <2>8, Zenon DEF Next, RunStep
<1> QED BY <1>1, <1>2, Zenon DEF Owed, Target

\* A liability of the payout state is backed by evidence in the repository, a
\* recipient paid by a retry is settled there, and a settled payout has paid or
\* owes every recipient and never both: whatever crashes, faults and retries.
THEOREM LiabilitiesAreBacked == Spec => []LiabilityBacked
<1>1. Init => LiabilityInv
  BY DEF Init, LiabilityInv, Owed, RetriesPaid, OnlyRetries
<1>2. IInv /\ LiabilityInv /\ [Next]_vars => LiabilityInv'
  BY StepOwed, StepRetriesPaid, StepOnlyRetries, StepBalanced DEF LiabilityInv
<1>3. LiabilityInv => LiabilityBacked
  <2> SUFFICES ASSUME LiabilityInv, NEW i \in Recipient, Paid(i), State(i) # "FINALIZED"
               PROVE  \E k \in 1..MaxRetries : retry[<<i, k>>] = "settled"
    BY DEF LiabilityInv, Owed, Balanced, LiabilityBacked
  <2>1. PICK k \in 0..MaxRetries : attempt[<<i, k>>].state = "FINALIZED"
    BY DEF Paid
  <2>2. k # 0
    BY <2>1 DEF State, Original
  <2>3. k \in 1..MaxRetries
    BY <2>2, PayoutAssumption
  <2>4. <<i, k>> \in Attempts /\ IsRetry(<<i, k>>)
    BY <2>3, AttemptShape
  <2> QED BY <2>1, <2>3, <2>4 DEF LiabilityInv, RetriesPaid
<1> QED BY <1>1, <1>2, <1>3, Invariance, PTL DEF Spec

=============================================================================
