------------------------- MODULE HookemonHookProofs ------------------------
(***************************************************************************)
(* What the hook keeps true for every set of accounts, every delay, window *)
(* and limit: the roles and their delayed rotation, the claim window, and  *)
(* the contract composed of them and the liability ledger.                 *)
(***************************************************************************)
EXTENDS HookemonHook, SumTheorems, TLAPS

-----------------------------------------------------------------------------
(***************************************************************************)
(* Roles.  RotationOnlyAfterPausedDelay needs more than its own statement: *)
(* that a pending rotation implies a pause that began at least a full      *)
(* delay before the rotation becomes executable (PauseCoversDelay), which  *)
(* in turn needs that a pause never begins in the future.                  *)
(***************************************************************************)

PauseCoversDelay ==
    RotationPending =>
        /\ processClaimsPaused = TRUE
        /\ pausedSince + RotationDelay <= pendingOperationsRotation.executableAt

\* RolesTypeOK without the pause flag.
AccountsOK ==
    /\ treasury \in Addresses /\ operations \in Addresses
    /\ proposedTreasury \in Addresses \cup {ZeroAddress}
    /\ proposedOperations \in Addresses \cup {ZeroAddress}
    /\ treasuryProposer \in Addresses \cup {ZeroAddress}
    /\ operationsProposer \in Addresses \cup {ZeroAddress}
    /\ treasuryBeneficiaries \subseteq Addresses
    /\ pendingOperationsRotation \in Rotations
    /\ now \in 0..MaxTime /\ pausedSince \in 0..MaxTime

FlagOK == processClaimsPaused \in BOOLEAN

PauseBegan == pausedSince <= now

RolesInv ==
    /\ AccountsOK /\ PauseBegan
    /\ RotationNeverStale
    /\ ProposalsAreCurrent
    /\ PauseCoversDelay

LEMMA AddBoth ==
    ASSUME NEW a \in Int, NEW b \in Int, NEW c \in Int, a <= b
    PROVE  a + c <= b + c
BY SMT

LEMMA InitRoles == RolesInit => RolesInv
<1> USE RoleAssumption, TimeAssumption
<1> SUFFICES ASSUME RolesInit PROVE RolesInv
  OBVIOUS
<1>1. AccountsOK /\ PauseBegan
  BY DEF RolesInit, AccountsOK, PauseBegan, Rotations, NoRotation
<1>2. ~RotationPending
  BY DEF RolesInit, RotationPending, NoRotation
<1>3. ProposalsAreCurrent
  BY DEF RolesInit, ProposalsAreCurrent
<1> QED BY <1>1, <1>2, <1>3 DEF RolesInv, RotationNeverStale, PauseCoversDelay

LEMMA StepRoles == RolesInv /\ [RolesNext]_roleVars => RolesInv'
<1> SUFFICES ASSUME RolesInv, [RolesNext]_roleVars PROVE RolesInv'
  OBVIOUS
<1> USE RoleAssumption, TimeAssumption
<1> USE DEF RolesInv, handover, operationsVars, pauseVars
<1>1. ASSUME NEW c \in Addresses, NEW s \in Successors, ProposeTreasury(c, s) PROVE RolesInv'
  <2> USE <1>1 DEF ProposeTreasury
  <2>1. AccountsOK' /\ PauseBegan'
    BY DEF AccountsOK, PauseBegan, ValidRoleSuccessor, Successors
  <2>2. RotationNeverStale' /\ PauseCoversDelay'
    BY DEF RotationNeverStale, PauseCoversDelay, RotationPending
  <2>3. ProposalsAreCurrent'
    BY DEF ProposalsAreCurrent, ValidRoleSuccessor
  <2> QED BY <2>1, <2>2, <2>3
<1>2. ASSUME NEW c \in Addresses, NEW s \in Successors, ProposeOperations(c, s) PROVE RolesInv'
  <2> USE <1>2 DEF ProposeOperations
  <2>1. AccountsOK' /\ PauseBegan'
    BY DEF AccountsOK, PauseBegan, ValidRoleSuccessor, Successors
  <2>2. RotationNeverStale' /\ PauseCoversDelay'
    BY DEF RotationNeverStale, PauseCoversDelay, RotationPending, OperationsHandoverAvailable
  <2>3. ProposalsAreCurrent'
    BY DEF ProposalsAreCurrent, ValidRoleSuccessor
  <2> QED BY <2>1, <2>2, <2>3
<1>3. ASSUME NEW c \in Addresses, NEW s \in Successors, ScheduleOperationsRotation(c, s) PROVE RolesInv'
  <2> USE <1>3 DEF ScheduleOperationsRotation
  <2>1. s \in Addresses /\ s # operations
    BY DEF ValidRoleSuccessor, Successors
  <2>2. /\ pendingOperationsRotation' \in Rotations
        /\ pendingOperationsRotation'.expectedOperations = operations'
        /\ pendingOperationsRotation'.nextOperations = s
        /\ pendingOperationsRotation'.executableAt = now + RotationDelay
    BY <2>1 DEF AccountsOK, Rotations
  <2>3. pausedSince' \in 0..MaxTime /\ pausedSince' <= now
    BY DEF AccountsOK, PauseBegan, PausedClaims
  <2>4. AccountsOK' /\ PauseBegan'
    BY <2>2, <2>3 DEF AccountsOK, PauseBegan
  <2>5. RotationNeverStale' /\ ProposalsAreCurrent'
    BY <2>1, <2>2 DEF RotationNeverStale, ProposalsAreCurrent
  <2>6. processClaimsPaused' = TRUE
    BY DEF PausedClaims
  <2>7. pausedSince' + RotationDelay <= now + RotationDelay
    <3>1. pausedSince' \in Int /\ now \in Int /\ RotationDelay \in Int
      BY <2>3 DEF AccountsOK
    <3> QED BY <2>3, <3>1, AddBoth, Zenon
  <2>8. PauseCoversDelay'
    BY <2>2, <2>6, <2>7 DEF PauseCoversDelay
  <2> QED BY <2>4, <2>5, <2>8
<1>4. ASSUME NEW c \in Addresses, AcceptTreasury(c) PROVE RolesInv'
  <2> USE <1>4 DEF AcceptTreasury
  <2>1. AccountsOK' /\ PauseBegan'
    BY DEF AccountsOK, PauseBegan
  <2>2. RotationNeverStale' /\ PauseCoversDelay'
    BY DEF RotationNeverStale, PauseCoversDelay, RotationPending
  <2>3. ProposalsAreCurrent'
    BY DEF ProposalsAreCurrent
  <2> QED BY <2>1, <2>2, <2>3
<1>5. ASSUME NEW c \in Addresses, AcceptOperations(c) PROVE RolesInv'
  <2> USE <1>5 DEF AcceptOperations
  <2>1. AccountsOK' /\ PauseBegan'
    BY DEF AccountsOK, PauseBegan
  <2>2. RotationNeverStale' /\ PauseCoversDelay'
    BY DEF RotationNeverStale, PauseCoversDelay, RotationPending, OperationsHandoverAvailable
  <2>3. ProposalsAreCurrent'
    BY DEF ProposalsAreCurrent
  <2> QED BY <2>1, <2>2, <2>3
<1>6. ASSUME NEW c \in Addresses, PauseProcessClaims(c) PROVE RolesInv'
  <2> USE <1>6 DEF PauseProcessClaims, PausedClaims
  <2>1. AccountsOK' /\ PauseBegan'
    BY DEF AccountsOK, PauseBegan
  <2>2. RotationNeverStale' /\ ProposalsAreCurrent'
    BY DEF RotationNeverStale, ProposalsAreCurrent, RotationPending
  <2>3. PauseCoversDelay'
    BY DEF PauseCoversDelay, RotationPending
  <2> QED BY <2>1, <2>2, <2>3
<1>7. ASSUME NEW c \in Addresses, UnpauseProcessClaims(c) PROVE RolesInv'
  <2> USE <1>7 DEF UnpauseProcessClaims
  <2>1. AccountsOK' /\ PauseBegan'
    BY DEF AccountsOK, PauseBegan
  <2>2. RotationNeverStale' /\ ProposalsAreCurrent'
    BY DEF RotationNeverStale, ProposalsAreCurrent, RotationPending
  <2>3. PauseCoversDelay'
    BY DEF PauseCoversDelay, RotationPending
  <2> QED BY <2>1, <2>2, <2>3
<1>8. ASSUME NEW c \in Addresses, ExecuteOperationsRotation(c) PROVE RolesInv'
  <2> USE <1>8 DEF ExecuteOperationsRotation
  <2>1. pausedSince' \in 0..MaxTime /\ pausedSince' <= now
    BY DEF AccountsOK, PauseBegan, PausedClaims
  <2>2. AccountsOK' /\ PauseBegan'
    BY <2>1 DEF AccountsOK, PauseBegan, Rotations, NoRotation, RotationPending
  <2>3. ~RotationPending'
    BY DEF RotationPending, NoRotation
  <2>4. ProposalsAreCurrent'
    BY DEF ProposalsAreCurrent
  <2> QED BY <2>2, <2>3, <2>4 DEF RotationNeverStale, PauseCoversDelay
<1>9. CASE RolesTick
  <2> USE <1>9 DEF RolesTick, NextBlock
  <2>1. AccountsOK' /\ PauseBegan'
    BY DEF AccountsOK, PauseBegan
  <2>2. RotationNeverStale' /\ ProposalsAreCurrent' /\ PauseCoversDelay'
    BY DEF RotationNeverStale, ProposalsAreCurrent, PauseCoversDelay, RotationPending
  <2> QED BY <2>1, <2>2
<1>10. CASE UNCHANGED roleVars
  <2> USE <1>10 DEF roleVars
  <2>1. AccountsOK' /\ PauseBegan'
    BY DEF AccountsOK, PauseBegan
  <2>2. RotationNeverStale' /\ ProposalsAreCurrent' /\ PauseCoversDelay'
    BY DEF RotationNeverStale, ProposalsAreCurrent, PauseCoversDelay, RotationPending
  <2> QED BY <2>1, <2>2
<1> HIDE DEF RolesInv
<1> QED BY <1>1, <1>2, <1>3, <1>4, <1>5, <1>6, <1>7, <1>8, <1>9, <1>10 DEF RolesNext

LEMMA RolesInvariant == RolesSpec => []RolesInv
BY InitRoles, StepRoles, PTL DEF RolesSpec

LEMMA FlagInvariant == RolesSpec => []FlagOK
<1>1. RolesInit => FlagOK
  BY Zenon DEF RolesInit, FlagOK
<1>2. FlagOK /\ [RolesNext]_roleVars => FlagOK'
  BY Zenon DEF FlagOK, RolesNext, ProposeTreasury, ProposeOperations, ScheduleOperationsRotation,
     AcceptTreasury, AcceptOperations, PauseProcessClaims, UnpauseProcessClaims,
     ExecuteOperationsRotation, RolesTick, PausedClaims, pauseVars, roleVars
<1> QED BY <1>1, <1>2, PTL DEF RolesSpec

-----------------------------------------------------------------------------
(* The results *)

\* Roles are always held by accounts, never by address(0) or by the hook.
THEOREM RolesTypeCorrect == RolesSpec => []RolesTypeOK
<1>1. RolesInv /\ FlagOK => RolesTypeOK BY Zenon DEF RolesInv, AccountsOK, FlagOK, RolesTypeOK
<1> QED BY RolesInvariant, FlagInvariant, <1>1, PTL

\* A pending emergency rotation is never stale: the revert
\* StaleOperationsRotation of executeOperationsRotation is unreachable.
THEOREM NeverStale == RolesSpec => []RotationNeverStale
<1>1. RolesInv => RotationNeverStale BY DEF RolesInv
<1> QED BY RolesInvariant, <1>1, PTL

\* Whatever proposal is open was made by the present holder of the role.
THEOREM OnlyCurrentProposals == RolesSpec => []ProposalsAreCurrent
<1>1. RolesInv => ProposalsAreCurrent BY DEF RolesInv
<1> QED BY RolesInvariant, <1>1, PTL

\* An emergency rotation takes effect only after the claims have been paused
\* without interruption for the whole delay, and leaves them paused.
THEOREM RotationAfterPausedDelay == RolesSpec => RotationOnlyAfterPausedDelay
<1> DEFINE Delayed == RotationPending /\ ~RotationPending' =>
                          /\ processClaimsPaused /\ processClaimsPaused'
                          /\ now - pausedSince >= RotationDelay
<1>1. RolesInv /\ [RolesNext]_roleVars => [Delayed]_roleVars
  <2> SUFFICES ASSUME RolesInv, RolesNext, RotationPending, ~RotationPending'
               PROVE  /\ processClaimsPaused /\ processClaimsPaused'
                      /\ now - pausedSince >= RotationDelay
    BY DEF Delayed
  <2>1. PICK c \in Addresses : ExecuteOperationsRotation(c)
    <3>1. ASSUME NEW c, NEW s \in Successors, ScheduleOperationsRotation(c, s) PROVE RotationPending'
      BY <3>1, RoleAssumption DEF ScheduleOperationsRotation, RotationPending, ValidRoleSuccessor
    <3>2. ASSUME UNCHANGED pendingOperationsRotation PROVE FALSE
      BY <3>2 DEF RotationPending
    <3> QED BY <3>1, <3>2 DEF RolesNext, ProposeTreasury, ProposeOperations, AcceptTreasury,
         AcceptOperations, PauseProcessClaims, UnpauseProcessClaims, RolesTick
  <2>2. processClaimsPaused = TRUE /\ processClaimsPaused' = TRUE
    BY <2>1, Zenon DEF RolesInv, PauseCoversDelay, ExecuteOperationsRotation, PausedClaims
  <2>3. now - pausedSince >= RotationDelay
    BY <2>1, RoleAssumption, TimeAssumption
    DEF RolesInv, AccountsOK, Rotations, PauseCoversDelay, ExecuteOperationsRotation
  <2> QED BY <2>2, <2>3
<1> QED BY RolesInvariant, <1>1, PTL DEF RolesSpec, RotationOnlyAfterPausedDelay

-----------------------------------------------------------------------------
(***************************************************************************)
(* The delay of limit increases.  The invariant ties the activation time   *)
(* in storage to the time of the request: an increase that is pending was  *)
(* asked for exactly one window before it becomes due.                     *)
(***************************************************************************)

LimitsOK ==
    /\ now \in Nat /\ raiseRequestedAt \in Nat
    /\ processClaimLimit \in 0..LimitMax
    /\ pendingProcessClaimLimit \in 0..LimitMax
    /\ pendingProcessClaimLimitActivation \in Nat

PendingSinceRequest ==
    pendingProcessClaimLimitActivation # 0 =>
        pendingProcessClaimLimitActivation = raiseRequestedAt + Window

LInv == LimitsOK /\ PendingSinceRequest

LEMMA InitLimits == WindowInit => LInv
BY WindowAssumption, TimeAssumption DEF WindowInit, LInv, LimitsOK, PendingSinceRequest

\* The limit that claimProcess and setProcessClaimLimit start from.
LEMMA EffectiveIsLimit ==
    ASSUME LInv PROVE EffectiveProcessClaimLimit \in 0..LimitMax
BY DEF LInv, LimitsOK, EffectiveProcessClaimLimit

\* A claim activates a due increase and otherwise leaves the limits alone.
LEMMA ClaimLimits ==
    ASSUME LInv, NEW c, NEW a, ClaimInWindow(c, a)
    PROVE  LInv' /\ EffectiveProcessClaimLimit' = EffectiveProcessClaimLimit
<1>1. /\ now' = now /\ raiseRequestedAt' = raiseRequestedAt
      /\ ActivatedTo(processClaimLimit', pendingProcessClaimLimit', pendingProcessClaimLimitActivation')
  BY DEF ClaimInWindow
<1>2. CASE IncreaseDue
  BY <1>1, <1>2, EffectiveIsLimit, WindowAssumption, TimeAssumption
  DEF LInv, LimitsOK, PendingSinceRequest, ActivatedTo, EffectiveProcessClaimLimit, IncreaseDue
<1>3. CASE ~IncreaseDue
  BY <1>1, <1>3, EffectiveIsLimit
  DEF LInv, LimitsOK, PendingSinceRequest, ActivatedTo, EffectiveProcessClaimLimit, IncreaseDue
<1> QED BY <1>2, <1>3

\* Setting a limit never raises the one in force.
LEMMA SetLimits ==
    ASSUME LInv, NEW l \in NewLimits, SetLimit(l)
    PROVE  LInv' /\ EffectiveProcessClaimLimit' <= EffectiveProcessClaimLimit
<1>1. l \in Nat /\ Window \in Nat /\ Window > 0 /\ LimitMax \in Nat
  BY WindowAssumption, TimeAssumption
<1>2. now' = now
  BY DEF SetLimit
<1>3. CASE l <= EffectiveProcessClaimLimit
  <2>1. /\ processClaimLimit' = l
        /\ pendingProcessClaimLimit' = 0 /\ pendingProcessClaimLimitActivation' = 0
        /\ raiseRequestedAt' = raiseRequestedAt
    BY <1>1, <1>3, EffectiveIsLimit DEF SetLimit
  <2>2. LInv'
    BY <1>1, <1>2, <1>3, <2>1, EffectiveIsLimit DEF LInv, LimitsOK, PendingSinceRequest
  <2>3. EffectiveProcessClaimLimit' = l
    BY <2>1 DEF EffectiveProcessClaimLimit, IncreaseDue
  <2> QED BY <1>3, <2>2, <2>3
<1>4. CASE ~(l <= EffectiveProcessClaimLimit)
  <2>1. /\ l <= LimitMax
        /\ processClaimLimit' = EffectiveProcessClaimLimit
        /\ pendingProcessClaimLimit' = l /\ pendingProcessClaimLimitActivation' = now + Window
        /\ raiseRequestedAt' = now
    BY <1>4 DEF SetLimit
  <2>2. LInv'
    BY <1>1, <1>2, <2>1, EffectiveIsLimit DEF LInv, LimitsOK, PendingSinceRequest
  <2>3. ~IncreaseDue'
    BY <1>1, <1>2, <2>1 DEF LInv, LimitsOK, IncreaseDue
  <2>4. EffectiveProcessClaimLimit' = EffectiveProcessClaimLimit
    BY <2>1, <2>3 DEF EffectiveProcessClaimLimit
  <2> QED BY <2>2, <2>4, EffectiveIsLimit
<1> QED BY <1>3, <1>4

LEMMA TickLimits ==
    ASSUME LInv, WindowTick
    PROVE  /\ LInv'
           /\ EffectiveProcessClaimLimit' > EffectiveProcessClaimLimit => now' - raiseRequestedAt >= Window
<1>1. /\ now' = now + 1
      /\ processClaimLimit' = processClaimLimit
      /\ pendingProcessClaimLimit' = pendingProcessClaimLimit
      /\ pendingProcessClaimLimitActivation' = pendingProcessClaimLimitActivation
      /\ raiseRequestedAt' = raiseRequestedAt
  BY DEF WindowTick, NextBlock, limitVars
<1>2. LInv'
  BY <1>1 DEF LInv, LimitsOK, PendingSinceRequest
<1>3. CASE IncreaseDue'
  <2>1. now' >= raiseRequestedAt + Window
    BY <1>1, <1>3 DEF LInv, PendingSinceRequest, IncreaseDue
  <2> QED BY <1>1, <1>2, <2>1, WindowAssumption, TimeAssumption DEF LInv, LimitsOK
<1>4. CASE ~IncreaseDue'
  <2>1. ~IncreaseDue
    BY <1>1, <1>4 DEF LInv, LimitsOK, IncreaseDue
  <2>2. EffectiveProcessClaimLimit' = EffectiveProcessClaimLimit
    BY <1>1, <1>4, <2>1 DEF EffectiveProcessClaimLimit
  <2> QED BY <1>2, <2>2, EffectiveIsLimit
<1> QED BY <1>3, <1>4

LEMMA StepLimits ==
    LInv /\ [WindowNext]_windowVars =>
        /\ LInv'
        /\ [EffectiveProcessClaimLimit' > EffectiveProcessClaimLimit
               => now' - raiseRequestedAt >= Window]_windowVars
<1> SUFFICES ASSUME LInv, [WindowNext]_windowVars
             PROVE  /\ LInv'
                    /\ \/ EffectiveProcessClaimLimit' > EffectiveProcessClaimLimit
                             => now' - raiseRequestedAt >= Window
                       \/ UNCHANGED windowVars
  OBVIOUS
<1>1. ASSUME NEW c \in Cycles, NEW a \in Amounts, ClaimInWindow(c, a)
      PROVE  LInv' /\ ~(EffectiveProcessClaimLimit' > EffectiveProcessClaimLimit)
  BY <1>1, ClaimLimits, EffectiveIsLimit
<1>2. ASSUME NEW l \in NewLimits, SetLimit(l)
      PROVE  LInv' /\ ~(EffectiveProcessClaimLimit' > EffectiveProcessClaimLimit)
  <2>1. LInv' /\ EffectiveProcessClaimLimit' <= EffectiveProcessClaimLimit
    BY <1>2, SetLimits
  <2>2. EffectiveProcessClaimLimit' \in 0..LimitMax
    BY <2>1 DEF LInv, LimitsOK, EffectiveProcessClaimLimit
  <2> QED BY <2>1, <2>2, EffectiveIsLimit
<1>3. CASE WindowTick
  BY <1>3, TickLimits
<1>4. CASE UNCHANGED windowVars
  <2>1. LInv'
    BY <1>4 DEF windowVars, limitVars, LInv, LimitsOK, PendingSinceRequest
  <2> QED BY <1>4, <2>1
<1> QED BY <1>1, <1>2, <1>3, <1>4 DEF WindowNext

-----------------------------------------------------------------------------

\* No sequence of calls brings a higher limit into force less than one window
\* after it was requested.
THEOREM RaisesAreDelayed == WindowSpec => RaiseWaitsAWindow
BY InitLimits, StepLimits, PTL DEF WindowSpec, RaiseWaitsAWindow

-----------------------------------------------------------------------------
(***************************************************************************)
(* The ring.  Read from its head, the ring holds the last claims made, in  *)
(* the order they were made (RingIsSuffix); what it has dropped has left   *)
(* the window (OlderExpired); and the stored usage is the sum of the       *)
(* claims it holds (UsageIsRing).  Because claims are made in the order of *)
(* time, pruning from the head up to the first live entry drops exactly    *)
(* the expired ones, so the usage a claim is checked against is that of    *)
(* the trailing window.                                                    *)
(***************************************************************************)

RingTypes ==
    /\ now \in 0..MaxTime
    /\ processClaimWindowEntries \in [0..(MaxCount - 1) -> [amountWei : Nat, claimedAt : 0..MaxTime]]
    /\ processClaimWindowHead \in 0..(MaxCount - 1)
    /\ processClaimWindowCount \in 0..MaxCount

Claim == [cycleId : Cycles, amountWei : Nat, claimedAt : 0..MaxTime, cap : Nat]

ClaimsInOrder ==
    /\ claims \in Seq(Claim)
    /\ \A i \in 1..Len(claims) : claims[i].claimedAt <= now
    /\ \A i, j \in 1..Len(claims) : i <= j => claims[i].claimedAt <= claims[j].claimedAt

\* The position in claims of the entry at the head of the ring.
Oldest == Len(claims) - processClaimWindowCount + 1

RingIsSuffix ==
    /\ processClaimWindowCount <= Len(claims)
    /\ \A i \in 0..(processClaimWindowCount - 1) :
          /\ Entry(i).amountWei = claims[Oldest + i].amountWei
          /\ Entry(i).claimedAt = claims[Oldest + i].claimedAt

OlderExpired == \A j \in 1..(Oldest - 1) : now - claims[j].claimedAt >= Window

UsageIsRing == activeProcessClaimUsage = SumOfClaims(Oldest..Len(claims))

RingInv ==
    /\ LInv /\ RingTypes /\ ClaimsInOrder
    /\ RingIsSuffix /\ OlderExpired /\ UsageIsRing

LEMMA FinitePart ==
    ASSUME NEW a \in Int, NEW b \in Int, NEW S \in SUBSET (a..b)
    PROVE  IsFiniteSet(S)
<1>1. IsFiniteSet(a..b)
  BY FS_Interval
<1> QED BY <1>1, FS_Subset

\* x is i reduced once modulo m.
Wrapped(x, i, m) == x \in 0..(m - 1) /\ (i < m => x = i) /\ (i >= m => x = i - m)

LEMMA WrapOnce ==
    ASSUME NEW m \in Nat \ {0}, NEW h \in 0..(m - 1), NEW o \in 0..m
    PROVE  Wrapped((h + o) % m, h + o, m)
<1>1. CASE h + o < m
  BY <1>1 DEF Wrapped
<1>2. CASE ~(h + o < m)
  BY <1>2 DEF Wrapped
<1> QED BY <1>1, <1>2

\* An index of the ring wraps at most once.
LEMMA Wraps ==
    ASSUME RingTypes, NEW o \in 0..MaxCount
    PROVE  Wrapped(RingIndex(o), processClaimWindowHead + o, MaxCount)
<1>1. MaxCount \in Nat \ {0} /\ processClaimWindowHead \in 0..(MaxCount - 1)
  BY WindowAssumption DEF RingTypes
<1> QED BY <1>1, WrapOnce DEF RingIndex

LEMMA EntryTypes ==
    ASSUME RingTypes, NEW o \in 0..(MaxCount - 1)
    PROVE  Entry(o).amountWei \in Nat /\ Entry(o).claimedAt \in 0..MaxTime
           /\ EntryAmounts[o] = Entry(o).amountWei
<1>1. o \in 0..MaxCount
  BY WindowAssumption
<1>2. RingIndex(o) \in 0..(MaxCount - 1)
  BY <1>1, Wraps DEF Wrapped
<1>3. Entry(o) \in [amountWei : Nat, claimedAt : 0..MaxTime]
  BY <1>2, Zenon DEF Entry, RingTypes
<1>4. EntryAmounts[o] = Entry(o).amountWei
  BY Zenon DEF EntryAmounts
<1> QED BY <1>3, <1>4

AmountsOf(s) == [i \in DOMAIN s |-> s[i].amountWei]

\* Sums over the claims are sums of naturals over finite sets.
LEMMA ClaimSums ==
    ASSUME claims \in Seq(Claim), NEW S \in SUBSET (1..Len(claims))
    PROVE  /\ IsFiniteSet(S) /\ SumOfClaims(S) \in Nat
           /\ \A i \in S : AmountsOf(claims)[i] \in Nat
<1> DEFINE f == [j \in DOMAIN claims |-> claims[j].amountWei]
<1>1. Len(claims) \in Nat /\ DOMAIN claims = 1..Len(claims)
  OBVIOUS
<1>2. IsFiniteSet(S)
  <2>1. 1 \in Int /\ Len(claims) \in Int
    BY <1>1
  <2> QED BY <2>1, FinitePart
<1>3. \A i \in S : f[i] \in Nat
  <2> SUFFICES ASSUME NEW i \in S PROVE f[i] \in Nat
    OBVIOUS
  <2>1. i \in DOMAIN claims /\ claims[i] \in Claim
    BY <1>1
  <2> QED BY <2>1 DEF Claim
<1> HIDE DEF f
<1>4. SumFunctionOnSet(f, S) \in Nat
  <2>1. \A i \in S : f[i] \in Int
    BY <1>3
  <2> QED BY <1>2, <1>3, <2>1, SumTypes
<1> QED BY <1>2, <1>3, <1>4, Zenon DEF f, SumOfClaims, AmountsOf

\* A sum over entries of the ring is one over the claims they stand for.
LEMMA RingSum ==
    ASSUME RingTypes, claims \in Seq(Claim), RingIsSuffix,
           NEW S, \A i \in S : i \in 0..(processClaimWindowCount - 1)
    PROVE  SumFunctionOnSet(EntryAmounts, S) = SumOfClaims(Shifted(S, Oldest))
<1> DEFINE f == EntryAmounts
           g == [j \in DOMAIN claims |-> claims[j].amountWei]
           lo == Oldest
<1>1. /\ Len(claims) \in Nat /\ DOMAIN claims = 1..Len(claims)
      /\ processClaimWindowCount \in Nat /\ processClaimWindowCount <= Len(claims)
      /\ processClaimWindowCount <= MaxCount /\ MaxCount \in Nat /\ Oldest \in Nat /\ Oldest >= 1
      /\ Oldest + processClaimWindowCount = Len(claims) + 1
  BY WindowAssumption DEF RingTypes, RingIsSuffix, Oldest
<1>2. IsFiniteSet(S)
  <2>1. 0 \in Int /\ processClaimWindowCount - 1 \in Int
    BY <1>1
  <2>2. S \in SUBSET (0..(processClaimWindowCount - 1))
    OBVIOUS
  <2> QED BY <2>1, <2>2, FinitePart
<1>3. ASSUME NEW i \in S PROVE i \in Int /\ f[i] \in Int /\ f[i] = g[lo + i]
  <2>1. i \in Int /\ i \in 0..(MaxCount - 1) /\ i \in 0..(processClaimWindowCount - 1)
    BY <1>1
  <2>2. f[i] = Entry(i).amountWei /\ f[i] \in Nat
    BY <2>1, EntryTypes
  <2>3. Oldest + i \in DOMAIN claims
    BY <1>1, <2>1
  <2>4. Entry(i).amountWei = claims[Oldest + i].amountWei
    BY <2>1, Zenon DEF RingIsSuffix
  <2> HIDE DEF f
  <2>5. g[Oldest + i] = claims[Oldest + i].amountWei
    BY <2>3
  <2> HIDE DEF g
  <2> QED BY <2>1, <2>2, <2>4, <2>5
<1>4. lo \in Int
  BY <1>1
<1> HIDE DEF f, g, lo
<1>5. SumFunctionOnSet(f, S) = SumFunctionOnSet(g, Shifted(S, lo))
  BY <1>2, <1>3, <1>4, SumShift
<1> QED BY <1>5, Zenon DEF f, g, lo, SumOfClaims

\* What the views report, in every state the invariant allows.
LEMMA UsageOfRing == RingInv => UsageIsTrailingWindow
<1> SUFFICES ASSUME RingInv PROVE UsageIsTrailingWindow
  OBVIOUS
<1> DEFINE live == {i \in 0..(processClaimWindowCount - 1) : ~Expired(Entry(i))}
           recent == {j \in 1..Len(claims) : now - claims[j].claimedAt < Window}
<1>1. /\ Len(claims) \in Nat /\ processClaimWindowCount \in Nat /\ processClaimWindowCount <= Len(claims)
      /\ claims \in Seq(Claim) /\ now \in Nat /\ Window \in Nat
      /\ Oldest \in Nat /\ Oldest >= 1
      /\ Oldest + processClaimWindowCount = Len(claims) + 1
  BY WindowAssumption, TimeAssumption DEF RingInv, RingTypes, RingIsSuffix, ClaimsInOrder, Oldest
<1>2. \A j \in 1..Len(claims) : claims[j].claimedAt \in Int
  <2> SUFFICES ASSUME NEW j \in 1..Len(claims) PROVE claims[j].claimedAt \in Int
    OBVIOUS
  <2>1. claims[j] \in Claim
    BY <1>1
  <2> QED BY <2>1, TimeAssumption DEF Claim
<1>3. \A i \in 0..(processClaimWindowCount - 1) :
          ~Expired(Entry(i)) <=> now - claims[Oldest + i].claimedAt < Window
  <2> SUFFICES ASSUME NEW i \in 0..(processClaimWindowCount - 1)
               PROVE  ~Expired(Entry(i)) <=> now - claims[Oldest + i].claimedAt < Window
    OBVIOUS
  <2>1. Entry(i).claimedAt = claims[Oldest + i].claimedAt
    BY Zenon DEF RingInv, RingIsSuffix
  <2>2. claims[Oldest + i].claimedAt \in Int
    BY <1>1, <1>2
  <2> QED BY <1>1, <2>1, <2>2 DEF Expired
<1>4. Shifted(live, Oldest) = recent
  <2>1. ASSUME NEW i \in live PROVE Oldest + i \in recent
    BY <1>1, <1>3
  <2>2. ASSUME NEW j \in recent PROVE \E i \in live : j = Oldest + i
    <3>1. j \in 1..Len(claims) /\ ~(now - claims[j].claimedAt >= Window)
      BY <1>1, <1>2
    <3>2. ~(j \in 1..(Oldest - 1))
      BY <3>1 DEF RingInv, OlderExpired
    <3>3. j - Oldest \in 0..(processClaimWindowCount - 1) /\ Oldest + (j - Oldest) = j
      BY <1>1, <3>1, <3>2
    <3>4. ~Expired(Entry(j - Oldest))
      BY <1>3, <3>3
    <3> QED BY <3>3, <3>4
  <2> QED BY <2>1, <2>2 DEF Shifted
<1>5. SumFunctionOnSet(EntryAmounts, live) = SumOfClaims(Shifted(live, Oldest))
  BY <1>1, RingSum DEF RingInv
<1> QED BY <1>4, <1>5, Zenon DEF UsageIsTrailingWindow, ActiveProcessClaimUsage

\* One more claim leaves the sums over the earlier ones alone.
LEMMA EarlierSum ==
    ASSUME NEW s, s \in Seq(Claim), NEW r, r \in Claim, NEW S, \A i \in S : i \in 1..Len(s)
    PROVE  SumFunctionOnSet(AmountsOf(Append(s, r)), S) = SumFunctionOnSet(AmountsOf(s), S)
<1> DEFINE f == AmountsOf(s)
           g == AmountsOf(Append(s, r))
<1>1. /\ Len(s) \in Nat /\ DOMAIN s = 1..Len(s)
      /\ Append(s, r) \in Seq(Claim) /\ Len(Append(s, r)) = Len(s) + 1
      /\ \A i \in 1..Len(s) : Append(s, r)[i] = s[i]
  OBVIOUS
<1>2. IsFiniteSet(S)
  <2>1. 1 \in Int /\ Len(s) \in Int /\ S \in SUBSET (1..Len(s))
    BY <1>1
  <2> QED BY <2>1, FinitePart
<1>3. ASSUME NEW i \in S PROVE f[i] \in Int /\ g[i] = f[i]
  <2>1. i \in 1..Len(s) /\ i \in 1..Len(Append(s, r))
    BY <1>1
  <2>2. i \in DOMAIN s /\ i \in DOMAIN Append(s, r) /\ s[i] \in Claim
    BY <1>1, <2>1
  <2>3. s[i].amountWei \in Nat
    BY <2>2 DEF Claim
  <2>4. f[i] = s[i].amountWei /\ g[i] = Append(s, r)[i].amountWei
    BY <2>2, Zenon DEF AmountsOf
  <2>5. Append(s, r)[i] = s[i]
    BY <1>1, <2>1
  <2> HIDE DEF f, g
  <2> QED BY <2>3, <2>4, <2>5
<1> HIDE DEF f, g
<1>4. SumFunctionOnSet(f, S) = SumFunctionOnSet(g, S)
  BY <1>2, <1>3, SumAgree
<1> QED BY <1>4 DEF f, g

\* The new claim adds its amount.
LEMMA AppendedSum ==
    ASSUME NEW s, s \in Seq(Claim), NEW r, r \in Claim, NEW S, \A i \in S : i \in 1..Len(s)
    PROVE  SumFunctionOnSet(AmountsOf(Append(s, r)), S \cup {Len(s) + 1})
                 = r.amountWei + SumFunctionOnSet(AmountsOf(s), S)
<1> DEFINE f == AmountsOf(s)
           g == AmountsOf(Append(s, r))
           x == Len(s) + 1
<1>1. /\ Len(s) \in Nat /\ DOMAIN s = 1..Len(s)
      /\ Append(s, r) \in Seq(Claim) /\ Len(Append(s, r)) = x /\ Append(s, r)[x] = r
  OBVIOUS
<1>2. IsFiniteSet(S)
  <2>1. 1 \in Int /\ Len(s) \in Int /\ S \in SUBSET (1..Len(s))
    BY <1>1
  <2> QED BY <2>1, FinitePart
<1>3. ASSUME NEW i \in DOMAIN Append(s, r) PROVE g[i] \in Int
  <2>1. Append(s, r)[i] \in Claim
    BY <1>1
  <2>2. Append(s, r)[i].amountWei \in Nat
    BY <2>1 DEF Claim
  <2>3. g[i] = Append(s, r)[i].amountWei
    BY Zenon DEF AmountsOf
  <2> HIDE DEF g
  <2> QED BY <2>2, <2>3
<1>4. x \in DOMAIN Append(s, r) /\ x \notin S /\ \A i \in S : i \in DOMAIN Append(s, r)
  BY <1>1
<1>5. g[x] = r.amountWei
  <2>1. g[x] = Append(s, r)[x].amountWei
    BY <1>4, Zenon DEF AmountsOf
  <2> QED BY <1>1, <2>1
<1>6. g[x] \in Int /\ \A i \in S : g[i] \in Int
  BY <1>3, <1>4
<1>7. SumFunctionOnSet(f, S) = SumFunctionOnSet(g, S)
  BY EarlierSum
<1> HIDE DEF f, g, x
<1>8. SumFunctionOnSet(g, S \cup {x}) = g[x] + SumFunctionOnSet(g, S)
  BY <1>2, <1>4, <1>6, SumAdd
<1> QED BY <1>5, <1>7, <1>8 DEF f, g, x

\* Pruning k entries takes the k oldest claims of the ring out of the usage.
LEMMA PrunedSum ==
    ASSUME RingInv, NEW k \in 0..processClaimWindowCount
    PROVE  activeProcessClaimUsage - PrunedAmount(k) = SumOfClaims((Oldest + k)..Len(claims))
<1> DEFINE S == Oldest..Len(claims)
           T == Oldest..(Oldest + k - 1)
           V == (Oldest + k)..Len(claims)
           I == 0..(k - 1)
           g == AmountsOf(claims)
<1>1. /\ Len(claims) \in Nat /\ processClaimWindowCount \in Nat /\ k \in Nat
      /\ Oldest \in Nat /\ Oldest >= 1 /\ k <= processClaimWindowCount
      /\ Oldest + processClaimWindowCount = Len(claims) + 1
      /\ claims \in Seq(Claim)
  BY WindowAssumption DEF RingInv, RingTypes, RingIsSuffix, ClaimsInOrder, Oldest
<1>2. Shifted(I, Oldest) = T
  <2>1. ASSUME NEW j \in T PROVE j - Oldest \in I /\ j = Oldest + (j - Oldest)
    BY <1>1
  <2>2. ASSUME NEW i \in I PROVE Oldest + i \in T
    BY <1>1
  <2> QED BY <2>1, <2>2 DEF Shifted
<1>3. \A i \in I : i \in 0..(processClaimWindowCount - 1)
  BY <1>1
<1>4. S \ T = V /\ T \subseteq S
  BY <1>1
<1>5. S \in SUBSET (1..Len(claims)) /\ T \in SUBSET (1..Len(claims)) /\ V \in SUBSET (1..Len(claims))
  BY <1>1
<1>6. PrunedAmount(k) = SumFunctionOnSet(EntryAmounts, I)
  BY DEF PrunedAmount
<1>7. activeProcessClaimUsage = SumOfClaims(S)
  BY DEF RingInv, UsageIsRing
<1> HIDE DEF S, T, V, I
<1>8. SumFunctionOnSet(EntryAmounts, I) = SumOfClaims(T)
  BY <1>1, <1>2, <1>3, RingSum DEF RingInv
<1>9. /\ IsFiniteSet(S) /\ \A i \in S : g[i] \in Int
      /\ SumOfClaims(S) \in Nat /\ SumOfClaims(T) \in Nat /\ SumOfClaims(V) \in Nat
  <2>1. IsFiniteSet(S) /\ SumOfClaims(S) \in Nat /\ \A i \in S : g[i] \in Nat
    BY <1>1, <1>5, ClaimSums, Zenon
  <2>2. SumOfClaims(T) \in Nat /\ SumOfClaims(V) \in Nat
    BY <1>1, <1>5, ClaimSums, Zenon
  <2>3. \A i \in S : g[i] \in Int
    BY <2>1
  <2> QED BY <2>1, <2>2, <2>3
<1>10. /\ SumOfClaims(S) = SumFunctionOnSet(g, S) /\ SumOfClaims(T) = SumFunctionOnSet(g, T)
       /\ SumOfClaims(V) = SumFunctionOnSet(g, V)
  BY Zenon DEF SumOfClaims, AmountsOf
<1> HIDE DEF g
<1>11. SumFunctionOnSet(g, S) = SumFunctionOnSet(g, T) + SumFunctionOnSet(g, S \ T)
  <2>1. T \in SUBSET S
    BY <1>4
  <2> QED BY <1>9, <2>1, SumSplit
<1>12. SumOfClaims(S) = SumOfClaims(T) + SumOfClaims(V)
  BY <1>4, <1>10, <1>11
<1>13. activeProcessClaimUsage - PrunedAmount(k) = SumOfClaims(V)
  BY <1>6, <1>7, <1>8, <1>9, <1>12
<1> QED BY <1>13 DEF V

\* The claims after claimProcess: what the ring prunes has expired, and what it
\* keeps is live.
LEMMA KeptIsLive ==
    ASSUME RingInv, NEW k \in 0..processClaimWindowCount, Prunes(k)
    PROVE  \A j \in 1..Len(claims) : /\ claims[j].claimedAt \in Int
                                     /\ j < Oldest + k => now - claims[j].claimedAt >= Window
                                     /\ j >= Oldest + k => now - claims[j].claimedAt < Window
<1>1. /\ Len(claims) \in Nat /\ processClaimWindowCount \in Nat /\ processClaimWindowCount <= Len(claims)
      /\ claims \in Seq(Claim) /\ now \in Nat /\ Window \in Nat /\ k \in Nat
      /\ k <= processClaimWindowCount /\ Oldest \in Nat /\ Oldest >= 1
      /\ Oldest + processClaimWindowCount = Len(claims) + 1
  BY WindowAssumption, TimeAssumption DEF RingInv, RingTypes, RingIsSuffix, ClaimsInOrder, Oldest
<1>2. \A j \in 1..Len(claims) : claims[j].claimedAt \in Int
  <2> SUFFICES ASSUME NEW j \in 1..Len(claims) PROVE claims[j].claimedAt \in Int
    OBVIOUS
  <2>1. claims[j] \in Claim
    BY <1>1
  <2> QED BY <2>1, TimeAssumption DEF Claim
<1>3. \A i \in 0..(processClaimWindowCount - 1) :
          Expired(Entry(i)) <=> now - claims[Oldest + i].claimedAt >= Window
  BY Zenon DEF RingInv, RingIsSuffix, Expired
<1> SUFFICES ASSUME NEW j \in 1..Len(claims)
             PROVE  /\ j < Oldest + k => now - claims[j].claimedAt >= Window
                    /\ j >= Oldest + k => now - claims[j].claimedAt < Window
  BY <1>2
<1>4. CASE j < Oldest
  <2>1. j \in 1..(Oldest - 1)
    BY <1>1, <1>4
  <2>2. now - claims[j].claimedAt >= Window
    BY <2>1 DEF RingInv, OlderExpired
  <2> QED BY <1>1, <1>4, <2>2
<1>5. CASE j >= Oldest /\ j < Oldest + k
  <2>1. j - Oldest \in 0..(k - 1) /\ j - Oldest \in 0..(processClaimWindowCount - 1)
        /\ Oldest + (j - Oldest) = j
    BY <1>1, <1>5
  <2>2. Expired(Entry(j - Oldest))
    BY <2>1 DEF Prunes
  <2>3. now - claims[j].claimedAt >= Window
    BY <1>3, <2>1, <2>2
  <2> QED BY <1>1, <1>5, <2>3
<1>6. CASE j >= Oldest + k
  <2>1. k < processClaimWindowCount /\ k \in 0..(processClaimWindowCount - 1)
        /\ Oldest + k \in 1..Len(claims) /\ Oldest + k <= j
    BY <1>1, <1>6
  <2>2. ~(now - claims[Oldest + k].claimedAt >= Window)
    BY <1>3, <2>1 DEF Prunes
  <2>3. claims[Oldest + k].claimedAt <= claims[j].claimedAt
    BY <2>1 DEF RingInv, ClaimsInOrder
  <2>4. claims[Oldest + k].claimedAt \in Int /\ claims[j].claimedAt \in Int
    BY <1>2, <2>1
  <2> QED BY <1>1, <1>6, <2>2, <2>3, <2>4
<1> QED BY <1>1, <1>4, <1>5, <1>6

\* The entries after pruning k of them and appending one, read from the new head.
LEMMA EntriesAfter ==
    ASSUME RingTypes, NEW k \in 0..processClaimWindowCount, NEW a,
           Accepts(k, a), AppendAfterPruning(k, a)
    PROVE  /\ processClaimWindowHead' \in 0..(MaxCount - 1)
           /\ processClaimWindowCount' = processClaimWindowCount - k + 1
           /\ processClaimWindowCount' \in 1..MaxCount
           /\ \A i \in 0..(processClaimWindowCount - k) :
                 Entry(i)' = IF i = processClaimWindowCount - k
                             THEN [amountWei |-> a, claimedAt |-> now] ELSE Entry(k + i)
<1> DEFINE h == processClaimWindowHead
           n == processClaimWindowCount
           c == n - k
           h2 == RingIndex(k)
           new == [amountWei |-> a, claimedAt |-> now]
<1>1. /\ MaxCount \in Nat \ {0} /\ h \in 0..(MaxCount - 1) /\ n \in 0..MaxCount
      /\ k \in 0..MaxCount /\ k <= n /\ n \in Nat /\ k \in Nat
  BY WindowAssumption DEF RingTypes
<1>2. /\ c # MaxCount /\ h' = h2 /\ n' = c + 1
      /\ processClaimWindowEntries' =
            [i \in 0..(MaxCount - 1) |->
                IF i = (h2 + c) % MaxCount THEN new
                ELSE IF i \in PrunedIndexes(k) THEN NoEntry ELSE processClaimWindowEntries[i]]
  BY DEF Accepts, AppendAfterPruning
<1>3. c \in 0..(MaxCount - 1)
  BY <1>1, <1>2
<1>4. Wrapped(h2, h + k, MaxCount) /\ h2 \in 0..(MaxCount - 1)
  <2>1. Wrapped(h2, h + k, MaxCount)
    BY <1>1, Wraps
  <2> QED BY <2>1 DEF Wrapped
<1>5. \A i \in 0..c : Wrapped((h2 + i) % MaxCount, h2 + i, MaxCount)
  <2> SUFFICES ASSUME NEW i \in 0..c PROVE Wrapped((h2 + i) % MaxCount, h2 + i, MaxCount)
    OBVIOUS
  <2>1. i \in 0..MaxCount
    BY <1>1, <1>3
  <2> HIDE DEF h2
  <2> QED BY <1>1, <1>4, <2>1, WrapOnce
<1>6. \A i \in 0..c : Entry(i)' = processClaimWindowEntries'[(h2 + i) % MaxCount]
  BY <1>2, Zenon DEF Entry, RingIndex
<1>7. Wrapped((h2 + c) % MaxCount, h2 + c, MaxCount) /\ c \in 0..c
  BY <1>3, <1>5
<1>8. ASSUME NEW i \in 0..c PROVE Entry(i)' = IF i = c THEN new ELSE Entry(k + i)
  <2> DEFINE x == (h2 + i) % MaxCount
             y == (h2 + c) % MaxCount
  <2>1. Wrapped(x, h2 + i, MaxCount) /\ x \in 0..(MaxCount - 1)
    <3>1. Wrapped(x, h2 + i, MaxCount)
      BY <1>5
    <3> QED BY <3>1 DEF Wrapped
  <2>2. Entry(i)' = processClaimWindowEntries'[x]
    BY <1>6
  <2>3. processClaimWindowEntries'[x] =
            IF x = y THEN new
            ELSE IF x \in PrunedIndexes(k) THEN NoEntry ELSE processClaimWindowEntries[x]
    <3> HIDE DEF x, y, new, h2
    <3> QED BY <1>2, <2>1, Zenon DEF y
  <2>4. CASE i = c
    BY <2>2, <2>3, <2>4
  <2>5. CASE i # c
    <3> DEFINE z == RingIndex(k + i)
    <3>1. i \in 0..(c - 1) /\ k + i \in 0..MaxCount /\ k + i \in Nat
      BY <1>1, <1>3, <2>5
    <3>2. Wrapped(z, h + (k + i), MaxCount)
      BY <3>1, Wraps
    <3>3. x = z /\ x # y
      <4>1. Wrapped(y, h2 + c, MaxCount)
        BY <1>7
      <4> HIDE DEF x, y, z, h2, c
      <4> QED BY <1>1, <1>3, <1>4, <2>1, <3>1, <3>2, <4>1 DEF Wrapped
    <3>4. x \notin PrunedIndexes(k)
      <4> SUFFICES ASSUME NEW j \in 0..(k - 1) PROVE x # RingIndex(j)
        BY DEF PrunedIndexes
      <4> DEFINE u == RingIndex(j)
      <4>1. j \in 0..MaxCount
        BY <1>1
      <4>2. Wrapped(u, h + j, MaxCount)
        BY <4>1, Wraps
      <4>3. k + i < MaxCount /\ j < k + i
        BY <1>1, <1>3, <3>1
      <4> HIDE DEF x, h2, z, u
      <4>4. z # u
        BY <1>1, <3>1, <3>2, <4>1, <4>2, <4>3 DEF Wrapped
      <4> QED BY <3>3, <4>4 DEF u
    <3>5. processClaimWindowEntries'[x] = processClaimWindowEntries[x]
      BY <2>3, <3>3, <3>4
    <3> QED BY <2>2, <2>5, <3>3, <3>5, Zenon DEF Entry
  <2> QED BY <2>4, <2>5
<1>9. n' \in 1..MaxCount
  BY <1>1, <1>2, <1>3
<1>10. h' \in 0..(MaxCount - 1) /\ n' = n - k + 1
  BY <1>2, <1>4
<1>11. \A i \in 0..(n - k) : Entry(i)' = IF i = n - k THEN new ELSE Entry(k + i)
  BY <1>8
<1> QED BY <1>9, <1>10, <1>11, Zenon

\* A claim of claimProcess keeps the ring the trailing part of the claims and
\* stays, with what is left in the window, within the limit in force.
LEMMA ClaimRing ==
    ASSUME RingInv, TrailingWindowCapped, NEW c \in Cycles, NEW a \in Nat, ClaimInWindow(c, a)
    PROVE  RingInv' /\ TrailingWindowCapped'
<1> DEFINE n == Len(claims)
           cap == EffectiveProcessClaimLimit
           r == [cycleId |-> c, amountWei |-> a, claimedAt |-> now, cap |-> cap]
<1>1. PICK k \in 0..processClaimWindowCount :
          Accepts(k, a) /\ Prunes(k) /\ FitsCapacity(k, a) /\ AppendAfterPruning(k, a)
  BY DEF ClaimInWindow, Accepts
<1>2. /\ n \in Nat /\ processClaimWindowCount \in Nat /\ processClaimWindowCount <= n
      /\ claims \in Seq(Claim) /\ now \in Nat /\ now \in 0..MaxTime /\ Window \in Nat /\ Window > 0
      /\ k \in Nat /\ k <= processClaimWindowCount /\ Oldest \in Nat /\ Oldest >= 1
      /\ Oldest + processClaimWindowCount = n + 1 /\ MaxCount \in Nat \ {0}
  BY WindowAssumption, TimeAssumption DEF RingInv, RingTypes, RingIsSuffix, ClaimsInOrder, Oldest
<1>3. cap \in Nat
  BY EffectiveIsLimit, WindowAssumption DEF RingInv
<1>4. r \in Claim /\ r.amountWei = a /\ r.claimedAt = now /\ r.cap = cap
  BY <1>2, <1>3 DEF Claim
<1>5. claims' = Append(claims, r) /\ now' = now
  BY DEF ClaimInWindow
<1> HIDE DEF r, cap
<1>6. /\ claims' \in Seq(Claim) /\ Len(claims') = n + 1 /\ claims'[n + 1] = r
      /\ \A i \in 1..n : claims'[i] = claims[i]
  BY <1>2, <1>4, <1>5
<1>7. LInv'
  BY ClaimLimits DEF RingInv
<1>8. /\ processClaimWindowHead' \in 0..(MaxCount - 1)
      /\ processClaimWindowCount' = processClaimWindowCount - k + 1
      /\ processClaimWindowCount' \in 1..MaxCount
      /\ \A i \in 0..(processClaimWindowCount - k) :
            Entry(i)' = IF i = processClaimWindowCount - k
                        THEN [amountWei |-> a, claimedAt |-> now] ELSE Entry(k + i)
  BY <1>1, EntriesAfter DEF RingInv
<1>9. \A j \in 1..n : /\ claims[j].claimedAt \in Int
                      /\ j < Oldest + k => now - claims[j].claimedAt >= Window
                      /\ j >= Oldest + k => now - claims[j].claimedAt < Window
  BY <1>1, KeptIsLive
<1>10. Oldest' = Oldest + k
  <2>1. Oldest' = Len(claims') - processClaimWindowCount' + 1
    BY Zenon DEF Oldest
  <2>2. Oldest = Len(claims) - processClaimWindowCount + 1
    BY Zenon DEF Oldest
  <2> QED BY <1>2, <1>6, <1>8, <2>1, <2>2
<1>11. RingTypes'
  <2>1. processClaimWindowEntries' \in [0..(MaxCount - 1) -> [amountWei : Nat, claimedAt : 0..MaxTime]]
    <3>1. NoEntry \in [amountWei : Nat, claimedAt : 0..MaxTime]
      BY TimeAssumption DEF NoEntry
    <3>2. [amountWei |-> a, claimedAt |-> now] \in [amountWei : Nat, claimedAt : 0..MaxTime]
      BY <1>2
    <3> QED BY <1>1, <3>1, <3>2, Zenon DEF AppendAfterPruning, RingInv, RingTypes
  <2>2. processClaimWindowCount' \in 0..MaxCount
    BY <1>2, <1>8
  <2> QED BY <1>2, <1>5, <1>8, <2>1, <2>2 DEF RingTypes
<1>12. ClaimsInOrder'
  <2>1. \A i \in 1..n : claims[i].claimedAt <= now
    BY DEF RingInv, ClaimsInOrder
  <2>2. \A i, j \in 1..n : i <= j => claims[i].claimedAt <= claims[j].claimedAt
    BY DEF RingInv, ClaimsInOrder
  <2>3. \A i \in 1..(n + 1) : claims'[i].claimedAt <= now
    BY <1>2, <1>4, <1>6, <2>1
  <2>4. \A i, j \in 1..(n + 1) : i <= j => claims'[i].claimedAt <= claims'[j].claimedAt
    <3> SUFFICES ASSUME NEW i \in 1..(n + 1), NEW j \in 1..(n + 1), i <= j
                 PROVE  claims'[i].claimedAt <= claims'[j].claimedAt
      OBVIOUS
    <3>1. CASE j = n + 1
      BY <1>4, <1>6, <2>3, <3>1
    <3>2. CASE j # n + 1
      <4>1. i \in 1..n /\ j \in 1..n
        BY <1>2, <3>2
      <4> QED BY <1>6, <2>2, <4>1
    <3> QED BY <3>1, <3>2
  <2> QED BY <1>5, <1>6, <2>3, <2>4 DEF ClaimsInOrder
<1>13. RingIsSuffix'
  <2>1. processClaimWindowCount' <= Len(claims')
    BY <1>2, <1>6, <1>8
  <2>2. ASSUME NEW i \in 0..(processClaimWindowCount' - 1)
        PROVE  /\ Entry(i)'.amountWei = claims'[Oldest' + i].amountWei
               /\ Entry(i)'.claimedAt = claims'[Oldest' + i].claimedAt
    <3>1. i \in 0..(processClaimWindowCount - k)
      BY <1>2, <1>8
    <3>2. Entry(i)' = IF i = processClaimWindowCount - k
                      THEN [amountWei |-> a, claimedAt |-> now] ELSE Entry(k + i)
      BY <1>8, <3>1
    <3>3. CASE i = processClaimWindowCount - k
      <4>1. Oldest' + i = n + 1
        BY <1>2, <1>10, <3>3
      <4> QED BY <1>4, <1>6, <3>2, <3>3, <4>1
    <3>4. CASE i # processClaimWindowCount - k
      <4>1. /\ k + i \in 0..(processClaimWindowCount - 1)
            /\ Oldest' + i = Oldest + (k + i) /\ Oldest + (k + i) \in 1..n
        BY <1>2, <1>10, <3>1, <3>4
      <4>2. /\ Entry(k + i).amountWei = claims[Oldest + (k + i)].amountWei
            /\ Entry(k + i).claimedAt = claims[Oldest + (k + i)].claimedAt
        BY <4>1 DEF RingInv, RingIsSuffix
      <4>3. claims'[Oldest + (k + i)] = claims[Oldest + (k + i)]
        BY <1>6, <4>1
      <4> QED BY <3>2, <3>4, <4>1, <4>2, <4>3
    <3> QED BY <3>3, <3>4
  <2> QED BY <2>1, <2>2 DEF RingIsSuffix
<1>14. OlderExpired'
  <2> SUFFICES ASSUME NEW j \in 1..(Oldest' - 1) PROVE now' - claims'[j].claimedAt >= Window
    BY DEF OlderExpired
  <2>1. j \in 1..n /\ j < Oldest + k
    BY <1>2, <1>10
  <2> QED BY <1>5, <1>6, <1>9, <2>1
<1> DEFINE kept == (Oldest + k)..n
           used == activeProcessClaimUsage - PrunedAmount(k)
<1>15. used = SumOfClaims(kept) /\ used \in Nat
  <2>1. used = SumOfClaims(kept)
    BY <1>1, PrunedSum
  <2>2. kept \in SUBSET (1..n)
    BY <1>2
  <2>3. SumOfClaims(kept) \in Nat
    BY <1>2, <2>2, ClaimSums
  <2> QED BY <2>1, <2>3
<1>16. used + a <= cap
  <2>1. used < cap /\ a <= cap - used
    BY <1>1 DEF FitsCapacity, cap
  <2> HIDE DEF used
  <2> QED BY <1>3, <1>15, <2>1
<1>17. SumFunctionOnSet(AmountsOf(claims'), kept \cup {n + 1}) = a + SumOfClaims(kept)
  <2>1. \A i \in kept : i \in 1..n
    BY <1>2
  <2> HIDE DEF kept
  <2>2. SumFunctionOnSet(AmountsOf(Append(claims, r)), kept \cup {n + 1})
          = r.amountWei + SumFunctionOnSet(AmountsOf(claims), kept)
    BY <1>2, <1>4, <2>1, AppendedSum
  <2> QED BY <1>4, <1>5, <2>2, Zenon DEF SumOfClaims, AmountsOf
<1>18. UsageIsRing'
  <2>1. Oldest'..Len(claims') = kept \cup {n + 1}
    BY <1>2, <1>6, <1>10
  <2>2. activeProcessClaimUsage' = used + a
    BY <1>1 DEF AppendAfterPruning
  <2>3. a + SumOfClaims(kept) = used + a
    <3> HIDE DEF used, kept
    <3> QED BY <1>15
  <2> HIDE DEF kept, used
  <2>4. activeProcessClaimUsage' = SumFunctionOnSet(AmountsOf(claims'), Oldest'..Len(claims'))
    BY <1>17, <2>1, <2>2, <2>3
  <2> QED BY <2>4, Zenon DEF UsageIsRing, SumOfClaims, AmountsOf
<1>19. ASSUME NEW S, \A j \in S : j \in 1..n
       PROVE  SumFunctionOnSet(AmountsOf(claims'), S) = SumOfClaims(S)
  <2>1. SumFunctionOnSet(AmountsOf(Append(claims, r)), S) = SumFunctionOnSet(AmountsOf(claims), S)
    BY <1>2, <1>4, <1>19, EarlierSum
  <2> QED BY <1>5, <2>1, Zenon DEF SumOfClaims, AmountsOf
<1>20. TrailingWindowCapped'
  <2> DEFINE Recent(i) == {j \in 1..i : claims'[i].claimedAt - claims'[j].claimedAt < Window}
  <2> SUFFICES ASSUME NEW i \in 1..(n + 1)
               PROVE  SumFunctionOnSet(AmountsOf(claims'), Recent(i)) <= claims'[i].cap
    BY <1>6, Zenon DEF TrailingWindowCapped, SumOfClaims, AmountsOf
  <2>1. CASE i = n + 1
    <3>1. Recent(n + 1) = kept \cup {n + 1}
      <4>1. ASSUME NEW j \in 1..(n + 1) PROVE j \in Recent(n + 1) <=> j \in kept \cup {n + 1}
        <5>1. CASE j = n + 1
          <6>1. claims'[n + 1].claimedAt = now /\ now - now < Window
            BY <1>2, <1>4, <1>6
          <6> QED BY <5>1, <6>1
        <5>2. CASE j # n + 1
          <6>1. j \in 1..n /\ (j < Oldest + k \/ j >= Oldest + k)
            BY <1>2, <5>2
          <6>2. claims'[n + 1].claimedAt = now /\ claims'[j] = claims[j]
            BY <1>4, <1>6, <6>1
          <6>3. claims[j].claimedAt \in Int
            BY <1>9, <6>1
          <6>4. CASE j < Oldest + k
            BY <1>2, <1>9, <6>1, <6>2, <6>3, <6>4
          <6>5. CASE j >= Oldest + k
            BY <1>2, <1>9, <6>1, <6>2, <6>3, <6>5
          <6> QED BY <6>1, <6>4, <6>5
        <5> QED BY <5>1, <5>2
      <4>2. kept \cup {n + 1} \subseteq 1..(n + 1)
        BY <1>2
      <4> QED BY <4>1, <4>2
    <3>2. claims'[n + 1].cap = cap
      BY <1>4, <1>6
    <3> HIDE DEF Recent, kept, used
    <3>3. a + SumOfClaims(kept) <= cap
      BY <1>15, <1>16
    <3> QED BY <1>17, <2>1, <3>1, <3>2, <3>3
  <2>2. CASE i # n + 1
    <3>1. i \in 1..n
      BY <1>2, <2>2
    <3> DEFINE Before == {j \in 1..i : claims[i].claimedAt - claims[j].claimedAt < Window}
    <3>2. Recent(i) = Before
      <4>1. \A j \in 1..i : claims'[j] = claims[j]
        BY <1>2, <1>6, <3>1
      <4>2. claims'[i] = claims[i]
        BY <1>6, <3>1
      <4> QED BY <4>1, <4>2
    <3>3. \A j \in Before : j \in 1..n
      BY <1>2, <3>1
    <3>4. SumOfClaims(Before) <= claims[i].cap
      BY <3>1 DEF TrailingWindowCapped
    <3> HIDE DEF Before, Recent
    <3>5. SumFunctionOnSet(AmountsOf(claims'), Before) = SumOfClaims(Before)
      BY <3>3, <1>19
    <3>6. claims'[i] = claims[i]
      BY <1>6, <3>1
    <3> QED BY <3>2, <3>4, <3>5, <3>6
  <2> QED BY <2>1, <2>2
<1> QED BY <1>7, <1>11, <1>12, <1>13, <1>14, <1>18, <1>20 DEF RingInv

\* The parts of the invariant that only time and the limits can disturb.
LEMMA RingKept ==
    ASSUME RingInv, TrailingWindowCapped, LInv', now' \in now..MaxTime, UNCHANGED <<ringVars, claims>>
    PROVE  RingInv' /\ TrailingWindowCapped'
<1>1. /\ processClaimWindowEntries' = processClaimWindowEntries
      /\ processClaimWindowHead' = processClaimWindowHead
      /\ processClaimWindowCount' = processClaimWindowCount
      /\ activeProcessClaimUsage' = activeProcessClaimUsage /\ claims' = claims
  BY DEF ringVars
<1>2. now \in 0..MaxTime /\ now' \in 0..MaxTime /\ now <= now' /\ claims \in Seq(Claim) /\ Len(claims) \in Nat
      /\ Window \in Nat
  BY TimeAssumption, WindowAssumption DEF RingInv, RingTypes, ClaimsInOrder
<1>3. \A j \in 1..Len(claims) : claims[j].claimedAt \in Int
  <2> SUFFICES ASSUME NEW j \in 1..Len(claims) PROVE claims[j].claimedAt \in Int
    OBVIOUS
  <2>1. claims[j] \in Claim
    BY <1>2
  <2> QED BY <2>1, TimeAssumption DEF Claim
<1>4. RingTypes'
  BY <1>1, <1>2, Zenon DEF RingInv, RingTypes
<1>5. ClaimsInOrder'
  <2>1. \A i \in 1..Len(claims) : claims[i].claimedAt <= now
    BY DEF RingInv, ClaimsInOrder
  <2>2. \A i \in 1..Len(claims) : claims[i].claimedAt <= now'
    BY <1>2, <1>3, <2>1
  <2> QED BY <1>1, <2>2, Zenon DEF RingInv, ClaimsInOrder
<1>6. Oldest' = Oldest
  BY <1>1 DEF Oldest
<1>7. RingIsSuffix'
  BY <1>1, <1>6, Zenon DEF RingInv, RingIsSuffix, Entry, RingIndex
<1>8. OlderExpired'
  <2> SUFFICES ASSUME NEW j \in 1..(Oldest - 1) PROVE now' - claims[j].claimedAt >= Window
    BY <1>1, <1>6 DEF OlderExpired
  <2>1. now - claims[j].claimedAt >= Window
    BY DEF RingInv, OlderExpired
  <2>2. j \in 1..Len(claims)
    BY <1>2 DEF RingInv, RingTypes, Oldest
  <2> QED BY <1>2, <1>3, <2>1, <2>2
<1>9. UsageIsRing' /\ TrailingWindowCapped'
  BY <1>1, <1>6, Zenon DEF RingInv, UsageIsRing, TrailingWindowCapped, SumOfClaims
<1> QED BY <1>4, <1>5, <1>7, <1>8, <1>9 DEF RingInv

LEMMA InitRing == WindowInit => RingInv /\ TrailingWindowCapped
<1> SUFFICES ASSUME WindowInit PROVE RingInv /\ TrailingWindowCapped
  OBVIOUS
<1> USE WindowAssumption, TimeAssumption
<1>1. LInv
  BY InitLimits
<1>2. /\ now = 0 /\ claims = <<>> /\ processClaimWindowCount = 0 /\ processClaimWindowHead = 0
      /\ activeProcessClaimUsage = 0 /\ Len(claims) = 0 /\ Oldest = 1
  BY DEF WindowInit, Oldest
<1>3. RingTypes
  <2>1. NoEntry \in [amountWei : Nat, claimedAt : 0..MaxTime]
    BY DEF NoEntry
  <2>2. processClaimWindowEntries \in [0..(MaxCount - 1) -> [amountWei : Nat, claimedAt : 0..MaxTime]]
    BY <2>1, Zenon DEF WindowInit
  <2> QED BY <1>2, <2>2 DEF RingTypes
<1>4. ClaimsInOrder /\ RingIsSuffix /\ OlderExpired /\ TrailingWindowCapped
  BY <1>2 DEF ClaimsInOrder, RingIsSuffix, OlderExpired, TrailingWindowCapped
<1>5. UsageIsRing
  <2>1. Oldest..Len(claims) = {}
    BY <1>2
  <2>2. SumOfClaims({}) = 0
    BY SumEmpty DEF SumOfClaims
  <2> QED BY <1>2, <2>1, <2>2 DEF UsageIsRing
<1> QED BY <1>1, <1>3, <1>4, <1>5 DEF RingInv

LEMMA StepRing ==
    RingInv /\ TrailingWindowCapped /\ [WindowNext]_windowVars => RingInv' /\ TrailingWindowCapped'
<1> SUFFICES ASSUME RingInv, TrailingWindowCapped, [WindowNext]_windowVars
             PROVE  RingInv' /\ TrailingWindowCapped'
  OBVIOUS
<1>1. ASSUME NEW c \in Cycles, NEW a \in Amounts, ClaimInWindow(c, a) PROVE RingInv' /\ TrailingWindowCapped'
  <2>1. a \in Nat
    BY WindowAssumption
  <2> QED BY <1>1, <2>1, ClaimRing
<1>2. LInv'
  BY StepLimits DEF RingInv
<1>3. CASE ~\E c \in Cycles, a \in Amounts : ClaimInWindow(c, a)
  <2>1. now \in 0..MaxTime
    BY DEF RingInv, RingTypes
  <2>2. now' \in now..MaxTime
    BY <1>3, <2>1, TimeAssumption DEF WindowNext, SetLimit, WindowTick, NextBlock, windowVars
  <2>3. UNCHANGED <<ringVars, claims>>
    BY <1>3 DEF WindowNext, SetLimit, WindowTick, windowVars
  <2> QED BY <1>2, <2>2, <2>3, RingKept
<1> QED BY <1>1, <1>3

LEMMA RingInvariant == WindowSpec => [](RingInv /\ TrailingWindowCapped)
BY InitRing, StepRing, PTL DEF WindowSpec

-----------------------------------------------------------------------------

\* What the views report as used is, in every state, the sum of the claims made
\* less than a window ago, for every length of the ring and every window.
THEOREM UsageIsExact == WindowSpec => []UsageIsTrailingWindow
BY RingInvariant, UsageOfRing, PTL

\* No claim ever brought what was claimed within a window above the limit that
\* was in force when it was made.
THEOREM ClaimsStayCapped == WindowSpec => []TrailingWindowCapped
BY RingInvariant, PTL

\* The head of the ring has a first live entry, or none is left.
LEMMA PrunesSome ==
    ASSUME RingInv
    PROVE  \E k \in 0..processClaimWindowCount : Prunes(k)
<1> DEFINE c == processClaimWindowCount
           Q == {n \in Nat : n <= c => \/ \A i \in 0..(n - 1) : Expired(Entry(i))
                                       \/ \E k \in 0..c : Prunes(k)}
<1>1. c \in Nat
  BY WindowAssumption DEF RingInv, RingTypes
<1>2. 0 \in Q
  OBVIOUS
<1>3. ASSUME NEW n \in Q PROVE n + 1 \in Q
  <2> SUFFICES ASSUME n + 1 <= c
               PROVE  (\A i \in 0..n : Expired(Entry(i))) \/ \E k \in 0..c : Prunes(k)
    BY <1>1
  <2>1. CASE \E k \in 0..c : Prunes(k)
    BY <2>1
  <2>2. CASE (\A i \in 0..(n - 1) : Expired(Entry(i))) /\ ~Expired(Entry(n))
    <3>1. n \in 0..c
      BY <1>1
    <3>2. Prunes(n)
      BY <2>2 DEF Prunes
    <3> QED BY <3>1, <3>2
  <2>3. CASE (\A i \in 0..(n - 1) : Expired(Entry(i))) /\ Expired(Entry(n))
    <3>1. \A i \in 0..n : i = n \/ i \in 0..(n - 1)
      BY <1>1
    <3> QED BY <2>3, <3>1
  <2> QED BY <1>1, <2>1, <2>2, <2>3
<1> HIDE DEF Q
<1>4. Q \in SUBSET Nat
  BY DEF Q
<1>5. c \in Q
  BY <1>1, <1>2, <1>3, <1>4, Induction
<1>6. CASE \A i \in 0..(c - 1) : Expired(Entry(i))
  <2>1. c \in 0..c /\ ~(c < c)
    BY <1>1
  <2>2. Prunes(c)
    BY <1>6, <2>1 DEF Prunes
  <2> QED BY <2>1, <2>2
<1> QED BY <1>1, <1>5, <1>6 DEF Q

\* After pruning, the ring holds the live claims and the usage is theirs.
LEMMA PrunedView ==
    ASSUME RingInv, NEW k \in 0..processClaimWindowCount, Prunes(k)
    PROVE  /\ activeProcessClaimUsage - PrunedAmount(k) = ActiveProcessClaimUsage
           /\ ActiveProcessClaimUsage \in Nat
           /\ Cardinality(LiveEntries) = processClaimWindowCount - k
<1> DEFINE live == (Oldest + k)..Len(claims)
<1>1. /\ Len(claims) \in Nat /\ processClaimWindowCount \in Nat /\ k \in Nat
      /\ k <= processClaimWindowCount /\ Oldest \in Nat /\ Oldest >= 1
      /\ Oldest + processClaimWindowCount = Len(claims) + 1 /\ claims \in Seq(Claim)
  BY WindowAssumption DEF RingInv, RingTypes, RingIsSuffix, ClaimsInOrder, Oldest
<1>2. live \in SUBSET (1..Len(claims))
  BY <1>1
<1>3. LiveEntries = live
  <2>1. ASSUME NEW j \in 1..Len(claims) PROVE now - claims[j].claimedAt < Window <=> j \in live
    <3>1. /\ j < Oldest + k => now - claims[j].claimedAt >= Window
          /\ j >= Oldest + k => now - claims[j].claimedAt < Window
          /\ claims[j].claimedAt \in Int
      BY KeptIsLive
    <3>2. now \in Nat /\ Window \in Nat
      BY WindowAssumption, TimeAssumption DEF RingInv, RingTypes
    <3> QED BY <1>1, <3>1, <3>2
  <2> QED BY <1>2, <2>1 DEF LiveEntries
<1>4. Cardinality(live) = processClaimWindowCount - k
  <2> DEFINE lo == Oldest + k
             hi == Len(claims)
  <2>1. lo \in Int /\ hi \in Int /\ processClaimWindowCount - k = hi + 1 - lo /\ lo <= hi + 1
    BY <1>1
  <2> HIDE DEF lo, hi
  <2>2. Cardinality(lo..hi) = IF lo > hi THEN 0 ELSE hi - lo + 1
    BY <2>1, FS_Interval
  <2>3. Cardinality(lo..hi) = hi + 1 - lo
    BY <2>1, <2>2
  <2> QED BY <2>1, <2>3 DEF lo, hi
<1>5. ActiveProcessClaimUsage = SumOfClaims(LiveEntries)
  BY UsageOfRing DEF UsageIsTrailingWindow, LiveEntries
<1>6. activeProcessClaimUsage - PrunedAmount(k) = SumOfClaims(live)
  BY PrunedSum
<1>7. SumOfClaims(live) \in Nat
  BY <1>1, <1>2, ClaimSums
<1> QED BY <1>3, <1>4, <1>5, <1>6, <1>7

\* remainingProcessClaimCapacity tells exactly which claims claimProcess would
\* accept, for every size of the ring and whatever is left in it to prune.
THEOREM ViewIsExact == WindowSpec => []ViewMatchesClaim
<1>1. RingInv => ViewMatchesClaim
  <2> SUFFICES ASSUME RingInv, NEW a \in Amounts \ {0}
               PROVE  (\E k \in 0..processClaimWindowCount : Accepts(k, a))
                         <=> a <= RemainingProcessClaimCapacity /\ Cardinality(LiveEntries) < MaxCount
    BY DEF ViewMatchesClaim
  <2> DEFINE cap == EffectiveProcessClaimLimit
             used == ActiveProcessClaimUsage
  <2>1. a \in Nat /\ a # 0 /\ cap \in Nat /\ MaxCount \in Nat /\ processClaimWindowCount \in 0..MaxCount
    BY EffectiveIsLimit, WindowAssumption DEF RingInv, RingTypes
  <2>2. ASSUME NEW k \in 0..processClaimWindowCount, Prunes(k)
        PROVE  Accepts(k, a) <=> a <= RemainingProcessClaimCapacity /\ Cardinality(LiveEntries) < MaxCount
    <3>1. /\ activeProcessClaimUsage - PrunedAmount(k) = used /\ used \in Nat
          /\ Cardinality(LiveEntries) = processClaimWindowCount - k
      BY <2>2, PrunedView
    <3>2. FitsCapacity(k, a) <=> used < cap /\ a <= cap - used
      BY <3>1 DEF FitsCapacity
    <3>3. RemainingProcessClaimCapacity = IF used >= cap THEN 0 ELSE cap - used
      BY DEF RemainingProcessClaimCapacity
    <3>4. Accepts(k, a) <=> FitsCapacity(k, a) /\ processClaimWindowCount - k # MaxCount
      BY <2>2 DEF Accepts
    <3> HIDE DEF used, cap
    <3>5. FitsCapacity(k, a) <=> a <= RemainingProcessClaimCapacity
      BY <2>1, <3>1, <3>2, <3>3
    <3>6. Cardinality(LiveEntries) < MaxCount <=> processClaimWindowCount - k # MaxCount
      BY <2>1, <3>1
    <3> QED BY <3>4, <3>5, <3>6
  <2>3. \A k : Accepts(k, a) => Prunes(k)
    BY DEF Accepts
  <2>4. \E k \in 0..processClaimWindowCount : Prunes(k)
    BY PrunesSome
  <2> QED BY <2>2, <2>3, <2>4
<1> QED BY <1>1, RingInvariant, PTL

\* The limits never exceed the immutable maximum, and the head and the count of
\* the ring never leave the ring.
THEOREM WindowTypeCorrect == WindowSpec => []WindowTypeOK
<1> DEFINE Rest == /\ processClaimCycleUsed \subseteq Cycles
                   /\ raiseRequestedAt \in 0..MaxTime
                   /\ pendingProcessClaimLimitActivation \in 0..(MaxTime + Window)
<1>1. WindowInit => Rest
  BY WindowAssumption, TimeAssumption DEF WindowInit
<1>2. RingInv /\ Rest /\ [WindowNext]_windowVars => Rest'
  <2> SUFFICES ASSUME RingInv, Rest, [WindowNext]_windowVars PROVE Rest'
    OBVIOUS
  <2> USE WindowAssumption, TimeAssumption
  <2>1. now \in 0..MaxTime
    BY DEF RingInv, RingTypes
  <2>2. ASSUME NEW c \in Cycles, NEW a \in Amounts, ClaimInWindow(c, a) PROVE Rest'
    BY <2>2 DEF ClaimInWindow, ActivatedTo
  <2>3. ASSUME NEW l \in NewLimits, SetLimit(l) PROVE Rest'
    BY <2>1, <2>3 DEF SetLimit
  <2>4. CASE WindowTick \/ UNCHANGED windowVars
    BY <2>4 DEF WindowTick, windowVars, limitVars
  <2> QED BY <2>2, <2>3, <2>4 DEF WindowNext
<1>3. RingInv /\ Rest => WindowTypeOK
  <2> SUFFICES ASSUME RingInv, Rest PROVE WindowTypeOK
    OBVIOUS
  <2>1. Oldest..Len(claims) \in SUBSET (1..Len(claims)) /\ claims \in Seq(Claim)
    BY WindowAssumption DEF RingInv, ClaimsInOrder, RingIsSuffix, RingTypes, Oldest
  <2>2. activeProcessClaimUsage \in Nat
    BY <2>1, ClaimSums, Zenon DEF RingInv, UsageIsRing
  <2> QED BY <2>2, Zenon DEF RingInv, RingTypes, LInv, LimitsOK, WindowTypeOK
<1> QED BY RingInvariant, <1>1, <1>2, <1>3, PTL DEF WindowSpec

-----------------------------------------------------------------------------
(***************************************************************************)
(* The composed contract.  Every call of it is, seen through the state of  *)
(* one part, a call of that part or a step that leaves it alone, so what   *)
(* is proved of the parts holds of the contract.                           *)
(***************************************************************************)

LEMMA StepIsRolesStep == [Next]_vars => [RolesNext]_roleVars
<1> SUFFICES ASSUME [Next]_vars PROVE [RolesNext]_roleVars
  OBVIOUS
<1>1. CASE UNCHANGED <<roles, now>>
  BY <1>1, Zenon DEF roles, roleVars, handover, operationsVars, pauseVars
<1>2. ASSUME NEW c \in Addresses, RoleCall(c) PROVE RolesNext
  BY <1>2, Zenon DEF RoleCall, RoleChange, RolesNext
<1>3. CASE Tick
  BY <1>3, Zenon DEF Tick, RolesNext
<1>4. ASSUME NEW c, NEW k, NEW a, NEW d, ClaimProcess(c, k, a, d) PROVE UNCHANGED <<roles, now>>
  BY <1>4, Zenon DEF ClaimProcess, ClaimInWindow
<1>5. ASSUME NEW c, NEW l, SetProcessClaimLimit(c, l) PROVE UNCHANGED <<roles, now>>
  BY <1>5, Zenon DEF SetProcessClaimLimit, SetLimit
<1>6. CASE UNCHANGED vars
  BY <1>6, Zenon DEF vars, roles, roleVars, handover, operationsVars, pauseVars
<1>7. CASE Next
  BY <1>1, <1>2, <1>3, <1>4, <1>5, <1>7, Zenon DEF Next, Swap, ClaimProgrammable, ClaimTreasury, FinishPayment, Receive
<1> QED BY <1>6, <1>7, Zenon

LEMMA StepIsWindowStep == [Next]_vars => [WindowNext]_windowVars
<1> SUFFICES ASSUME [Next]_vars PROVE [WindowNext]_windowVars
  OBVIOUS
<1>1. CASE UNCHANGED <<window, now>>
  BY <1>1, Zenon DEF window, windowVars, limitVars, ringVars
<1>2. ASSUME NEW c \in Addresses, RoleCall(c) PROVE UNCHANGED <<window, now>>
  BY <1>2, Zenon DEF RoleCall, RoleChange, ProposeTreasury, ProposeOperations, ScheduleOperationsRotation,
     AcceptTreasury, AcceptOperations, PauseProcessClaims, UnpauseProcessClaims,
     ExecuteOperationsRotation
<1>3. CASE Tick
  BY <1>3, Zenon DEF Tick, RolesTick, WindowNext, WindowTick, window, limitVars, ringVars
<1>4. ASSUME NEW c, NEW k \in Cycles, NEW a \in Amounts, NEW d, ClaimProcess(c, k, a, d)
      PROVE  WindowNext
  BY <1>4, Zenon DEF ClaimProcess, WindowNext
<1>5. ASSUME NEW c, NEW l \in NewLimits, SetProcessClaimLimit(c, l) PROVE WindowNext
  BY <1>5, Zenon DEF SetProcessClaimLimit, WindowNext
<1>6. CASE UNCHANGED vars
  BY <1>6, Zenon DEF vars, window, windowVars, limitVars, ringVars
<1>7. CASE Next
  BY <1>1, <1>2, <1>3, <1>4, <1>5, <1>7, Zenon DEF Next, Swap, ClaimProgrammable, ClaimTreasury, FinishPayment, Receive
<1> QED BY <1>6, <1>7, Zenon

\* The Treasury of the moment is an account, so the fee of a swap is credited
\* to an entry of the ledger.
LEMMA StepIsFeesStep == RolesInv /\ [Next]_vars => [Fees!Next]_(Fees!feeVars)
<1> SUFFICES ASSUME RolesInv, [Next]_vars PROVE [Fees!Next]_(Fees!feeVars)
  OBVIOUS
<1>1. CASE UNCHANGED fees
  BY <1>1, Zenon DEF fees, Fees!feeVars, Fees!remainders, Fees!liabilities, Fees!claimed
<1>2. ASSUME NEW c \in Addresses, RoleCall(c) PROVE UNCHANGED fees
  BY <1>2, Zenon DEF RoleCall
<1>3. CASE Tick
  BY <1>1, <1>3, Zenon DEF Tick
<1>4. ASSUME NEW c, NEW k, NEW a \in Amounts, NEW d, ClaimProcess(c, k, a, d) PROVE Fees!Next
  <2>1. a \in ClaimAmounts \cup Amounts
    OBVIOUS
  <2> QED BY <1>4, <2>1, Zenon DEF ClaimProcess, Fees!Next
<1>5. ASSUME NEW c, NEW l, SetProcessClaimLimit(c, l) PROVE UNCHANGED fees
  BY <1>5, Zenon DEF SetProcessClaimLimit
<1>6. CASE UNCHANGED vars
  BY <1>1, <1>6, Zenon DEF vars
<1>7. CASE Swap
  BY <1>7, Zenon DEF Swap, Fees!Next, CurrentTreasuryBeneficiary, RolesInv, AccountsOK
<1>8. ASSUME NEW a \in ClaimAmounts \cup {programmableLiability}, ClaimProgrammable(a) PROVE Fees!Next
  <2>1. a \in (ClaimAmounts \cup Amounts) \cup {programmableLiability}
    OBVIOUS
  <2> QED BY <1>8, <2>1, Zenon DEF ClaimProgrammable, Fees!Next
<1>9. ASSUME NEW c \in Addresses, NEW a \in ClaimAmounts \cup {treasuryLiabilities[c]}, ClaimTreasury(c, a)
      PROVE  Fees!Next
  <2>1. a \in (ClaimAmounts \cup Amounts) \cup {treasuryLiabilities[c]}
    OBVIOUS
  <2> QED BY <1>9, <2>1, Zenon DEF ClaimTreasury, Fees!Next
<1>10. CASE FinishPayment
  BY <1>10, Zenon DEF FinishPayment, Fees!Next
<1>11. ASSUME NEW d \in Donations, Receive(d) PROVE Fees!Next
  BY <1>11, Zenon DEF Receive, Fees!Next
<1>12. CASE Next
  BY <1>1, <1>2, <1>3, <1>4, <1>5, <1>7, <1>8, <1>9, <1>10, <1>11, <1>12, Zenon DEF Next
<1> QED BY <1>6, <1>12, Zenon

\* The contract's roles behave as RoleControl specifies, whatever swaps,
\* payments and limit changes do in between, nested calls included.
THEOREM RolesImplemented == Spec => ImplementsRoles
<1>1. Init => RolesInit
  BY DEF Init
<1> QED BY <1>1, StepIsRolesStep, PTL DEF Spec, ImplementsRoles, RolesSpec

\* The contract's claim window behaves as ClaimWindow specifies.
THEOREM ClaimWindowImplemented == Spec => ImplementsClaimWindow
<1>1. Init => WindowInit
  BY DEF Init
<1> QED BY <1>1, StepIsWindowStep, PTL DEF Spec, ImplementsClaimWindow, WindowSpec

\* The contract's ledger behaves as FeeAccounting specifies.
THEOREM FeesImplemented == Spec => ImplementsFees
<1>1. Init => Fees!Init
  BY DEF Init
<1>2. Spec => []RolesInv
  BY RolesImplemented, RolesInvariant, PTL DEF ImplementsRoles
<1> QED BY <1>1, <1>2, StepIsFeesStep, PTL DEF Spec, ImplementsFees, Fees!Spec

\* What is proved of the parts, for the composed contract.
LEMMA PartsInvariant == Spec => [](RolesInv /\ RingInv /\ TrailingWindowCapped)
BY RolesImplemented, ClaimWindowImplemented, RolesInvariant, RingInvariant, PTL
   DEF ImplementsRoles, ImplementsClaimWindow

\* Only claimProcess pays from the Process stream: not while a rotation is
\* pending or the claims are paused, and never from inside another payment.
THEOREM RotationStopsProcessPayments == Spec => NoProcessPaymentDuringRotation
<1> DEFINE Allowed == processClaimed' # processClaimed =>
                          ~RotationPending /\ ~processClaimsPaused /\ ~moneyPathEntered
<1>1. RolesInv /\ [Next]_vars => [Allowed]_vars
  <2> SUFFICES ASSUME RolesInv, Next, processClaimed' # processClaimed
               PROVE  ~RotationPending /\ ~processClaimsPaused /\ ~moneyPathEntered
    BY DEF Allowed
  <2>1. PICK c \in Addresses, k \in Cycles, a \in Amounts, d \in Addresses : ClaimProcess(c, k, a, d)
    <3>1. ASSUME \/ Swap \/ (\E a : ClaimProgrammable(a)) \/ \E c, a : ClaimTreasury(c, a)
                 \/ FinishPayment \/ \E d : Receive(d)
          PROVE  UNCHANGED processClaimed
      BY <3>1, Zenon DEF Swap, ClaimProgrammable, ClaimTreasury, FinishPayment, Receive,
         Fees!SwapExactInput, Fees!SwapExactOutput, Fees!AccrueAuthenticatedSwap, Fees!claimed,
         Fees!ClaimProgrammableLiability, Fees!ClaimTreasuryLiability, Fees!FinishPayment, Fees!Receive
    <3>2. ASSUME (\E c, l : SetProcessClaimLimit(c, l)) \/ (\E c \in Addresses : RoleCall(c)) \/ Tick
          PROVE  UNCHANGED processClaimed
      BY <3>2, Zenon DEF SetProcessClaimLimit, RoleCall, Tick, fees
    <3> QED BY <3>1, <3>2, Zenon DEF Next
  <2>2. ~processClaimsPaused /\ ~moneyPathEntered
    BY <2>1, Zenon DEF ClaimProcess, ProcessClaimAuthorized, Fees!ClaimProcessLiability,
       Fees!BeginPayment, Fees!MoneyPathFree
  <2>3. ~RotationPending
    BY <2>2, Zenon DEF RolesInv, PauseCoversDelay
  <2> QED BY <2>2, <2>3
<1> QED BY <1>1, PartsInvariant, PTL DEF Spec, NoProcessPaymentDuringRotation

\* No handover strands a fee: whoever is owed Treasury fees is accepted by the
\* claim path.
THEOREM FeesHaveBeneficiaries == Spec => []TreasuryLiabilityClaimable
<1> DEFINE Ledger == treasuryLiabilities \in [Addresses -> {treasuryLiabilities[x] : x \in Addresses}]
           Kept == /\ treasury \in treasuryBeneficiaries
                   /\ Ledger
                   /\ TreasuryLiabilityClaimable
<1>1. Init => Kept
  <2> SUFFICES ASSUME Init PROVE Kept
    OBVIOUS
  <2>1. treasuryLiabilities = [x \in Addresses |-> 0] /\ treasuryBeneficiaries = {treasury}
    BY DEF Init, RolesInit, Fees!Init
  <2> QED BY <2>1 DEF TreasuryLiabilityClaimable
<1>2. RolesInv /\ Kept /\ [Next]_vars => Kept'
  <2> SUFFICES ASSUME RolesInv, Kept, [Next]_vars PROVE Kept'
    OBVIOUS
  <2>1. ASSUME treasuryLiabilities' = treasuryLiabilities, treasury' \in treasuryBeneficiaries',
               treasuryBeneficiaries \subseteq treasuryBeneficiaries'
        PROVE  Kept'
    BY <2>1, Zenon DEF TreasuryLiabilityClaimable
  <2>2. ASSUME NEW b \in treasuryBeneficiaries, NEW v,
               treasuryLiabilities' = [treasuryLiabilities EXCEPT ![b] = v],
               UNCHANGED <<treasury, treasuryBeneficiaries>>
        PROVE  Kept'
    <3>1. treasuryLiabilities' \in [Addresses -> {treasuryLiabilities'[x] : x \in Addresses}]
      BY <2>2
    <3>2. \A x \in Addresses \ treasuryBeneficiaries : treasuryLiabilities'[x] = treasuryLiabilities[x]
      BY <2>2
    <3>3. TreasuryLiabilityClaimable'
      BY <2>2, <3>2 DEF TreasuryLiabilityClaimable
    <3> QED BY <2>2, <3>1, <3>3
  <2>3. CASE Swap
    BY <2>2, <2>3, Zenon DEF Swap, roles, CurrentTreasuryBeneficiary,
       Fees!SwapExactInput, Fees!SwapExactOutput, Fees!AccrueAuthenticatedSwap
  <2>4. ASSUME NEW c \in Addresses, NEW a, ClaimTreasury(c, a) PROVE Kept'
    BY <2>2, <2>4, Zenon DEF ClaimTreasury, roles, Fees!ClaimTreasuryLiability
  <2>5. ASSUME \/ (\E a : ClaimProgrammable(a)) \/ \E c, k, a, d : ClaimProcess(c, k, a, d)
               \/ FinishPayment \/ \E d : Receive(d)
        PROVE  Kept'
    <3>1. UNCHANGED <<treasuryLiabilities, treasury, treasuryBeneficiaries>>
      BY <2>5, Zenon DEF ClaimProgrammable, ClaimProcess, FinishPayment, Receive, roles,
         Fees!ClaimProgrammableLiability, Fees!ClaimProcessLiability, Fees!FinishPayment,
         Fees!Receive, Fees!liabilities
    <3> QED BY <2>1, <3>1, Zenon
  <2>6. ASSUME \/ \E c, l : SetProcessClaimLimit(c, l) \/ Tick \/ UNCHANGED vars
        PROVE  Kept'
    BY <2>1, <2>6, Zenon DEF SetProcessClaimLimit, Tick, RolesTick, vars, roles, fees, handover
  <2>7. ASSUME NEW c \in Addresses, RoleCall(c) PROVE Kept'
    <3>1. treasuryLiabilities' = treasuryLiabilities
      BY <2>7, Zenon DEF RoleCall, fees
    <3>2. /\ treasury' \in treasuryBeneficiaries'
          /\ treasuryBeneficiaries \subseteq treasuryBeneficiaries'
      BY <2>7, Zenon DEF RoleCall, RoleChange, ProposeTreasury, ProposeOperations, ScheduleOperationsRotation,
         AcceptTreasury, AcceptOperations, PauseProcessClaims, UnpauseProcessClaims,
         ExecuteOperationsRotation, handover
    <3> QED BY <2>1, <3>1, <3>2
  <2> HIDE DEF Kept
  <2> QED BY <2>3, <2>4, <2>5, <2>6, <2>7, Zenon DEF Next
<1>3. Kept => TreasuryLiabilityClaimable
  OBVIOUS
<1> QED BY <1>1, <1>2, <1>3, PartsInvariant, PTL DEF Spec
-----------------------------------------------------------------------------
(***************************************************************************)
(* What leaves the Process stream.  For every set of seconds, what the     *)
(* ledger lost in them is what was claimed in them (OutflowIsClaimed); the *)
(* ring's cap on claims is then a cap on the money.                        *)
(***************************************************************************)

ProcessNumbers == processLiability \in Nat /\ processRemainder \in 0..9999

ClaimedIn(seconds) == {j \in 1..Len(claims) : claims[j].claimedAt \in seconds}

OutflowIsClaimed ==
    \A W \in SUBSET (0..MaxTime) : SumFunctionOnSet(processPaid, W) = SumOfClaims(ClaimedIn(W))

OutflowInv == ProcessNumbers /\ processPaid \in [0..MaxTime -> Nat] /\ OutflowIsClaimed

\* A swap only adds to the Process liability.
LEMMA ProcessAccrues ==
    ASSUME NEW executed \in Nat, processRemainder \in 0..9999
    PROVE  /\ Fees!ProcessFee(executed) \in Nat
           /\ Fees!RemainderAfter(executed, Fees!PROCESS_FEE_BPS, processRemainder) \in 0..9999
<1> DEFINE low == (executed % 10000) * 250 + processRemainder
<1>1. executed \div 10000 \in Nat /\ low \in Nat
  BY SMT
<1>2. low \div 10000 \in Nat /\ low % 10000 \in 0..9999
  <2> HIDE DEF low
  <2> QED BY <1>1, SMT
<1>3. /\ Fees!ProcessFee(executed) = (executed \div 10000) * 250 + low \div 10000
      /\ Fees!RemainderAfter(executed, Fees!PROCESS_FEE_BPS, processRemainder) = low % 10000
  BY DEF Fees!ProcessFee, Fees!Increment, Fees!RemainderAfter, Fees!PROCESS_FEE_BPS, Fees!BPS_DENOMINATOR
<1> HIDE DEF low
<1> QED BY <1>1, <1>2, <1>3

\* An executed amount is a natural: the minimum quote excludes the rest.
LEMMA ExecutedIsNatural ==
    ASSUME Swap
    PROVE  \E executed \in Nat : Fees!AccrueAuthenticatedSwap(executed, CurrentTreasuryBeneficiary)
<1>1. ASSUME NEW q \in SwapAmounts, Fees!SwapExactInput(q, CurrentTreasuryBeneficiary)
      PROVE  \E executed \in Nat : Fees!AccrueAuthenticatedSwap(executed, CurrentTreasuryBeneficiary)
  <2>1. q \in Nat
    BY HookAssumption
  <2> QED BY <1>1, <2>1, Zenon DEF Fees!SwapExactInput
<1>2. ASSUME NEW n \in NetAmounts, Fees!SwapExactOutput(n, CurrentTreasuryBeneficiary)
      PROVE  \E executed \in Nat : Fees!AccrueAuthenticatedSwap(executed, CurrentTreasuryBeneficiary)
  <2>1. PICK g \in Fees!GrossForExactOutput(n) :
            Fees!AccrueAuthenticatedSwap(g, CurrentTreasuryBeneficiary)
    BY <1>2, Zenon DEF Fees!SwapExactOutput
  <2> DEFINE first == Fees!FirstCandidate(n)
             last == Fees!FirstCandidate(n) + 2 * Fees!EXACT_OUTPUT_SCAN_RADIUS
  <2>2. g \in first..last
    BY <2>1, Zenon DEF Fees!GrossForExactOutput, Fees!Least, Fees!ScannedRoots
  <2>3. g \in Int
    <3> HIDE DEF first, last
    <3> QED BY <2>2
  <2>4. g >= 1000
    BY <2>1, Zenon DEF Fees!AccrueAuthenticatedSwap, Fees!MINIMUM_EXECUTED
  <2>5. g \in Nat
    BY <2>3, <2>4
  <2> QED BY <2>1, <2>5
<1> QED BY <1>1, <1>2, Zenon DEF Swap

\* Every other call of the contract leaves the claims alone and takes nothing
\* from the Process liability.
LEMMA OnlyClaimsPay ==
    ASSUME ProcessNumbers, [Next]_vars,
           ~\E c \in Addresses, k \in Cycles, a \in Amounts, d \in Addresses : ClaimProcess(c, k, a, d)
    PROVE  /\ ProcessNumbers' /\ processLiability' >= processLiability
           /\ UNCHANGED <<claims, processPaid>>
<1>1. CASE Swap
  <2>1. PICK executed \in Nat : Fees!AccrueAuthenticatedSwap(executed, CurrentTreasuryBeneficiary)
    BY <1>1, ExecutedIsNatural
  <2>2. /\ processLiability' = processLiability + Fees!ProcessFee(executed)
        /\ processRemainder' = Fees!RemainderAfter(executed, Fees!PROCESS_FEE_BPS, processRemainder)
    BY <2>1, Zenon DEF Fees!AccrueAuthenticatedSwap
  <2> DEFINE fee == Fees!ProcessFee(executed)
             rest == Fees!RemainderAfter(executed, Fees!PROCESS_FEE_BPS, processRemainder)
  <2>6. fee \in Nat /\ rest \in 0..9999
    <3>1. processRemainder \in 0..9999
      BY DEF ProcessNumbers
    <3> QED BY <2>1, <3>1, ProcessAccrues
  <2>3. ProcessNumbers' /\ processLiability' >= processLiability
    <3> HIDE DEF fee, rest
    <3>1. processLiability' = processLiability + fee /\ processRemainder' = rest
      BY <2>2 DEF fee, rest
    <3> QED BY <2>6, <3>1 DEF ProcessNumbers
  <2>4. ~(processLiability' < processLiability)
    BY <2>3 DEF ProcessNumbers
  <2>5. UNCHANGED <<claims, processPaid>>
    BY <1>1, <2>4, Zenon DEF Swap, window, RecordOutflow
  <2> QED BY <2>3, <2>5
<1>2. CASE UNCHANGED <<processLiability, processRemainder, claims>> /\ (RecordOutflow \/ UNCHANGED processPaid)
  <2>1. ~(processLiability' < processLiability) /\ processLiability' >= processLiability
    BY <1>2 DEF ProcessNumbers
  <2>2. UNCHANGED processPaid
    BY <1>2, <2>1, Zenon DEF RecordOutflow
  <2> QED BY <1>2, <2>1, <2>2 DEF ProcessNumbers
<1>3. ASSUME \/ (\E a : ClaimProgrammable(a)) \/ \E c, a : ClaimTreasury(c, a)
             \/ FinishPayment \/ \E d : Receive(d)
      PROVE  UNCHANGED <<processLiability, processRemainder, claims>> /\ RecordOutflow
  BY <1>3, Zenon DEF ClaimProgrammable, ClaimTreasury, FinishPayment, Receive, window, Fees!remainders,
     Fees!liabilities, Fees!ClaimProgrammableLiability, Fees!ClaimTreasuryLiability, Fees!BeginPayment,
     Fees!FinishPayment, Fees!Receive
<1>4. ASSUME (\E c, l : SetProcessClaimLimit(c, l)) \/ (\E c \in Addresses : RoleCall(c)) \/ Tick
      PROVE  UNCHANGED <<processLiability, processRemainder, claims>> /\ RecordOutflow
  BY <1>4, Zenon DEF SetProcessClaimLimit, SetLimit, RoleCall, Tick, fees, window
<1>5. ASSUME UNCHANGED vars
      PROVE  UNCHANGED <<processLiability, processRemainder, claims>> /\ UNCHANGED processPaid
  BY <1>5, Zenon DEF vars, window, fees
<1> QED BY <1>1, <1>2, <1>3, <1>4, <1>5, Zenon DEF Next

\* What a Process claim does to the ledger and to the history of claims.
Charged(a, r) ==
    /\ r \in Claim /\ r.amountWei = a /\ r.claimedAt = now /\ r.cap = EffectiveProcessClaimLimit
    /\ a \in Nat \ {0} /\ a <= processLiability
    /\ processLiability' = processLiability - a /\ processRemainder' = processRemainder
    /\ processPaid' = [processPaid EXCEPT ![now] = @ + a]
    /\ claims' = Append(claims, r)
    /\ now' = now

LEMMA ClaimCharges ==
    ASSUME RingInv, OutflowInv, NEW c, NEW k \in Cycles, NEW a \in Amounts, NEW d, ClaimProcess(c, k, a, d)
    PROVE  \E r : Charged(a, r)
<1> DEFINE cap == EffectiveProcessClaimLimit
           r == [cycleId |-> k, amountWei |-> a, claimedAt |-> now, cap |-> cap]
<1>1. /\ processLiability' = processLiability - a /\ processRemainder' = processRemainder
      /\ a # 0 /\ a <= processLiability
      /\ claims' = Append(claims, r) /\ now' = now /\ RecordOutflow
  BY Zenon DEF ClaimProcess, ClaimInWindow, Fees!ClaimProcessLiability, Fees!BeginPayment, Fees!remainders
<1>2. cap \in Nat /\ now \in 0..MaxTime /\ a \in Nat
  BY EffectiveIsLimit, WindowAssumption DEF RingInv, RingTypes
<1>3. processLiability \in Nat /\ processPaid[now] \in Nat
  BY <1>2 DEF OutflowInv, ProcessNumbers
<1>4. processLiability' < processLiability /\ processPaid[now] + processLiability - processLiability' = processPaid[now] + a
  BY <1>1, <1>2, <1>3
<1>5. processPaid' = [processPaid EXCEPT ![now] = processPaid[now] + a]
  BY <1>1, <1>4, Zenon DEF RecordOutflow
<1> HIDE DEF cap
<1>6. r \in Claim /\ r.amountWei = a /\ r.claimedAt = now /\ r.cap = cap
  BY <1>2 DEF Claim
<1> HIDE DEF r
<1>7. Charged(a, r)
  BY <1>1, <1>2, <1>5, <1>6 DEF Charged, cap
<1> QED BY <1>7

LEMMA SecondsAreFinite == ASSUME NEW W \in SUBSET (0..MaxTime) PROVE IsFiniteSet(W)
<1>1. 0 \in Int /\ MaxTime \in Int
  BY TimeAssumption
<1> QED BY <1>1, FinitePart

LEMMA PaidUpdate ==
    ASSUME NEW W, IsFiniteSet(W), now \in W, \A s \in W : processPaid[s] \in Int,
           processPaid'[now] \in Int, \A s \in W \ {now} : processPaid'[s] = processPaid[s]
    PROVE  SumFunctionOnSet(processPaid', W)
               = SumFunctionOnSet(processPaid, W) - processPaid[now] + processPaid'[now]
BY SumUpdate

\* A claim adds its amount on both sides, or on neither.
LEMMA ChargedOutflow ==
    ASSUME RingInv, OutflowInv, NEW a, NEW r, Charged(a, r), NEW W \in SUBSET (0..MaxTime)
    PROVE  SumFunctionOnSet(processPaid', W) = SumFunctionOnSet(AmountsOf(claims'), ClaimedIn(W)')
<1> DEFINE S == ClaimedIn(W)
<1>1. /\ claims \in Seq(Claim) /\ Len(claims) \in Nat /\ now \in 0..MaxTime
      /\ claims' \in Seq(Claim) /\ Len(claims') = Len(claims) + 1 /\ claims'[Len(claims) + 1] = r
      /\ \A j \in 1..Len(claims) : claims'[j] = claims[j]
      /\ r.claimedAt = now /\ r.amountWei = a /\ a \in Nat /\ r \in Claim /\ claims' = Append(claims, r)
  BY DEF RingInv, RingTypes, ClaimsInOrder, Charged
<1>2. /\ processPaid \in [0..MaxTime -> Nat] /\ processPaid' \in [0..MaxTime -> Nat]
      /\ processPaid'[now] = processPaid[now] + a
      /\ \A s \in (0..MaxTime) \ {now} : processPaid'[s] = processPaid[s]
  BY <1>1 DEF OutflowInv, Charged
<1>3. IsFiniteSet(W)
  BY SecondsAreFinite
<1>4. \A i \in S : i \in 1..Len(claims)
  BY DEF ClaimedIn
<1>5. SumFunctionOnSet(processPaid, W) = SumFunctionOnSet(AmountsOf(claims), S)
  BY Zenon DEF OutflowInv, OutflowIsClaimed, SumOfClaims, AmountsOf
<1>6. CASE now \in W
  <2>1. ClaimedIn(W)' = S \cup {Len(claims) + 1}
    BY <1>1, <1>6 DEF ClaimedIn
  <2> HIDE DEF S
  <2>2. SumFunctionOnSet(AmountsOf(claims'), ClaimedIn(W)') = a + SumFunctionOnSet(AmountsOf(claims), S)
    BY <1>1, <1>4, <2>1, AppendedSum
  <2>3. /\ \A s \in W : processPaid[s] \in Int
        /\ \A s \in W : processPaid[s] \in Nat
        /\ processPaid'[now] \in Int /\ processPaid[now] \in Int
        /\ \A s \in W \ {now} : processPaid'[s] = processPaid[s]
    BY <1>1, <1>2
  <2>4. SumFunctionOnSet(processPaid', W)
            = SumFunctionOnSet(processPaid, W) - processPaid[now] + processPaid'[now]
    BY <1>3, <1>6, <2>3, PaidUpdate
  <2>5. SumFunctionOnSet(processPaid, W) \in Int
    BY <1>3, <2>3, SumTypes
  <2> QED BY <1>1, <1>2, <1>5, <2>2, <2>3, <2>4, <2>5
<1>7. CASE now \notin W
  <2>1. ClaimedIn(W)' = S
    BY <1>1, <1>7 DEF ClaimedIn
  <2> HIDE DEF S
  <2>2. SumFunctionOnSet(AmountsOf(claims'), ClaimedIn(W)') = SumFunctionOnSet(AmountsOf(claims), S)
    BY <1>1, <1>4, <2>1, EarlierSum
  <2>3. \A s \in W : processPaid[s] \in Int /\ processPaid[s] = processPaid'[s]
    BY <1>2, <1>7
  <2>4. SumFunctionOnSet(processPaid, W) = SumFunctionOnSet(processPaid', W)
    BY <1>3, <2>3, SumAgree
  <2> QED BY <1>5, <2>2, <2>4
<1> QED BY <1>6, <1>7

LEMMA InitOutflow == Init => OutflowInv
<1> SUFFICES ASSUME Init PROVE OutflowInv
  OBVIOUS
<1>1. /\ processLiability = 0 /\ processRemainder = 0 /\ claims = <<>>
      /\ processPaid = [s \in 0..MaxTime |-> 0]
  BY Zenon DEF Init, WindowInit, Fees!Init
<1>2. ProcessNumbers /\ processPaid \in [0..MaxTime -> Nat]
  BY <1>1 DEF ProcessNumbers
<1>3. ASSUME NEW W \in SUBSET (0..MaxTime)
      PROVE  SumFunctionOnSet(processPaid, W) = SumOfClaims(ClaimedIn(W))
  <2>1. ClaimedIn(W) = {}
    BY <1>1 DEF ClaimedIn
  <2>2. SumOfClaims({}) = 0
    BY SumEmpty DEF SumOfClaims
  <2> DEFINE F == {T \in SUBSET W : SumFunctionOnSet(processPaid, T) = 0}
  <2>3. {} \in F
    BY SumEmpty
  <2>4. IsFiniteSet(W)
    BY SecondsAreFinite
  <2>5. ASSUME NEW T \in F, NEW s \in W \ T PROVE T \cup {s} \in F
    <3> DEFINE f == processPaid
    <3>1. IsFiniteSet(T)
      BY <2>4, FS_Subset
    <3>2. s \notin T /\ f[s] \in Int /\ f[s] = 0 /\ \A y \in T : f[y] \in Int
      BY <1>1
    <3>3. SumFunctionOnSet(f, T) = 0
      OBVIOUS
    <3> HIDE DEF f
    <3>4. SumFunctionOnSet(f, T \cup {s}) = f[s] + SumFunctionOnSet(f, T)
      BY <3>1, <3>2, SumAdd
    <3>5. SumFunctionOnSet(f, T \cup {s}) = 0
      BY <3>2, <3>3, <3>4
    <3> QED BY <3>5 DEF f
  <2>6. W \in F
    <3>1. F \in SUBSET SUBSET W OBVIOUS
    <3> HIDE DEF F
    <3> QED BY <2>3, <2>4, <2>5, <3>1, SetInduction
  <2> QED BY <2>1, <2>2, <2>6
<1> QED BY <1>2, <1>3 DEF OutflowInv, OutflowIsClaimed

LEMMA StepOutflow == RingInv /\ OutflowInv /\ [Next]_vars => OutflowInv'
<1> SUFFICES ASSUME RingInv, OutflowInv, [Next]_vars PROVE OutflowInv'
  OBVIOUS
<1>1. CASE ~\E c \in Addresses, k \in Cycles, a \in Amounts, d \in Addresses : ClaimProcess(c, k, a, d)
  <2>1. ProcessNumbers' /\ UNCHANGED <<claims, processPaid>>
    BY <1>1, OnlyClaimsPay DEF OutflowInv
  <2> QED BY <2>1, Zenon DEF OutflowInv, OutflowIsClaimed, ClaimedIn, SumOfClaims
<1>2. ASSUME NEW c \in Addresses, NEW k \in Cycles, NEW a \in Amounts, NEW d \in Addresses,
             ClaimProcess(c, k, a, d)
      PROVE  OutflowInv'
  <2>1. PICK r : Charged(a, r)
    BY <1>2, ClaimCharges
  <2>2. ProcessNumbers'
    BY <2>1 DEF OutflowInv, ProcessNumbers, Charged
  <2>3. processPaid' \in [0..MaxTime -> Nat]
    <3>1. /\ now \in 0..MaxTime /\ a \in Nat /\ processPaid \in [0..MaxTime -> Nat]
          /\ processPaid' = [processPaid EXCEPT ![now] = @ + a]
      BY <2>1 DEF OutflowInv, Charged, RingInv, RingTypes
    <3> QED BY <3>1
  <2>4. ASSUME NEW W \in SUBSET (0..MaxTime)
        PROVE  SumFunctionOnSet(processPaid', W) = SumFunctionOnSet(AmountsOf(claims'), ClaimedIn(W)')
    BY <2>1, ChargedOutflow
  <2>5. OutflowIsClaimed'
    BY <2>4, Zenon DEF OutflowIsClaimed, SumOfClaims, AmountsOf, ClaimedIn
  <2> QED BY <2>2, <2>3, <2>5 DEF OutflowInv
<1> QED BY <1>1, <1>2

\* Over every trailing window, the limit in force bounds what the ledger pays
\* from the Process stream: no handover, rotation, pause, change of the limit
\* or call nested in a payment gives the window away.
THEOREM OutflowIsCapped == Spec => ProcessOutflowCapped
<1> DEFINE Recent == {s \in 0..now : now - s < Window}
           Capped == processLiability' < processLiability =>
                         SumFunctionOnSet(processPaid', Recent) <= EffectiveProcessClaimLimit
<1>1. RingInv /\ OutflowInv /\ (RingInv /\ TrailingWindowCapped /\ OutflowInv)' /\ [Next]_vars => [Capped]_vars
  <2> SUFFICES ASSUME RingInv, OutflowInv, (RingInv /\ TrailingWindowCapped /\ OutflowInv)', Next,
                      processLiability' < processLiability
               PROVE  SumFunctionOnSet(processPaid', Recent) <= EffectiveProcessClaimLimit
    OBVIOUS
  <2>1. PICK c \in Addresses, k \in Cycles, a \in Amounts, d \in Addresses : ClaimProcess(c, k, a, d)
    <3>1. ASSUME processLiability' >= processLiability PROVE FALSE
      BY <3>1 DEF OutflowInv, ProcessNumbers
    <3> QED BY <3>1, OnlyClaimsPay DEF OutflowInv
  <2>2. PICK r : Charged(a, r)
    BY <2>1, ClaimCharges
  <2> DEFINE last == Len(claims')
             live == {j \in 1..last : claims'[last].claimedAt - claims'[j].claimedAt < Window}
  <2>3. /\ claims' \in Seq(Claim) /\ last \in 1..Len(claims') /\ now \in 0..MaxTime /\ now' = now
        /\ claims'[last] = r /\ r.claimedAt = now /\ r.cap = EffectiveProcessClaimLimit
        /\ \A j \in 1..last : claims'[j].claimedAt <= now'
    BY <2>2 DEF RingInv, RingTypes, ClaimsInOrder, Charged
  <2>4. SumFunctionOnSet(AmountsOf(claims'), live) <= claims'[last].cap
    BY <2>3, Zenon DEF TrailingWindowCapped, SumOfClaims, AmountsOf
  <2>5. PICK W \in SUBSET (0..MaxTime) : W = Recent
    <3>1. Recent \in SUBSET (0..MaxTime)
      BY <2>3, TimeAssumption
    <3> HIDE DEF Recent
    <3> QED BY <3>1
  <2>6. ClaimedIn(W)' = live
    <3>1. \A j \in 1..last : claims'[j].claimedAt \in 0..now
      <4> SUFFICES ASSUME NEW j \in 1..last PROVE claims'[j].claimedAt \in 0..now
        OBVIOUS
      <4>1. claims'[j] \in Claim
        BY <2>3
      <4> QED BY <2>3, <4>1 DEF Claim
    <3> QED BY <2>3, <2>5, <3>1 DEF ClaimedIn
  <2>7. SumFunctionOnSet(processPaid', W) = SumFunctionOnSet(AmountsOf(claims'), ClaimedIn(W)')
    BY <2>2, <2>5, ChargedOutflow
  <2>8. SumFunctionOnSet(processPaid', W) <= EffectiveProcessClaimLimit
    BY <2>3, <2>4, <2>6, <2>7
  <2> QED BY <2>5, <2>8
<1>2. Spec => []OutflowInv
  BY InitOutflow, StepOutflow, PartsInvariant, PTL DEF Spec
<1> QED BY <1>1, <1>2, PartsInvariant, PTL DEF Spec, ProcessOutflowCapped
=============================================================================
