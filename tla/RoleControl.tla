---------------------------- MODULE RoleControl ----------------------------
(***************************************************************************)
(* Who controls the hook's money: the Treasury and Operations roles of     *)
(* access/MoneyRoles.sol with their two-step handovers, and the pause and  *)
(* the delayed emergency rotation of Operations in HookemonHook.sol.       *)
(*                                                                         *)
(* Every action has its caller (msg.sender) as first parameter.  A call    *)
(* that reverts is a stuttering step.                                      *)
(***************************************************************************)
EXTENDS BlockTime

CONSTANTS
    Addresses,     \* accounts that may call the hook
    ZeroAddress,   \* address(0): "no account"
    HookAddress,   \* address(this)
    RotationDelay  \* operationsRotationDelay

ASSUME RoleAssumption ==
    /\ ZeroAddress \notin Addresses /\ HookAddress \notin Addresses
    /\ ZeroAddress # HookAddress
    /\ RotationDelay \in Nat \ {0}

VARIABLES
    treasury,
    proposedTreasury,
    operations,
    proposedOperations,
    treasuryBeneficiaries,      \* every account that was ever Treasury
    pendingOperationsRotation,
    processClaimsPaused,
    (* History *)
    treasuryProposer,           \* who proposed proposedTreasury
    operationsProposer,         \* who proposed proposedOperations
    pausedSince                 \* when the current pause began

handover == <<treasury, proposedTreasury, treasuryProposer, treasuryBeneficiaries>>
operationsVars == <<operations, proposedOperations, operationsProposer>>
pauseVars == <<processClaimsPaused, pausedSince>>
roleVars == <<handover, operationsVars, pauseVars, pendingOperationsRotation, now>>

NoRotation == [expectedOperations |-> ZeroAddress, nextOperations |-> ZeroAddress, executableAt |-> 0]

RotationPending == pendingOperationsRotation.nextOperations # ZeroAddress

-----------------------------------------------------------------------------

\* The constructor accepts any nonzero accounts, the same one twice included.
RolesInit ==
    /\ treasury \in Addresses /\ operations \in Addresses
    /\ treasuryBeneficiaries = {treasury}
    /\ proposedTreasury = ZeroAddress /\ treasuryProposer = ZeroAddress
    /\ proposedOperations = ZeroAddress /\ operationsProposer = ZeroAddress
    /\ pendingOperationsRotation = NoRotation
    /\ processClaimsPaused = FALSE /\ pausedSince = 0
    /\ now = 0

ValidRoleSuccessor(successor, currentAccount) ==
    successor \notin {ZeroAddress, currentAccount, HookAddress}

ProposeTreasury(caller, successor) ==
    /\ caller = treasury
    /\ ValidRoleSuccessor(successor, treasury)
    /\ proposedTreasury' = successor
    /\ treasuryProposer' = caller
    /\ UNCHANGED <<treasury, treasuryBeneficiaries, operationsVars, pauseVars,
                   pendingOperationsRotation, now>>

\* Fault: the accepted proposal stays in storage.
AcceptTreasuryKeepingProposal(caller) ==
    /\ proposedTreasury # ZeroAddress /\ caller = proposedTreasury
    /\ treasury' = caller
    /\ treasuryBeneficiaries' = treasuryBeneficiaries \cup {caller}
    /\ UNCHANGED <<proposedTreasury, treasuryProposer, operationsVars, pauseVars,
                   pendingOperationsRotation, now>>

AcceptTreasury(caller) ==
    /\ proposedTreasury # ZeroAddress /\ caller = proposedTreasury
    /\ treasury' = caller
    /\ treasuryBeneficiaries' = treasuryBeneficiaries \cup {caller}
    /\ proposedTreasury' = ZeroAddress /\ treasuryProposer' = ZeroAddress
    /\ UNCHANGED <<operationsVars, pauseVars, pendingOperationsRotation, now>>

\* Fault: MoneyRoles' empty default instead of the hook's override.
HandoverAlwaysAvailable == TRUE

\* _requireOperationsHandoverAvailable: no handover beside an emergency
\* rotation.
OperationsHandoverAvailable == ~RotationPending

ProposeOperations(caller, successor) ==
    /\ OperationsHandoverAvailable
    /\ caller = operations
    /\ ValidRoleSuccessor(successor, operations)
    /\ proposedOperations' = successor
    /\ operationsProposer' = caller
    /\ UNCHANGED <<handover, operations, pauseVars, pendingOperationsRotation, now>>

AcceptOperations(caller) ==
    /\ OperationsHandoverAvailable
    /\ proposedOperations # ZeroAddress /\ caller = proposedOperations
    /\ operations' = caller
    /\ proposedOperations' = ZeroAddress /\ operationsProposer' = ZeroAddress
    /\ UNCHANGED <<handover, pauseVars, pendingOperationsRotation, now>>

-----------------------------------------------------------------------------
(* The Treasury's controls over Process claims *)

PausedClaims ==
    /\ processClaimsPaused' = TRUE
    /\ pausedSince' = IF processClaimsPaused THEN pausedSince ELSE now

PauseProcessClaims(caller) ==
    /\ caller = treasury
    /\ PausedClaims
    /\ UNCHANGED <<handover, operationsVars, pendingOperationsRotation, now>>

\* Fault: a pending rotation does not keep claims paused.
UnpauseAnyTime(caller) ==
    /\ caller = treasury
    /\ processClaimsPaused' = FALSE
    /\ UNCHANGED <<pausedSince, handover, operationsVars, pendingOperationsRotation, now>>

UnpauseProcessClaims(caller) ==
    /\ caller = treasury
    /\ ~RotationPending
    /\ processClaimsPaused' = FALSE
    /\ UNCHANGED <<pausedSince, handover, operationsVars, pendingOperationsRotation, now>>

\* Scheduling again replaces a pending rotation and starts its delay anew.
ScheduleOperationsRotation(caller, nextOperations) ==
    /\ caller = treasury
    /\ ValidRoleSuccessor(nextOperations, operations)
    /\ now + RotationDelay <= MaxTime
    /\ proposedOperations' = ZeroAddress /\ operationsProposer' = ZeroAddress
    /\ pendingOperationsRotation' = [expectedOperations |-> operations,
                                     nextOperations |-> nextOperations,
                                     executableAt |-> now + RotationDelay]
    /\ PausedClaims
    /\ UNCHANGED <<handover, operations, now>>

\* The claims stay paused after the rotation: unpausing is a call of its own.
ExecuteOperationsRotation(caller) ==
    /\ caller = treasury
    /\ RotationPending
    /\ now >= pendingOperationsRotation.executableAt
    /\ operations = pendingOperationsRotation.expectedOperations
    /\ ValidRoleSuccessor(pendingOperationsRotation.nextOperations, operations)
    /\ operations' = pendingOperationsRotation.nextOperations
    /\ proposedOperations' = ZeroAddress /\ operationsProposer' = ZeroAddress
    /\ pendingOperationsRotation' = NoRotation
    /\ PausedClaims
    /\ UNCHANGED <<handover, now>>

RolesTick ==
    /\ NextBlock
    /\ UNCHANGED <<handover, operationsVars, pauseVars, pendingOperationsRotation>>

Successors == Addresses \cup {ZeroAddress, HookAddress}

RolesNext ==
    \/ \E c \in Addresses, s \in Successors :
          \/ ProposeTreasury(c, s)
          \/ ProposeOperations(c, s)
          \/ ScheduleOperationsRotation(c, s)
    \/ \E c \in Addresses :
          \/ AcceptTreasury(c)
          \/ AcceptOperations(c)
          \/ PauseProcessClaims(c)
          \/ UnpauseProcessClaims(c)
          \/ ExecuteOperationsRotation(c)
    \/ RolesTick

RolesSpec == RolesInit /\ [][RolesNext]_roleVars

\* Blocks keep coming, and whoever is Treasury does not forget a rotation it
\* may execute.
RolesFairSpec ==
    /\ RolesSpec
    /\ WF_roleVars(RolesTick)
    /\ WF_roleVars(\E c \in Addresses : ExecuteOperationsRotation(c))

-----------------------------------------------------------------------------
(* Properties *)

Rotations ==
    [expectedOperations : Addresses \cup {ZeroAddress}, nextOperations : Addresses \cup {ZeroAddress},
     executableAt : 0..MaxTime]

\* The storage has the types the contract declares: a role is always held by
\* an account, never by address(0) or the hook itself.
RolesTypeOK ==
    /\ treasury \in Addresses /\ operations \in Addresses
    /\ proposedTreasury \in Addresses \cup {ZeroAddress}
    /\ proposedOperations \in Addresses \cup {ZeroAddress}
    /\ treasuryProposer \in Addresses \cup {ZeroAddress}
    /\ operationsProposer \in Addresses \cup {ZeroAddress}
    /\ treasuryBeneficiaries \subseteq Addresses
    /\ pendingOperationsRotation \in Rotations
    /\ processClaimsPaused \in BOOLEAN
    /\ now \in 0..MaxTime /\ pausedSince \in 0..MaxTime

\* A scheduled rotation is never stale: until it is executed or replaced,
\* Operations stays the account it was scheduled against and the successor is
\* another account, so StaleOperationsRotation cannot strand it.
RotationNeverStale ==
    RotationPending =>
        /\ pendingOperationsRotation.expectedOperations = operations
        /\ pendingOperationsRotation.nextOperations # operations
        /\ proposedOperations = ZeroAddress

\* From the scheduling of a rotation to its execution the claims are paused
\* without interruption for at least operationsRotationDelay.
RotationOnlyAfterPausedDelay ==
    [][RotationPending /\ ~RotationPending' =>
          /\ processClaimsPaused /\ processClaimsPaused'
          /\ now - pausedSince >= RotationDelay]_roleVars

\* A proposal that can still be accepted was made by the account that holds
\* the role now: what an account proposed does not survive its own replacement
\* (scheduleOperationsRotation and the execution clear proposedOperations).
ProposalsAreCurrent ==
    /\ proposedTreasury # ZeroAddress => treasuryProposer = treasury /\ proposedTreasury # treasury
    /\ proposedOperations # ZeroAddress => operationsProposer = operations /\ proposedOperations # operations

\* Whatever handovers happen meanwhile, a scheduled rotation is executed.
RotationCompletes == RotationPending ~> ~RotationPending
=============================================================================
