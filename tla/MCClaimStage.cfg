SPECIFICATION FairSpec
CONSTANTS
    NoReservation = NoReservation
    MaxFailures = 4
    MaxHead = 2
INVARIANTS
    OneClaimOnChain
    BudgetFollowsChain
    CompletedClaimIsPaid
PROPERTIES
    UsesOwnWallet
    ClaimIsSettled
CHECK_DEADLOCK FALSE
