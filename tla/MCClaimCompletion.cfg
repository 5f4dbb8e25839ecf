SPECIFICATION FairSpec
CONSTANTS
    NoReservation = NoReservation
    MaxFailures = 0
    MaxHead = 0
PROPERTY FinalizedClaimCompletes
CHECK_DEADLOCK FALSE
