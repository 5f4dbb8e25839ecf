SPECIFICATION Spec
CONSTANTS
    Accounts = {t1, t2}
    SwapAmounts <- EveryResidue
    NetAmounts <- RequestedNets
    ClaimAmounts = {50}
    Donations = {7}
    MaxVolume = 3023
    MaxBalance = 7
SYMMETRY AccountSymmetry
INVARIANTS
    Solvent
    LedgerBalanced
    LifetimeSplit
    ExactOutputLeastGross
CHECK_DEADLOCK FALSE
