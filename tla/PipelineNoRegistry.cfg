SPECIFICATION Spec
CONSTANTS
    NumRows = 1
    Calls = {c1}
    ClientSigs = {"good"}
    BATCH_MAX = 1
    POISON_AFTER = 2
    AUTO_ANCHOR = {FALSE}
    Resubmit = FALSE
    RegistryHasCode = FALSE
    MaxTx = 3
    Budget <- CalmBudget
    Mix = 1
INVARIANT ConfirmedIsOnChain
CHECK_DEADLOCK FALSE
