SPECIFICATION FairSpec
CONSTANTS
    NumRows = 1
    Calls = {}
    ClientSigs = {"good"}
    BATCH_MAX = 1
    POISON_AFTER = 2
    AUTO_ANCHOR = {FALSE}
    Resubmit = FALSE
    RegistryHasCode = TRUE
    MaxTx = 3
    Budget <- CrashBudget
    Mix = 1
PROPERTY QueuedIsConfirmed
CHECK_DEADLOCK FALSE
