SPECIFICATION FairSpec
CONSTANTS
    NumRows = 3
    Calls = {}
    ClientSigs = {"good", "bad"}
    BATCH_MAX = 2
    POISON_AFTER = 2
    AUTO_ANCHOR = {FALSE}
    Resubmit = FALSE
    RegistryHasCode = TRUE
    MaxTx = 9
    Budget <- CalmBudget
    Mix = 1
INVARIANT PoisonIsBad
PROPERTIES QueuedIsConfirmed QueueDrains
CHECK_DEADLOCK FALSE
