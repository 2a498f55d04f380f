SPECIFICATION Spec
CONSTANTS
    NumRows = 1
    Calls = {c1}
    ClientSigs = {"good", "bad"}
    BATCH_MAX = 1
    POISON_AFTER = 2
    AUTO_ANCHOR = {FALSE}
    Resubmit = FALSE
    RegistryHasCode = TRUE
    MaxTx = 3
    Budget <- CalmBudget
    Mix = 1
PROPERTY RetryIsNotServerSigned
CHECK_DEADLOCK FALSE
