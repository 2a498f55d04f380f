SPECIFICATION Spec
CONSTANTS
    NumRows = 2
    Calls = {c1}
    ClientSigs = {"good", "bad"}
    BATCH_MAX = 2
    POISON_AFTER = 1
    AUTO_ANCHOR = {TRUE, FALSE}
    Resubmit = TRUE
    RegistryHasCode = TRUE
    MaxTx = 2
    Budget <- EveryAccident
    Mix = 1
INVARIANTS TypeOK ConfirmedIsAnchored AnchoredPerRequest SentIsHeld
PROPERTY ServerSignsOnlyInTheGap
CHECK_DEADLOCK FALSE
