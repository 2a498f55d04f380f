SPECIFICATION BrowserSpec
CHECK_DEADLOCK FALSE
CONSTANTS
    p1 = p1  p2 = p2
    k1 = k1  k2 = k2  k3 = k3
    o1 = o1  n1 = n1  m1 = m1
    Passkeys = {p1, p2}
    KeyOf <- MCKeyOf
    Verdicts = {1}
    Slots = {1, 2}
    MaxOpens = 2
    MaxTxs = 2
    \* ScanRegistry
    Attestors = {p1, p2}
    Tools <- MCTools
    Contents = {m1}
    Receipts <- MCReceipts
    Keys = {k1, k2, k3}
    Zero = zero
    Here = here
    Signatures <- MCSignatures
    Calldata <- MCCalldata
    CountMod = 8
    TotalMod = 8
    MaxBatch = 1
    MaxLog = 3
    MaxTime = 1
    \* ReceiptStore
    Spelled <- MCSpelled
    Manifests = {m1}
    NodeKey = kn
    Published = {}
    RESOLVE_LIMIT = 1
    MaxRows = 0
    MaxSecond = 1
INVARIANTS
    AnchorsOwnReceipt
    PublishedBeforeAnchored
    ShownIsRegistered
PROPERTY OnlyCurrentSigns
