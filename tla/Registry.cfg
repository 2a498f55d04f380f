SPECIFICATION RouterSpec
CONSTANTS
    a1 = a1  a2 = a2
    k1 = k1  k2 = k2  k3 = k3
    t1 = t1  t2 = t2
    c1 = c1  c2 = c2
    here = here  elsewhere = elsewhere  zero = zero
    Silence = Silence
    Attestors <- MCAttestors
    Tools <- MCTools
    Contents <- MCContents
    Receipts <- MCReceipts
    Keys <- MCKeys
    Zero = zero
    Here = here
    Signatures <- MCSignatures
    Calldata <- MCCalldata
    CountMod = 3
    TotalMod = 3
    MaxBatch = 2
    MaxLog = 4
    MaxTime = 3
    Trusted = a1
    MaxAge = 1
    MaxCalls = 1
INVARIANTS TypeOK LatestIsLastEvent CountersMatchLog KeyIsLastRegistered Authentic
           CallsWereCleared
PROPERTIES ClearanceIsOwnWord ImplementsBoard
CHECK_DEADLOCK FALSE
