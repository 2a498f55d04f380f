SPECIFICATION ClientSpec
CONSTANTS
    a1 = a1  a2 = a2
    k1 = k1  k2 = k2
    t1 = t1  t2 = t2
    c1 = c1  c2 = c2
    here = here  zero = zero
    Undefined = Undefined
    Anyone = Anyone  AnyContent = AnyContent  Nobody = Nobody
    Attestors = {a1, a2}
    Tools = {t1, t2}
    Contents = {c1, c2}
    Receipts = {0}
    Keys = {k1, k2}
    Zero = zero
    Here = here
    Signatures <- MCSignatures
    Calldata <- MCCalldata
    Scanned <- Unasked
    CountMod = 16
    TotalMod = 16
    MaxBatch = 1
    MaxLog = 4
    MaxTime = 3
    SCAN_LIMIT = 2
    REST_LIMIT = 3
    CACHE_LIMIT = 2
INVARIANTS MirrorClearsLikeContract
CHECK_DEADLOCK FALSE
