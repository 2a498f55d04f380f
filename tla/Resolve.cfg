SPECIFICATION StoreSpec
CONSTANTS
    o1 = o1  m1 = m1  n1 = n1  n2 = n2  n3 = n3
    kn = kn  kp = kp
    Spelled <- MCSpelled
    Manifests = {m1}
    NodeKey = kn
    Published <- MCPublished
    RESOLVE_LIMIT = 2
    MaxRows = 3
    MaxSecond = 3
INVARIANT ScannedToolResolves
CHECK_DEADLOCK FALSE
