SPECIFICATION NodeSpec
CONSTANTS
    \* Faucet
    Handlers = {h1, h2}
    Addresses = {x1, x2, x3}
    Ips = {ip1, ip2}
    FAUCET_PER_IP = 1
    FAUCET_DAILY = 2
    DAY = 1
    MaxTime = 2
    MaxSends = 5
    MaxMishaps = 1
    \* RateLimit
    Clients = {ip1, ip2}
    Unnamed = unnamed
    RATE = 1
    WINDOW = 2
    MAX_HITS = 1
    MaxClock = 3
    MaxAsked = 4
    MaxReboots = 1
    \* IndexSource
    Reads = {q1, q2}
    Here = here
    Elsewhere = elsewhere
    MaxHeight = 1
    MaxOutages = 2
    \* ReceiptStore
    o1 = o1  m1 = m1  n1 = n1  n2 = n2  n3 = n3
    kn = kn  kp = kp
    Spelled <- MCSpelled
    Manifests = {m1}
    NodeKey = kn
    Published <- MCPublished
    RESOLVE_LIMIT = 2
    MaxRows = 3
    MaxSecond = 3
    \* ScanVerdict
    Contents <- AllContents
    MaxChunks = 2
    MaxEdits = 1
    MaxEnded = 1
    \* OperatorRun
    current = current  older = older  prefixed = prefixed  flagged = flagged
    old = old  new = new
    Scripts = {"survey", "capture", "seed"}
    Entries = {current, older, prefixed, flagged}
    Listed <- MCListed
    ToolIds = {current, prefixed, flagged}
    Snapshots = {current, older, prefixed, flagged}
    Own <- MCOwn
    Reread <- MCReread
    Others <- MCOthers
    Real = {current, older, prefixed, flagged}
    Reviewed = {current}
    INCLUDE_REAL = TRUE
    Rules = {old, new}
    Checkout = new
    JudgedUnder <- MCJudgedUnder
    MaxAnchors = 3
    MaxRestarts = 2
INVARIANTS
    CapsOvershootByFlight GrantsPerAddressBounded
    ServedPerMinute
    CloudServesThisChain OneHealthyIndexIsEnough
    ServedIsGenuine
    StrongTextIsFlagged ManifestIsJudgedAsStrictly
    SurveyAnchorsItsReport CriticalIsReviewed RepeatsOnlyBlind
PROPERTIES ServedNeverChanges ReceiptNeverSoftens
CHECK_DEADLOCK FALSE
