SPECIFICATION SourceSpec
CONSTANTS
    Reads = {q1, q2}
    Here = here
    Elsewhere = elsewhere
    MaxHeight = 2
    MaxOutages = 2
INVARIANTS ServedIsThisChain
CHECK_DEADLOCK FALSE
