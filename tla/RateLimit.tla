----------------------------- MODULE RateLimit -----------------------------
(***************************************************************************)
(* The fixed-window counters of server/index.js: `limited` and `rl` for    *)
(* the public endpoints, and the same counting again in POST /rpc.  They   *)
(* are two maps that never meet, so a behaviour is about one of them.      *)
(***************************************************************************)
EXTENDS Integers, Sequences, FiniteSets

CONSTANTS
    Clients,        \* addresses X-Real-IP names
    Unnamed,        \* a request without that header
    RATE,           \* RATE_PER_MIN, RPC_RATE_PER_MIN
    WINDOW,         \* 60000 ms, in clock units
    MAX_HITS,       \* 5000
    MaxClock,       \* bound: the clock
    MaxAsked,       \* bound: requests
    MaxReboots      \* bound: restarts

ASSUME RateAssumption ==
    /\ Unnamed \notin Clients
    /\ IsFiniteSet(Clients)
    /\ {RATE, MAX_HITS, MaxClock, MaxAsked, MaxReboots} \subseteq Nat
    /\ WINDOW \in Nat \ {0}

VARIABLES
    limiter,    \* which of the two maps this is
    hits,       \* [ip, window] => requests counted
    clock,
    \* history, read by properties only:
    asked,      \* the requests so far: [ip, at, served], in order
    reboots

rateVars == <<limiter, hits, clock, asked, reboots>>

NoHits == [k \in {} |-> 0]

RateInit ==
    /\ limiter \in {"rl", "rpc"}
    /\ hits = NoHits
    /\ clock = 0
    /\ asked = <<>>
    /\ reboots = 0

Window == clock \div WINDOW

Counted(key) ==
    [k \in DOMAIN hits \cup {key} |->
        (IF k \in DOMAIN hits THEN hits[k] ELSE 0) + (IF k = key THEN 1 ELSE 0)]

\* MUTANT: past the size, everything goes.
Purged_All(table) ==
    IF Cardinality(DOMAIN table) > MAX_HITS THEN NoHits ELSE table

\* Past the size, every other window's entries go.
Purged(table) ==
    IF Cardinality(DOMAIN table) > MAX_HITS
    THEN [k \in {j \in DOMAIN table : j.window = Window} |-> table[k]]
    ELSE table

KeyOf(ip) == [ip |-> ip, window |-> Window]

\* A request: rl lets one that names no address pass uncounted, POST /rpc
\* counts it under 'direct'.  A refused request counts too.
Ask(ip) ==
    /\ Len(asked) < MaxAsked
    /\ LET free  == limiter = "rl" /\ ip = Unnamed
           table == Counted(KeyOf(ip))
       IN  /\ hits' = IF free THEN hits ELSE Purged(table)
           /\ asked' = Append(asked, [ip |-> ip, at |-> clock,
                                      served |-> free \/ table[KeyOf(ip)] <= RATE])
    /\ UNCHANGED <<limiter, clock, reboots>>

RateTick ==
    /\ clock < MaxClock
    /\ clock' = clock + 1
    /\ UNCHANGED <<limiter, hits, asked, reboots>>

\* The API restarts with an empty map.
Reboot ==
    /\ reboots < MaxReboots
    /\ reboots' = reboots + 1
    /\ hits' = NoHits
    /\ UNCHANGED <<limiter, clock, asked>>

RateNext ==
    \/ \E ip \in Clients \cup {Unnamed} : Ask(ip)
    \/ RateTick
    \/ Reboot

RateSpec == RateInit /\ [][RateNext]_rateVars

-----------------------------------------------------------------------------
(* Properties                                                              *)

ServedWithin(ip, from, to) ==
    {n \in DOMAIN asked : asked[n].ip = ip /\ asked[n].at \in from..to /\ asked[n].served}

\* In any stretch as long as a window, wherever it begins, an address is served
\* at most twice the rate (a fixed window lets both halves of it in), and as
\* much again after each restart: dropping old entries (index.js:47) never
\* forgets a count that still matters.
ServedPerMinute ==
    \A ip \in Clients, from \in 0..clock :
        Cardinality(ServedWithin(ip, from, from + WINDOW - 1)) <= RATE * (2 + reboots)
=============================================================================
