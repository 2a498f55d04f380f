------------------------------- MODULE Faucet -------------------------------
(***************************************************************************)
(* POST /faucet of server/index.js: test gas for a new attestor, limited   *)
(* by the faucet_grants table.  The limits are read before two awaits and  *)
(* the grant is recorded after them.                                       *)
(***************************************************************************)
EXTENDS Integers, FiniteSets

CONSTANTS
    Handlers,       \* bound: requests in flight at once
    Addresses,
    Ips,
    FAUCET_PER_IP,
    FAUCET_DAILY,
    DAY,
    MaxTime,        \* bound: the clock
    MaxSends,       \* bound: transfers
    MaxMishaps      \* bound: answers lost and restarts

ASSUME FaucetAssumption ==
    /\ {FAUCET_PER_IP, FAUCET_DAILY, DAY, MaxTime, MaxSends, MaxMishaps} \subseteq Nat
    /\ IsFiniteSet(Handlers) /\ Handlers # {}

VARIABLES
    grants,     \* the faucet_grants table, address unique
    handlers,
    sends,      \* address => transfers sent
    paid,       \* each of them, with the moment its request was let through
    now,
    mishaps

faucetVars == <<grants, handlers, sends, paid, now, mishaps>>

Idle == [pc |-> "idle"]

FaucetInit ==
    /\ grants = {}
    /\ handlers = [h \in Handlers |-> Idle]
    /\ sends = [a \in Addresses |-> 0]
    /\ paid = {}
    /\ now = DAY
    /\ mishaps = 0

Since(ts) == {g \in grants : g.at > ts}

At(h, pc) == handlers[h].pc = pc
Moves(h, state) == handlers' = [handlers EXCEPT ![h] = state]

\* MUTANTS: grants are counted from this day on only; a grant is looked up by
\* address and network together.
Request_NewDay(h, to, ip) ==
    /\ At(h, "idle")
    /\ \A g \in grants : g.to # to
    /\ Cardinality({g \in Since(now) : g.ip = ip}) < FAUCET_PER_IP
    /\ Cardinality(Since(now)) < FAUCET_DAILY
    /\ Moves(h, [pc |-> "balance", to |-> to, ip |-> ip, asked |-> now])
    /\ UNCHANGED <<grants, sends, paid, now, mishaps>>
Request_PerNetwork(h, to, ip) ==
    /\ At(h, "idle")
    /\ \A g \in grants : ~ (g.to = to /\ g.ip = ip)
    /\ Cardinality({g \in Since(now - DAY) : g.ip = ip}) < FAUCET_PER_IP
    /\ Cardinality(Since(now - DAY)) < FAUCET_DAILY
    /\ Moves(h, [pc |-> "balance", to |-> to, ip |-> ip, asked |-> now])
    /\ UNCHANGED <<grants, sends, paid, now, mishaps>>

\* The checks, then await getBalance.
Request(h, to, ip) ==
    /\ At(h, "idle")
    /\ \A g \in grants : g.to # to
    /\ Cardinality({g \in Since(now - DAY) : g.ip = ip}) < FAUCET_PER_IP
    /\ Cardinality(Since(now - DAY)) < FAUCET_DAILY
    /\ Moves(h, [pc |-> "balance", to |-> to, ip |-> ip, asked |-> now])
    /\ UNCHANGED <<grants, sends, paid, now, mishaps>>

\* An address that has enough already, from here or elsewhere, gets nothing.
Balance(h) ==
    /\ At(h, "balance")
    /\ \E enough \in BOOLEAN :
          Moves(h, IF enough THEN Idle ELSE [handlers[h] EXCEPT !.pc = "send"])
    /\ UNCHANGED <<grants, sends, paid, now, mishaps>>

\* sendTransaction: it goes out, or it throws before, or it throws after (the
\* answer is lost) and the request ends without a record.
Send(h) ==
    /\ At(h, "send")
    /\ \/ /\ sends[handlers[h].to] < MaxSends
          /\ sends' = [sends EXCEPT ![handlers[h].to] = @ + 1]
          /\ paid' = paid \cup {[to |-> handlers[h].to, asked |-> handlers[h].asked,
                                  no |-> sends[handlers[h].to] + 1]}
          /\ \/ Moves(h, [handlers[h] EXCEPT !.pc = "record"]) /\ UNCHANGED mishaps
             \/ /\ mishaps < MaxMishaps
                /\ mishaps' = mishaps + 1
                /\ Moves(h, Idle)
       \/ Moves(h, Idle) /\ UNCHANGED <<sends, paid, mishaps>>
    /\ UNCHANGED <<grants, now>>

\* The INSERT throws when the address has a row.
Record(h) ==
    /\ At(h, "record")
    /\ grants' = IF \E g \in grants : g.to = handlers[h].to THEN grants
                 ELSE grants \cup {[to |-> handlers[h].to, ip |-> handlers[h].ip, at |-> now]}
    /\ Moves(h, Idle)
    /\ UNCHANGED <<sends, paid, now, mishaps>>

\* The API restarts.
Crash ==
    /\ mishaps < MaxMishaps
    /\ mishaps' = mishaps + 1
    /\ handlers' = [h \in Handlers |-> Idle]
    /\ UNCHANGED <<grants, sends, paid, now>>

FaucetTick ==
    /\ now < MaxTime
    /\ now' = now + 1
    /\ UNCHANGED <<grants, handlers, sends, paid, mishaps>>

FaucetNext ==
    \/ \E h \in Handlers, a \in Addresses, ip \in Ips : Request(h, a, ip)
    \/ \E h \in Handlers : Balance(h) \/ Send(h) \/ Record(h)
    \/ Crash \/ FaucetTick

FaucetSpec == FaucetInit /\ [][FaucetNext]_faucetVars

-----------------------------------------------------------------------------
(* Properties                                                              *)

\* The gas paid for the requests of one day: the daily cap, times the requests
\* that can be in flight at once, since those for one address share one row,
\* and as many transfers more for each lost answer or restart, which leaves no
\* row.  Served one at a time and without a mishap, the cap holds exactly.  The
\* rows recorded for a network in a day exceed its cap by the other requests in
\* flight at most; the gas paid to a network has no such bound, since a
\* transfer to an address recorded under another network leaves no row.
CapsOvershootByFlight ==
    /\ Cardinality({p \in paid : p.asked > now - DAY})
          <= Cardinality(Handlers) * (FAUCET_DAILY + mishaps)
    /\ \A ip \in Ips :
          Cardinality({g \in Since(now - DAY) : g.ip = ip})
              <= FAUCET_PER_IP + Cardinality(Handlers) - 1

\* An address is sent gas at most once per request in flight at once, and once
\* more for each lost answer or restart: after its row is there, never again.
\* ("One grant per address, forever", index.js:416, is this with one request in
\* flight and no mishap.)
GrantsPerAddressBounded ==
    \A a \in Addresses : sends[a] <= Cardinality(Handlers) * (1 + mishaps)
=============================================================================
