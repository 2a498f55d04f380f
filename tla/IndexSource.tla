---------------------------- MODULE IndexSource ----------------------------
(***************************************************************************)
(* server/envio.js: which of two indexes, the local one and Envio Cloud,   *)
(* answers a read.  Reads run concurrently; at most every 60 s one of them *)
(* probes both indexes first and chooses for all.  The module's variables  *)
(* are shared by every read and change between a read's awaits.            *)
(***************************************************************************)
EXTENDS Integers, FiniteSets

CONSTANTS
    Reads,          \* bound: reads served
    Here,           \* CHAIN_ID
    Elsewhere,      \* another chain an index may have been built for
    MaxHeight,      \* bound: blocks indexed
    MaxOutages      \* bound: times an index goes down

Local   == "local"      \* URL_
Cloud   == "cloud"      \* ENVIO_CLOUD_GRAPHQL_URL, configured
Indexes == {Local, Cloud}
NoIndex == "none"

ASSUME SourceAssumption ==
    /\ Here # Elsewhere
    /\ MaxHeight \in Nat
    /\ MaxOutages \in Nat

VARIABLES
    chainOf,    \* index => the chain it indexed
    height,     \* index => how far it got
    up,         \* indexes that answer
    outages,    \* times an index went down
    chosen,
    eligible,   \* indexes that answered for this chain at the last check
    checked,    \* less than 60 s since checkedAt
    reads       \* read => where it is

sourceVars == <<chainOf, height, up, outages, chosen, eligible, checked, reads>>

\* heads: what the probes found; steady (history): the indexes of this chain
\* that have been up ever since the read began.
NewRead == [pc |-> "new", first |-> NoIndex, from |-> NoIndex, probes |-> FALSE,
            heads |-> [i \in {} |-> 0], steady |-> {}]

SourceInit ==
    /\ chainOf \in [Indexes -> {Here, Elsewhere}]
    /\ height = [i \in Indexes |-> 0]
    /\ up \in SUBSET Indexes
    /\ outages = 0
    /\ chosen = Local
    /\ eligible = {Local}
    /\ checked = FALSE
    /\ reads = [q \in Reads |-> NewRead]

OtherOf(i) == IF i = Cloud THEN Local ELSE Cloud

ReadSteps(q, changes) == reads' = [reads EXCEPT ![q] = changes]

Healthy == {i \in up : chainOf[i] = Here}

-----------------------------------------------------------------------------

\* pick, until its await: checkedAt is set before the probes come back, so
\* reads that arrive meanwhile take `chosen` as it is.
Begin(q) ==
    /\ reads[q].pc = "new"
    /\ IF checked
       THEN ReadSteps(q, [reads[q] EXCEPT !.pc = "ask", !.first = chosen, !.steady = Healthy])
       ELSE ReadSteps(q, [reads[q] EXCEPT !.pc = "probe", !.probes = TRUE, !.steady = Healthy])
    /\ checked' = TRUE
    /\ UNCHANGED <<chainOf, height, up, outages, chosen, eligible>>

\* MUTANT: the height is compared whatever the chain.
HeadOf_AnyChain(i) == IF i \in up THEN height[i] ELSE -1

\* head: how far the index got on this chain; -1 when it is down or has
\* indexed another chain only.
HeadOf(i) == IF i \in up /\ chainOf[i] = Here THEN height[i] ELSE -1

Probe(q, i) ==
    /\ reads[q].pc = "probe"
    /\ i \notin DOMAIN reads[q].heads
    /\ ReadSteps(q, [reads[q] EXCEPT !.heads =
            [j \in DOMAIN @ \cup {i} |-> IF j = i THEN HeadOf(i) ELSE @[j]]])
    /\ UNCHANGED <<chainOf, height, up, outages, chosen, eligible, checked>>

\* MUTANT: only the index that won counts as eligible.
Picked_WinnerOnly(q) ==
    /\ reads[q].pc = "probe"
    /\ DOMAIN reads[q].heads = Indexes
    /\ LET heads == reads[q].heads
       IN  /\ chosen' = IF heads[Cloud] > heads[Local] THEN Cloud ELSE Local
           /\ eligible' = {i \in {chosen'} : heads[i] >= 0}
    /\ ReadSteps(q, [reads[q] EXCEPT !.pc = "ask", !.first = chosen'])
    /\ UNCHANGED <<chainOf, height, up, outages, checked>>

\* Both probes are back.  With none usable the local index stays chosen.
Picked(q) ==
    /\ reads[q].pc = "probe"
    /\ DOMAIN reads[q].heads = Indexes
    /\ LET heads == reads[q].heads
       IN  /\ eligible' = {i \in Indexes : heads[i] >= 0}
           /\ chosen' = IF heads[Cloud] > heads[Local] THEN Cloud ELSE Local
    /\ ReadSteps(q, [reads[q] EXCEPT !.pc = "ask", !.first = chosen'])
    /\ UNCHANGED <<chainOf, height, up, outages, checked>>

\* q: the chosen index first, the other one only if it is eligible.
AskFirst(q) ==
    /\ reads[q].pc = "ask"
    /\ ReadSteps(q,
         IF reads[q].first \in up
         THEN [reads[q] EXCEPT !.pc = "served", !.from = reads[q].first]
         ELSE IF OtherOf(reads[q].first) \in eligible
              THEN [reads[q] EXCEPT !.pc = "askOther"]
              ELSE [reads[q] EXCEPT !.pc = "failed"])
    /\ UNCHANGED <<chainOf, height, up, outages, chosen, eligible, checked>>

\* An answer of the other one makes it the chosen one for the next minute.
AskOther(q) ==
    /\ reads[q].pc = "askOther"
    /\ LET other == OtherOf(reads[q].first)
       IN  IF other \in up
           THEN /\ ReadSteps(q, [reads[q] EXCEPT !.pc = "served", !.from = other])
                /\ chosen' = other
                /\ checked' = TRUE
           ELSE /\ ReadSteps(q, [reads[q] EXCEPT !.pc = "failed"])
                /\ UNCHANGED <<chosen, checked>>
    /\ UNCHANGED <<chainOf, height, up, outages, eligible>>

\* A probe times out after 5 s: none is out when 60 s have passed.
Minute ==
    /\ checked
    /\ \A q \in Reads : reads[q].pc # "probe"
    /\ checked' = FALSE
    /\ UNCHANGED <<chainOf, height, up, outages, chosen, eligible, reads>>

GoDown(i) ==
    /\ i \in up
    /\ outages < MaxOutages
    /\ outages' = outages + 1
    /\ up' = up \ {i}
    /\ reads' = [q \in Reads |-> [reads[q] EXCEPT !.steady = @ \ {i}]]
    /\ UNCHANGED <<chainOf, height, chosen, eligible, checked>>

ComeUp(i) ==
    /\ i \notin up
    /\ up' = up \cup {i}
    /\ UNCHANGED <<chainOf, height, outages, chosen, eligible, checked, reads>>

Advance(i) ==
    /\ height[i] < MaxHeight
    /\ height' = [height EXCEPT ![i] = @ + 1]
    /\ UNCHANGED <<chainOf, up, outages, chosen, eligible, checked, reads>>

SourceNext ==
    \/ \E q \in Reads : Begin(q) \/ Picked(q) \/ AskFirst(q) \/ AskOther(q)
    \/ \E q \in Reads, i \in Indexes : Probe(q, i)
    \/ \E i \in Indexes : GoDown(i) \/ ComeUp(i) \/ Advance(i)
    \/ Minute

SourceSpec == SourceInit /\ [][SourceNext]_sourceVars

-----------------------------------------------------------------------------
(* Properties                                                              *)

\* The cloud index never answers for another chain, however the reads that
\* share `chosen` and `eligible` interleave (envio.js:33-38).
CloudServesThisChain ==
    \A q \in Reads : reads[q].from = Cloud => chainOf[Cloud] = Here

\* A read that did its own check fails only if no index of this chain stayed
\* up while it ran: one healthy index is enough (envio.js:27-32).
OneHealthyIndexIsEnough ==
    \A q \in Reads : (reads[q].probes /\ reads[q].pc = "failed") => reads[q].steady = {}

\* envio.js:37-38: "An index on the wrong chain is not a fallback - it is a
\* different registry."
ServedIsThisChain ==
    \A q \in Reads : reads[q].pc = "served" => chainOf[reads[q].from] = Here
=============================================================================
