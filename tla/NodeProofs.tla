----------------------------- MODULE NodeProofs -----------------------------
(***************************************************************************)
(* Where a read is answered from, what is served under a receipt hash, and *)
(* what the operator's scripts anchor: for any number of concurrent reads, *)
(* outages, published receipts, entries, rules and API restarts.  The      *)
(* three parts share no state and no lemma.                                *)
(***************************************************************************)
EXTENDS IndexSource, ReceiptStore, OperatorRun, SequenceTheorems, TLAPS


-----------------------------------------------------------------------------
(* IndexSource: which index answers a read                                 *)

\* What the probes of a read found so far.
Heads == UNION {[S -> {-1} \cup Nat] : S \in SUBSET Indexes}

ReadState == [pc : {"new", "probe", "ask", "askOther", "served", "failed"},
              first : Indexes \cup {NoIndex}, from : Indexes \cup {NoIndex},
              probes : BOOLEAN, heads : Heads, steady : SUBSET Indexes]

SourceTypeOK ==
    /\ chainOf \in [Indexes -> {Here, Elsewhere}]
    /\ height \in [Indexes -> Nat]
    /\ up \in SUBSET Indexes
    /\ chosen \in Indexes
    /\ eligible \in SUBSET Indexes
    /\ reads \in [Reads -> ReadState]

\* A head at or above zero was reported for this chain.
Honest(heads) ==
    \A i \in Indexes : (i \in DOMAIN heads /\ heads[i] >= 0) => chainOf[i] = Here

\* A read that neither was nor will be answered by the cloud index.
Avoids(r) == r.first # Cloud /\ r.from # Cloud /\ r.pc # "askOther"

\* A cloud index of another chain is not eligible, not chosen, and no read has
\* it as its first index, its other one or its source.
CloudIsAskedForHere ==
    chainOf[Cloud] # Here =>
        /\ Cloud \notin eligible
        /\ chosen # Cloud
        /\ \A q \in Reads : Avoids(reads[q])

\* The inductive invariant.
SourceInv ==
    /\ SourceTypeOK
    /\ \A q \in Reads : Honest(reads[q].heads)
    /\ CloudIsAskedForHere

-----------------------------------------------------------------------------
(* Lemmas about heads and reads                                            *)

\* Nothing probed yet.
LEMMA NoHeads == [i \in {} |-> 0] \in Heads /\ Honest([i \in {} |-> 0])
<1>1. [i \in {} |-> 0] \in [{} -> {-1} \cup Nat]
  OBVIOUS
<1>2. {} \in SUBSET Indexes
  OBVIOUS
<1>3. [i \in {} |-> 0] \in Heads
  BY <1>1, <1>2 DEF Heads
<1> QED BY <1>3 DEF Honest

\* What a probe reports is at least -1, and -1 unless the chain is this one.
LEMMA HeadOfHonest ==
    ASSUME SourceTypeOK, NEW i \in Indexes
    PROVE  HeadOf(i) \in {-1} \cup Nat /\ (HeadOf(i) >= 0 => chainOf[i] = Here)
BY DEF HeadOf, SourceTypeOK

\* One more probe is back.
LEMMA HeadsGrow ==
    ASSUME SourceTypeOK, NEW heads \in Heads, Honest(heads), NEW i \in Indexes
    PROVE  LET grown == [j \in DOMAIN heads \cup {i} |-> IF j = i THEN HeadOf(i) ELSE heads[j]]
           IN  grown \in Heads /\ Honest(grown)
<1> DEFINE grown == [j \in DOMAIN heads \cup {i} |-> IF j = i THEN HeadOf(i) ELSE heads[j]]
<1>1. PICK S \in SUBSET Indexes : heads \in [S -> {-1} \cup Nat]
  BY DEF Heads
<1>2. S \cup {i} \in SUBSET Indexes /\ DOMAIN heads = S
  BY <1>1
<1>3. grown \in [S \cup {i} -> {-1} \cup Nat]
  BY <1>1, <1>2, HeadOfHonest
<1>4. grown \in Heads
  BY <1>2, <1>3 DEF Heads
<1>5. Honest(grown)
  BY <1>2, HeadOfHonest DEF Honest
<1> QED BY <1>4, <1>5

\* When both are back, the one ahead of the other reported for this chain.
LEMMA AheadIsHere ==
    ASSUME NEW heads \in Heads, Honest(heads), DOMAIN heads = Indexes,
           heads[Cloud] > heads[Local]
    PROVE  chainOf[Cloud] = Here
<1>1. Cloud \in Indexes /\ Local \in Indexes
  BY DEF Indexes
<1>2. heads[Cloud] \in {-1} \cup Nat /\ heads[Local] \in {-1} \cup Nat
  BY <1>1 DEF Heads
<1> QED BY <1>1, <1>2 DEF Honest

\* A step that changes at most one read, and keeps the index it may be asking
\* or answered by, keeps the invariant.
LEMMA OneReadMoves ==
    ASSUME SourceInv, NEW q \in Reads, NEW r \in ReadState, ReadSteps(q, r),
           UNCHANGED <<chainOf, height, up>>,
           chosen' \in Indexes, eligible' \in SUBSET Indexes,
           Honest(r.heads),
           chainOf[Cloud] # Here => chosen' # Cloud /\ Cloud \notin eligible' /\ Avoids(r)
    PROVE  SourceInv'
<1>1. reads' = [reads EXCEPT ![q] = r] /\ reads' \in [Reads -> ReadState]
  BY DEF ReadSteps, SourceInv, SourceTypeOK
<1>2. SourceTypeOK'
  BY <1>1 DEF SourceInv, SourceTypeOK
<1>3. \A p \in Reads : reads'[p] = r \/ reads'[p] = reads[p]
  BY <1>1 DEF SourceInv, SourceTypeOK
<1>4. (\A p \in Reads : Honest(reads[p].heads))'
  BY <1>3 DEF SourceInv, Honest
<1>5. CloudIsAskedForHere'
  BY <1>3 DEF SourceInv, CloudIsAskedForHere, Avoids
<1> QED BY <1>2, <1>4, <1>5 DEF SourceInv

-----------------------------------------------------------------------------
(* The invariant                                                           *)

\* Before anything was asked.
LEMMA SourceInitInv == SourceInit => SourceInv
<1> SUFFICES ASSUME SourceInit PROVE SourceInv
  OBVIOUS
<1>1. NewRead \in ReadState /\ Honest(NewRead.heads) /\ Avoids(NewRead)
  BY NoHeads DEF NewRead, ReadState, Avoids, NoIndex, Cloud
<1>2. SourceTypeOK
  BY <1>1 DEF SourceInit, SourceTypeOK, Indexes
<1> QED BY <1>1, <1>2 DEF SourceInit, SourceInv, CloudIsAskedForHere, Local, Cloud

\* Each step of a read.
LEMMA BeginInv == ASSUME SourceInv, NEW q \in Reads, Begin(q) PROVE SourceInv'
<1> DEFINE ask   == [reads[q] EXCEPT !.pc = "ask", !.first = chosen, !.steady = Healthy]
           probe == [reads[q] EXCEPT !.pc = "probe", !.probes = TRUE, !.steady = Healthy]
<1>1. reads[q] \in ReadState /\ Honest(reads[q].heads) /\ Healthy \in SUBSET Indexes
  BY DEF SourceInv, SourceTypeOK, Healthy
<1>2. ask \in ReadState /\ ask.heads = reads[q].heads
      /\ ask.first = chosen /\ ask.from = reads[q].from /\ ask.pc = "ask"
  BY <1>1 DEF ReadState, SourceInv, SourceTypeOK
<1>3. probe \in ReadState /\ probe.heads = reads[q].heads
      /\ probe.first = reads[q].first /\ probe.from = reads[q].from /\ probe.pc = "probe"
  BY <1>1 DEF ReadState
<1> HIDE DEF ask, probe
<1>4. ReadSteps(q, ask) \/ ReadSteps(q, probe)
  BY DEF Begin, ask, probe
<1>5. chosen \in Indexes /\ eligible \in SUBSET Indexes
  BY DEF SourceInv, SourceTypeOK
<1>6. chainOf[Cloud] # Here => chosen # Cloud /\ Cloud \notin eligible
                               /\ Avoids(ask) /\ Avoids(probe)
  BY <1>2, <1>3 DEF SourceInv, CloudIsAskedForHere, Avoids
<1>7. UNCHANGED <<chainOf, height, up, chosen, eligible>>
  BY DEF Begin
<1> QED BY <1>1, <1>2, <1>3, <1>4, <1>5, <1>6, <1>7, OneReadMoves

LEMMA ProbeInv ==
    ASSUME SourceInv, NEW q \in Reads, NEW i \in Indexes, Probe(q, i) PROVE SourceInv'
<1> DEFINE grown == [j \in DOMAIN reads[q].heads \cup {i} |->
                        IF j = i THEN HeadOf(i) ELSE reads[q].heads[j]]
           r     == [reads[q] EXCEPT !.heads = grown]
<1>1. reads[q] \in ReadState /\ Honest(reads[q].heads) /\ reads[q].heads \in Heads
  BY DEF SourceInv, SourceTypeOK, ReadState
<1>2. grown \in Heads /\ Honest(grown)
  BY <1>1, HeadsGrow DEF SourceInv
<1>3. ReadSteps(q, r)
  BY DEF Probe
<1> HIDE DEF grown
<1>4. r \in ReadState /\ r.heads = grown
      /\ r.first = reads[q].first /\ r.from = reads[q].from /\ r.pc = reads[q].pc
  BY <1>1, <1>2 DEF ReadState
<1> HIDE DEF r
<1>5. chainOf[Cloud] # Here => chosen # Cloud /\ Cloud \notin eligible /\ Avoids(r)
  BY <1>4 DEF SourceInv, CloudIsAskedForHere, Avoids
<1>6. UNCHANGED <<chainOf, height, up, chosen, eligible>>
      /\ chosen \in Indexes /\ eligible \in SUBSET Indexes
  BY DEF Probe, SourceInv, SourceTypeOK
<1> QED BY <1>2, <1>3, <1>4, <1>5, <1>6, OneReadMoves

LEMMA PickedInv == ASSUME SourceInv, NEW q \in Reads, Picked(q) PROVE SourceInv'
<1> DEFINE r == [reads[q] EXCEPT !.pc = "ask", !.first = chosen']
<1>1. reads[q] \in ReadState /\ Honest(reads[q].heads) /\ reads[q].heads \in Heads
  BY DEF SourceInv, SourceTypeOK, ReadState
<1>2. /\ DOMAIN reads[q].heads = Indexes
      /\ eligible' = {i \in Indexes : reads[q].heads[i] >= 0}
      /\ chosen' = IF reads[q].heads[Cloud] > reads[q].heads[Local] THEN Cloud ELSE Local
      /\ UNCHANGED <<chainOf, height, up>>
      /\ ReadSteps(q, r)
  BY DEF Picked
<1>3. chosen' \in Indexes /\ eligible' \in SUBSET Indexes
  BY <1>2 DEF Indexes
<1>4. r \in ReadState /\ r.heads = reads[q].heads
      /\ r.first = chosen' /\ r.from = reads[q].from /\ r.pc = "ask"
  BY <1>1, <1>3 DEF ReadState
<1> HIDE DEF r
<1>5. chosen' = Cloud => chainOf[Cloud] = Here
  BY <1>1, <1>2, AheadIsHere DEF Cloud, Local
<1>6. Cloud \in eligible' => chainOf[Cloud] = Here
  BY <1>1, <1>2 DEF Honest
<1>7. chainOf[Cloud] # Here => Avoids(r)
  BY <1>4, <1>5 DEF SourceInv, CloudIsAskedForHere, Avoids
<1> QED BY <1>1, <1>2, <1>3, <1>4, <1>5, <1>6, <1>7, OneReadMoves

LEMMA AskFirstInv == ASSUME SourceInv, NEW q \in Reads, AskFirst(q) PROVE SourceInv'
<1> DEFINE served == [reads[q] EXCEPT !.pc = "served", !.from = reads[q].first]
           other  == [reads[q] EXCEPT !.pc = "askOther"]
           failed == [reads[q] EXCEPT !.pc = "failed"]
<1>1. reads[q] \in ReadState /\ Honest(reads[q].heads)
  BY DEF SourceInv, SourceTypeOK
<1>2. served \in ReadState /\ served.heads = reads[q].heads
      /\ served.first = reads[q].first /\ served.from = reads[q].first /\ served.pc = "served"
  BY <1>1 DEF ReadState
<1>3. other \in ReadState /\ other.heads = reads[q].heads
  BY <1>1 DEF ReadState
<1>4. failed \in ReadState /\ failed.heads = reads[q].heads
      /\ failed.first = reads[q].first /\ failed.from = reads[q].from /\ failed.pc = "failed"
  BY <1>1 DEF ReadState
<1> HIDE DEF served, other, failed
<1>5. \/ ReadSteps(q, served)
      \/ ReadSteps(q, other) /\ OtherOf(reads[q].first) \in eligible
      \/ ReadSteps(q, failed)
  BY DEF AskFirst, served, other, failed
<1>6. /\ UNCHANGED <<chainOf, height, up, chosen, eligible>>
      /\ chosen \in Indexes /\ eligible \in SUBSET Indexes
  BY DEF AskFirst, SourceInv, SourceTypeOK
<1>7. chainOf[Cloud] # Here => /\ chosen # Cloud /\ Cloud \notin eligible
                               /\ Avoids(served) /\ Avoids(failed)
                               /\ OtherOf(reads[q].first) = Cloud
  BY <1>2, <1>4 DEF SourceInv, CloudIsAskedForHere, Avoids, OtherOf
<1> QED BY <1>1, <1>2, <1>3, <1>4, <1>5, <1>6, <1>7, OneReadMoves

LEMMA AskOtherInv == ASSUME SourceInv, NEW q \in Reads, AskOther(q) PROVE SourceInv'
<1> DEFINE other  == OtherOf(reads[q].first)
           served == [reads[q] EXCEPT !.pc = "served", !.from = other]
           failed == [reads[q] EXCEPT !.pc = "failed"]
<1>1. reads[q] \in ReadState /\ Honest(reads[q].heads) /\ reads[q].pc = "askOther"
  BY DEF SourceInv, SourceTypeOK, AskOther
<1>2. other \in Indexes
  BY DEF OtherOf, Indexes
<1>3. served \in ReadState /\ served.heads = reads[q].heads
  BY <1>1, <1>2 DEF ReadState
<1>4. failed \in ReadState /\ failed.heads = reads[q].heads
  BY <1>1 DEF ReadState
<1>5. /\ UNCHANGED <<chainOf, height, up, eligible>>
      /\ \/ ReadSteps(q, served) /\ chosen' = other
         \/ ReadSteps(q, failed) /\ chosen' = chosen
  BY DEF AskOther
<1> HIDE DEF served, failed, other
<1>6. chosen \in Indexes /\ eligible \in SUBSET Indexes
  BY DEF SourceInv, SourceTypeOK
<1>7. chainOf[Cloud] = Here
  BY <1>1 DEF SourceInv, CloudIsAskedForHere, Avoids
<1> QED BY <1>1, <1>2, <1>3, <1>4, <1>5, <1>6, <1>7, OneReadMoves

\* An index goes down: every read forgets that it was steady.
LEMMA GoDownInv == ASSUME SourceInv, NEW i \in Indexes, GoDown(i) PROVE SourceInv'
<1>1. \A q \in Reads : /\ reads[q] \in ReadState /\ Honest(reads[q].heads)
                       /\ reads'[q] = [reads[q] EXCEPT !.steady = @ \ {i}]
  BY DEF GoDown, SourceInv, SourceTypeOK
<1>2. \A q \in Reads : /\ reads'[q] \in ReadState
                       /\ reads'[q].heads = reads[q].heads
                       /\ reads'[q].first = reads[q].first
                       /\ reads'[q].from = reads[q].from
                       /\ reads'[q].pc = reads[q].pc
  <2> TAKE q \in Reads
  <2> DEFINE r == reads[q]
             w == [r EXCEPT !.steady = @ \ {i}]
  <2>1. r \in ReadState /\ reads'[q] = w
    BY <1>1
  <2> HIDE DEF r
  <2>2. r.steady \ {i} \in SUBSET Indexes
    BY <2>1 DEF ReadState
  <2>3. /\ w \in ReadState /\ w.heads = r.heads /\ w.first = r.first
        /\ w.from = r.from /\ w.pc = r.pc
    BY <2>1, <2>2 DEF ReadState
  <2> QED BY <2>1, <2>3 DEF r
<1>3. reads' = [q \in Reads |-> reads'[q]] /\ reads' \in [Reads -> ReadState]
  BY <1>2 DEF GoDown
<1>4. SourceTypeOK' /\ UNCHANGED <<chainOf, chosen, eligible>>
  BY <1>3 DEF GoDown, SourceInv, SourceTypeOK
<1>5. (\A q \in Reads : Honest(reads[q].heads))'
  BY <1>1, <1>2, <1>4 DEF Honest
<1>6. CloudIsAskedForHere'
  BY <1>2, <1>4 DEF SourceInv, CloudIsAskedForHere, Avoids
<1> QED BY <1>4, <1>5, <1>6 DEF SourceInv

\* Steps no read takes part in.
LEMMA RestInv ==
    ASSUME SourceInv,
           \/ \E i \in Indexes : ComeUp(i) \/ Advance(i)
           \/ Minute
           \/ UNCHANGED sourceVars
    PROVE  SourceInv'
<1>1. UNCHANGED <<chainOf, chosen, eligible, reads>>
  BY DEF ComeUp, Advance, Minute, sourceVars
<1>2. (up' \in SUBSET Indexes /\ height' \in [Indexes -> Nat])
  <2>1. ASSUME NEW i \in Indexes, ComeUp(i)
        PROVE  up' \in SUBSET Indexes /\ height' \in [Indexes -> Nat]
    BY <2>1 DEF ComeUp, SourceInv, SourceTypeOK
  <2>2. ASSUME NEW i \in Indexes, Advance(i)
        PROVE  up' \in SUBSET Indexes /\ height' \in [Indexes -> Nat]
    BY <2>2 DEF Advance, SourceInv, SourceTypeOK
  <2>3. Minute \/ UNCHANGED sourceVars
        => up' \in SUBSET Indexes /\ height' \in [Indexes -> Nat]
    BY DEF Minute, sourceVars, SourceInv, SourceTypeOK
  <2> QED BY <2>1, <2>2, <2>3
<1> QED BY <1>1, <1>2 DEF SourceInv, SourceTypeOK, CloudIsAskedForHere, Avoids, Honest

LEMMA SourceNextInv == SourceInv /\ [SourceNext]_sourceVars => SourceInv'
BY BeginInv, ProbeInv, PickedInv, AskFirstInv, AskOtherInv, GoDownInv, RestInv
   DEF SourceNext

\* The cloud index never answers for another chain, however many reads share
\* `chosen` and `eligible`, and whatever goes down meanwhile.
THEOREM CloudServesThisChainHolds == SourceSpec => []CloudServesThisChain
<1>1. SourceInv => CloudServesThisChain
  BY DEF SourceInv, CloudIsAskedForHere, Avoids, CloudServesThisChain
<1> QED BY <1>1, SourceInitInv, SourceNextInv, PTL DEF SourceSpec

-----------------------------------------------------------------------------
(* One healthy index is enough                                             *)

Probing(q) == reads[q].pc = "probe"

\* Where a read starts, and that it knows whom to ask once it asks.
ReadsInOrder ==
    \A q \in Reads :
        /\ reads[q].pc = "new" => /\ ~ reads[q].probes /\ reads[q].steady = {}
                                  /\ DOMAIN reads[q].heads = {}
        /\ reads[q].pc \in {"ask", "askOther"} => reads[q].first \in Indexes

\* What is called steady is up and of this chain.
SteadyIsHealthy == \A q \in Reads : reads[q].steady \subseteq Healthy

\* The minute that lets a read probe does not end before its probes do: two
\* reads never probe at once.
OneProber == \A q \in Reads : Probing(q) => checked /\ \A p \in Reads : Probing(p) => p = q

\* An index steady since the read q began to check has been seen by whatever
\* check was made since, is eligible, and is not the one that failed to answer.
SeenBy(q, i) ==
    /\ \A p \in Reads : (Probing(p) /\ i \in DOMAIN reads[p].heads) => reads[p].heads[i] >= 0
    /\ ~ Probing(q) => i \in eligible
    /\ reads[q].pc = "askOther" => reads[q].first # i
    /\ reads[q].pc # "failed"

SteadyIsSeen == \A q \in Reads : reads[q].probes => \A i \in reads[q].steady : SeenBy(q, i)

\* The inductive invariant of a check, next to SourceInv.
CheckInv == ReadsInOrder /\ SteadyIsHealthy /\ OneProber /\ SteadyIsSeen

LEMMA CheckInitInv == SourceInit => CheckInv
<1> SUFFICES ASSUME SourceInit PROVE CheckInv
  OBVIOUS
<1>1. \A q \in Reads : reads[q].pc = "new" /\ ~ reads[q].probes /\ reads[q].steady = {}
                       /\ DOMAIN reads[q].heads = {}
  BY DEF SourceInit, NewRead
<1> QED BY <1>1 DEF CheckInv, ReadsInOrder, SteadyIsHealthy, OneProber, SteadyIsSeen, Probing

\* A step of one read.
LEMMA ReadMoves ==
    ASSUME SourceTypeOK, NEW q \in Reads, NEW r, ReadSteps(q, r)
    PROVE  reads'[q] = r /\ \A p \in Reads : p # q => reads'[p] = reads[p]
BY DEF SourceTypeOK, ReadSteps

LEMMA BeginCheck == ASSUME SourceInv, CheckInv, NEW q \in Reads, Begin(q) PROVE CheckInv'
<1> DEFINE ask   == [reads[q] EXCEPT !.pc = "ask", !.first = chosen, !.steady = Healthy]
           probe == [reads[q] EXCEPT !.pc = "probe", !.probes = TRUE, !.steady = Healthy]
<1>1. /\ SourceTypeOK /\ reads[q] \in ReadState /\ chosen \in Indexes /\ reads[q].pc = "new"
      /\ ~ reads[q].probes /\ DOMAIN reads[q].heads = {}
  BY DEF SourceInv, SourceTypeOK, Begin, CheckInv, ReadsInOrder
<1>2. /\ ask.pc = "ask" /\ ask.first = chosen /\ ~ ask.probes /\ ask.steady = Healthy
      /\ probe.pc = "probe" /\ probe.steady = Healthy /\ DOMAIN probe.heads = {}
  BY <1>1 DEF ReadState
<1>3. /\ checked' /\ UNCHANGED <<eligible, up, chainOf>> /\ Healthy' = Healthy
      /\ \/ checked /\ ReadSteps(q, ask)
         \/ ~ checked /\ ReadSteps(q, probe)
  BY DEF Begin, Healthy
<1> HIDE DEF ask, probe
<1>4. CASE checked /\ ReadSteps(q, ask)
  <2>1. reads'[q] = ask /\ \A p \in Reads : p # q => reads'[p] = reads[p]
    BY <1>1, <1>4, ReadMoves
  <2>2. \A p \in Reads : Probing(p)' <=> Probing(p)
    BY <1>1, <1>2, <2>1 DEF Probing
  <2>3. ReadsInOrder' /\ SteadyIsHealthy'
    BY <1>1, <1>2, <1>3, <2>1 DEF CheckInv, ReadsInOrder, SteadyIsHealthy
  <2>4. OneProber'
    BY <1>3, <2>2 DEF CheckInv, OneProber
  <2>5. SteadyIsSeen'
    <3> SUFFICES ASSUME NEW p \in Reads, reads'[p].probes, NEW i \in reads'[p].steady
                 PROVE  SeenBy(p, i)'
      BY DEF SteadyIsSeen
    <3>1. p # q
      BY <1>2, <2>1
    <3>2. reads'[p] = reads[p] /\ SeenBy(p, i)
      BY <2>1, <3>1 DEF CheckInv, SteadyIsSeen
    <3>3. \A o \in Reads : Probing(o) => o # q
      BY <1>1 DEF Probing
    <3> QED BY <1>3, <2>1, <2>2, <3>2, <3>3 DEF SeenBy
  <2> QED BY <2>3, <2>4, <2>5 DEF CheckInv
<1>5. CASE ~ checked /\ ReadSteps(q, probe)
  <2>1. reads'[q] = probe /\ \A p \in Reads : p # q => reads'[p] = reads[p]
    BY <1>1, <1>5, ReadMoves
  <2>2. \A p \in Reads : ~ Probing(p)
    BY <1>5 DEF CheckInv, OneProber
  <2>3. \A p \in Reads : Probing(p)' <=> p = q
    BY <1>2, <2>1, <2>2 DEF Probing
  <2>4. ReadsInOrder' /\ SteadyIsHealthy'
    BY <1>1, <1>2, <1>3, <2>1 DEF CheckInv, ReadsInOrder, SteadyIsHealthy
  <2>5. OneProber'
    BY <1>3, <2>3 DEF OneProber
  <2>6. SteadyIsSeen'
    <3> SUFFICES ASSUME NEW p \in Reads, reads'[p].probes, NEW i \in reads'[p].steady
                 PROVE  SeenBy(p, i)'
      BY DEF SteadyIsSeen
    <3>1. \A o \in Reads : Probing(o)' => DOMAIN reads'[o].heads = {}
      BY <1>2, <2>1, <2>3
    <3>2. CASE p = q
      BY <1>2, <2>1, <2>3, <3>1, <3>2 DEF SeenBy
    <3>3. CASE p # q
      <4>1. reads'[p] = reads[p] /\ SeenBy(p, i) /\ ~ Probing(p)
        BY <2>1, <2>2, <3>3 DEF CheckInv, SteadyIsSeen
      <4> QED BY <1>3, <3>1, <4>1 DEF SeenBy
    <3> QED BY <3>2, <3>3
  <2> QED BY <2>4, <2>5, <2>6 DEF CheckInv
<1> QED BY <1>3, <1>4, <1>5

LEMMA ProbeCheck ==
    ASSUME SourceInv, CheckInv, NEW q \in Reads, NEW i \in Indexes, Probe(q, i) PROVE CheckInv'
<1> DEFINE grown == [j \in DOMAIN reads[q].heads \cup {i} |->
                        IF j = i THEN HeadOf(i) ELSE reads[q].heads[j]]
           r     == [reads[q] EXCEPT !.heads = grown]
<1>1. SourceTypeOK /\ reads[q] \in ReadState /\ reads[q].pc = "probe" /\ ReadSteps(q, r)
  BY DEF SourceInv, SourceTypeOK, Probe
<1>2. /\ DOMAIN grown = DOMAIN reads[q].heads \cup {i} /\ grown[i] = HeadOf(i)
      /\ \A j \in DOMAIN reads[q].heads : j # i => grown[j] = reads[q].heads[j]
  OBVIOUS
<1> HIDE DEF grown
<1>3. /\ r.pc = "probe" /\ r.heads = grown /\ r.steady = reads[q].steady
      /\ r.probes = reads[q].probes /\ r.first = reads[q].first
  BY <1>1 DEF ReadState
<1> HIDE DEF r
<1>4. reads'[q] = r /\ \A p \in Reads : p # q => reads'[p] = reads[p]
  BY <1>1, ReadMoves
<1>5. UNCHANGED <<eligible, checked, up, chainOf, height>> /\ Healthy' = Healthy
  BY DEF Probe, Healthy
<1>6. \A p \in Reads : /\ Probing(p)' <=> Probing(p)
                       /\ Probing(p) => p = q
                       /\ reads'[p].pc = reads[p].pc /\ reads'[p].steady = reads[p].steady
                       /\ reads'[p].probes = reads[p].probes /\ reads'[p].first = reads[p].first
  BY <1>1, <1>3, <1>4 DEF Probing, CheckInv, OneProber
<1>7. ReadsInOrder' /\ SteadyIsHealthy'
  BY <1>1, <1>3, <1>4, <1>5, <1>6 DEF CheckInv, ReadsInOrder, SteadyIsHealthy
<1>8. OneProber'
  BY <1>5, <1>6 DEF CheckInv, OneProber
<1>9. SteadyIsSeen'
  <2> SUFFICES ASSUME NEW p \in Reads, reads'[p].probes, NEW j \in reads'[p].steady
               PROVE  SeenBy(p, j)'
    BY DEF SteadyIsSeen
  <2>1. SeenBy(p, j) /\ j \in up /\ chainOf[j] = Here
    BY <1>6 DEF CheckInv, SteadyIsSeen, SteadyIsHealthy, Healthy
  <2>2. j = i => HeadOf(i) >= 0
    BY <1>1, <2>1 DEF HeadOf, SourceTypeOK
  <2>3. j \in DOMAIN grown => grown[j] >= 0
    BY <1>1, <1>2, <2>1, <2>2 DEF SeenBy, Probing
  <2>4. \A o \in Reads : (Probing(o)' /\ j \in DOMAIN reads'[o].heads) => reads'[o].heads[j] >= 0
    BY <1>3, <1>4, <1>6, <2>3
  <2> QED BY <1>5, <1>6, <2>1, <2>4 DEF SeenBy
<1> QED BY <1>7, <1>8, <1>9 DEF CheckInv

LEMMA PickedCheck == ASSUME SourceInv, CheckInv, NEW q \in Reads, Picked(q) PROVE CheckInv'
<1> DEFINE r == [reads[q] EXCEPT !.pc = "ask", !.first = chosen']
<1>1. /\ SourceTypeOK /\ reads[q] \in ReadState /\ reads[q].pc = "probe"
      /\ DOMAIN reads[q].heads = Indexes /\ ReadSteps(q, r)
      /\ eligible' = {i \in Indexes : reads[q].heads[i] >= 0}
      /\ chosen' \in Indexes
      /\ UNCHANGED <<up, chainOf, checked>> /\ Healthy' = Healthy
  BY DEF SourceInv, SourceTypeOK, Picked, Healthy, Indexes
<1>2. /\ r.pc = "ask" /\ r.first = chosen' /\ r.heads = reads[q].heads
      /\ r.steady = reads[q].steady /\ r.probes = reads[q].probes
  BY <1>1 DEF ReadState
<1> HIDE DEF r
<1>3. reads'[q] = r /\ \A p \in Reads : p # q => reads'[p] = reads[p]
  BY <1>1, ReadMoves
<1>4. \A p \in Reads : ~ Probing(p)'
  BY <1>1, <1>2, <1>3 DEF Probing, CheckInv, OneProber
<1>5. ReadsInOrder' /\ SteadyIsHealthy' /\ OneProber'
  BY <1>1, <1>2, <1>3, <1>4 DEF CheckInv, ReadsInOrder, SteadyIsHealthy, OneProber
<1>6. SteadyIsSeen'
  <2> SUFFICES ASSUME NEW p \in Reads, reads'[p].probes, NEW i \in reads'[p].steady
               PROVE  SeenBy(p, i)'
    BY DEF SteadyIsSeen
  <2>1. reads[p].probes /\ i \in reads[p].steady
    BY <1>2, <1>3
  <2>2. SeenBy(p, i) /\ i \in Indexes
    BY <1>1, <2>1 DEF CheckInv, SteadyIsSeen, SteadyIsHealthy, Healthy, SourceTypeOK
  <2>3. i \in eligible'
    BY <1>1, <2>2 DEF SeenBy, Probing
  <2> QED BY <1>2, <1>3, <1>4, <2>2, <2>3 DEF SeenBy
<1> QED BY <1>5, <1>6 DEF CheckInv

\* A read goes on from asking: it is not probing before nor after.
LEMMA AskingCheck ==
    ASSUME SourceInv, CheckInv, NEW q \in Reads, NEW r, ReadSteps(q, r),
           reads[q].pc \in {"ask", "askOther"}, r.pc \in {"askOther", "served", "failed"},
           r.first = reads[q].first, r.steady = reads[q].steady, r.probes = reads[q].probes,
           UNCHANGED <<up, chainOf, eligible>>, checked => checked',
           r.pc = "askOther" => r.first \notin r.steady,
           r.probes /\ r.pc = "failed" => r.steady = {}
    PROVE  CheckInv'
<1>1. reads'[q] = r /\ \A p \in Reads : p # q => reads'[p] = reads[p]
  BY ReadMoves DEF SourceInv
<1>2. Healthy' = Healthy
  BY DEF Healthy
<1>3. \A p \in Reads : /\ Probing(p)' <=> Probing(p)
                       /\ Probing(p) => reads'[p] = reads[p]
                       /\ reads'[p].steady = reads[p].steady /\ reads'[p].probes = reads[p].probes
  BY <1>1 DEF Probing
<1>4. ReadsInOrder' /\ SteadyIsHealthy'
  BY <1>1, <1>2 DEF CheckInv, ReadsInOrder, SteadyIsHealthy
<1>5. OneProber'
  BY <1>3 DEF CheckInv, OneProber
<1>6. SteadyIsSeen'
  <2> SUFFICES ASSUME NEW p \in Reads, reads'[p].probes, NEW i \in reads'[p].steady
               PROVE  SeenBy(p, i)'
    BY DEF SteadyIsSeen
  <2>1. SeenBy(p, i)
    BY <1>3 DEF CheckInv, SteadyIsSeen
  <2>2. CASE p # q
    BY <1>1, <1>3, <2>1, <2>2 DEF SeenBy
  <2>3. CASE p = q
    <3>1. /\ reads'[p].pc = "askOther" => reads'[p].first # i
          /\ reads'[p].pc # "failed"
      BY <1>1, <2>3
    <3>2. i \in eligible'
      BY <2>1, <2>3 DEF SeenBy, Probing
    <3> QED BY <1>3, <2>1, <3>1, <3>2 DEF SeenBy
  <2> QED BY <2>2, <2>3
<1> QED BY <1>4, <1>5, <1>6 DEF CheckInv

LEMMA AskFirstCheck == ASSUME SourceInv, CheckInv, NEW q \in Reads, AskFirst(q) PROVE CheckInv'
<1> DEFINE first  == reads[q].first
           served == [reads[q] EXCEPT !.pc = "served", !.from = first]
           other  == [reads[q] EXCEPT !.pc = "askOther"]
           failed == [reads[q] EXCEPT !.pc = "failed"]
<1>1. /\ SourceTypeOK /\ reads[q] \in ReadState /\ reads[q].pc = "ask" /\ first \in Indexes
      /\ reads[q].steady \subseteq up \cap Indexes
  BY DEF SourceInv, SourceTypeOK, AskFirst, CheckInv, ReadsInOrder, SteadyIsHealthy, Healthy
<1>2. \A r \in {served, other, failed} :
         r.first = first /\ r.steady = reads[q].steady /\ r.probes = reads[q].probes
  BY <1>1 DEF ReadState
<1>3. served.pc = "served" /\ other.pc = "askOther" /\ failed.pc = "failed"
  BY <1>1 DEF ReadState
<1>4. \/ ReadSteps(q, served)
      \/ first \notin up /\ ReadSteps(q, other)
      \/ first \notin up /\ OtherOf(first) \notin eligible /\ ReadSteps(q, failed)
  BY DEF AskFirst
<1>5. UNCHANGED <<up, chainOf, eligible, checked>>
  BY DEF AskFirst
<1>6. first \notin up /\ OtherOf(first) \notin eligible /\ reads[q].probes => reads[q].steady = {}
  <2> SUFFICES ASSUME first \notin up, OtherOf(first) \notin eligible, reads[q].probes,
                      NEW i \in reads[q].steady
               PROVE  FALSE
    OBVIOUS
  <2>1. i \in up /\ i \in Indexes /\ i \in eligible
    BY <1>1 DEF CheckInv, SteadyIsSeen, SeenBy, Probing
  <2>2. i = first \/ i = OtherOf(first)
    BY <1>1, <2>1 DEF Indexes, OtherOf
  <2> QED BY <2>1, <2>2
<1> HIDE DEF first, served, other, failed
<1> USE DEF first
<1>7. CASE ReadSteps(q, served)
  BY <1>1, <1>2, <1>3, <1>5, <1>7, AskingCheck
<1>8. CASE first \notin up /\ ReadSteps(q, other)
  <2>1. other.first \notin other.steady
    BY <1>1, <1>2, <1>8
  <2> QED BY <1>1, <1>2, <1>3, <1>5, <1>8, <2>1, AskingCheck
<1>9. CASE first \notin up /\ OtherOf(first) \notin eligible /\ ReadSteps(q, failed)
  <2>1. failed.probes => failed.steady = {}
    BY <1>2, <1>6, <1>9
  <2> QED BY <1>1, <1>2, <1>3, <1>5, <1>9, <2>1, AskingCheck
<1> QED BY <1>4, <1>7, <1>8, <1>9

LEMMA AskOtherCheck == ASSUME SourceInv, CheckInv, NEW q \in Reads, AskOther(q) PROVE CheckInv'
<1> DEFINE first  == reads[q].first
           served == [reads[q] EXCEPT !.pc = "served", !.from = OtherOf(first)]
           failed == [reads[q] EXCEPT !.pc = "failed"]
<1>1. /\ SourceTypeOK /\ reads[q] \in ReadState /\ reads[q].pc = "askOther" /\ first \in Indexes
      /\ reads[q].steady \subseteq up \cap Indexes
  BY DEF SourceInv, SourceTypeOK, AskOther, CheckInv, ReadsInOrder, SteadyIsHealthy, Healthy
<1>2. \A r \in {served, failed} :
         r.first = first /\ r.steady = reads[q].steady /\ r.probes = reads[q].probes
  BY <1>1 DEF ReadState
<1>3. served.pc = "served" /\ failed.pc = "failed"
  BY <1>1 DEF ReadState
<1>4. \/ ReadSteps(q, served)
      \/ OtherOf(first) \notin up /\ ReadSteps(q, failed)
  BY DEF AskOther
<1>5. UNCHANGED <<up, chainOf, eligible>> /\ (checked => checked')
  BY DEF AskOther
<1>6. OtherOf(first) \notin up /\ reads[q].probes => reads[q].steady = {}
  <2> SUFFICES ASSUME OtherOf(first) \notin up, reads[q].probes, NEW i \in reads[q].steady
               PROVE  FALSE
    OBVIOUS
  <2>1. i \in up /\ i \in Indexes /\ i # first
    BY <1>1 DEF CheckInv, SteadyIsSeen, SeenBy
  <2>2. i = OtherOf(first)
    BY <1>1, <2>1 DEF Indexes, OtherOf
  <2> QED BY <2>1, <2>2
<1> HIDE DEF served, failed
<1>7. CASE ReadSteps(q, served)
  BY <1>1, <1>2, <1>3, <1>5, <1>7, AskingCheck
<1>8. CASE OtherOf(first) \notin up /\ ReadSteps(q, failed)
  <2>1. failed.probes => failed.steady = {}
    BY <1>2, <1>6, <1>8
  <2> QED BY <1>1, <1>2, <1>3, <1>5, <1>8, <2>1, AskingCheck
<1> QED BY <1>4, <1>7, <1>8

\* An index goes down: it is steady for no read any more.
LEMMA GoDownCheck == ASSUME SourceInv, CheckInv, NEW i \in Indexes, GoDown(i) PROVE CheckInv'
<1>1. \A q \in Reads :
         /\ reads'[q].pc = reads[q].pc /\ reads'[q].probes = reads[q].probes
         /\ reads'[q].heads = reads[q].heads /\ reads'[q].first = reads[q].first
         /\ reads'[q].steady = reads[q].steady \ {i}
  <2> TAKE q \in Reads
  <2>1. reads[q] \in ReadState /\ reads'[q] = [reads[q] EXCEPT !.steady = @ \ {i}]
    BY DEF SourceInv, SourceTypeOK, GoDown
  <2> QED BY <2>1 DEF ReadState
<1>2. UNCHANGED <<chainOf, eligible, checked>> /\ Healthy' = Healthy \ {i}
  BY DEF GoDown, Healthy
<1>3. \A q \in Reads : Probing(q)' <=> Probing(q)
  BY <1>1 DEF Probing
<1>4. ReadsInOrder' /\ SteadyIsHealthy' /\ OneProber'
  BY <1>1, <1>2, <1>3 DEF CheckInv, ReadsInOrder, SteadyIsHealthy, OneProber
<1>5. SteadyIsSeen'
  BY <1>1, <1>2, <1>3 DEF CheckInv, SteadyIsSeen, SeenBy
<1> QED BY <1>4, <1>5 DEF CheckInv

\* Steps no read takes part in: the minute passes when none is probing.
LEMMA RestCheck ==
    ASSUME SourceInv, CheckInv,
           \/ \E i \in Indexes : ComeUp(i) \/ Advance(i)
           \/ Minute
           \/ UNCHANGED sourceVars
    PROVE  CheckInv'
<1>1. UNCHANGED <<chainOf, eligible, reads>> /\ up \subseteq up'
  BY DEF ComeUp, Advance, Minute, sourceVars
<1>2. Healthy \subseteq Healthy'
  BY <1>1 DEF Healthy
<1>3. checked' = checked \/ \A q \in Reads : ~ Probing(q)
  BY DEF ComeUp, Advance, Minute, sourceVars, Probing
<1>4. \A q \in Reads : Probing(q)' <=> Probing(q)
  BY <1>1 DEF Probing
<1>5. ReadsInOrder' /\ SteadyIsHealthy' /\ OneProber'
  BY <1>1, <1>2, <1>3, <1>4 DEF CheckInv, ReadsInOrder, SteadyIsHealthy, OneProber
<1>6. SteadyIsSeen'
  BY <1>1, <1>4 DEF CheckInv, SteadyIsSeen, SeenBy
<1> QED BY <1>5, <1>6 DEF CheckInv

LEMMA CheckNextInv == SourceInv /\ CheckInv /\ [SourceNext]_sourceVars => CheckInv'
BY BeginCheck, ProbeCheck, PickedCheck, AskFirstCheck, AskOtherCheck, GoDownCheck, RestCheck
   DEF SourceNext

\* A read that did its own check fails only if no index of this chain stayed up
\* while it ran, however many reads check, choose and fail over meanwhile.
THEOREM OneHealthyIndexIsEnoughHolds == SourceSpec => []OneHealthyIndexIsEnough
<1>1. CheckInv => OneHealthyIndexIsEnough
  <2> SUFFICES ASSUME CheckInv, NEW q \in Reads, reads[q].probes, reads[q].pc = "failed",
                      NEW i \in reads[q].steady
               PROVE  FALSE
    BY DEF OneHealthyIndexIsEnough
  <2> QED BY DEF CheckInv, SteadyIsSeen, SeenBy
<1> QED BY <1>1, SourceInitInv, SourceNextInv, CheckInitInv, CheckNextInv, PTL DEF SourceSpec

-----------------------------------------------------------------------------
(* ReceiptStore: what is served under a receipt hash                       *)

\* A row of scans is the node's own receipt for the payload it is kept under.
OwnRow(h) ==
    /\ own[h] \in [jws : {SignReceipt(h, NodeKey)}, anchored : BOOLEAN]
    /\ h.attestor = NodeKey
    /\ h.id = ToolId(h.tool)

\* A row of external_receipts verifies; one in the node's name is a copy of a
\* receipt the node signed.
ExternalRow(h) ==
    /\ external[h].payload = h
    /\ external[h].key = h.attestor
    /\ h.id = ToolId(h.tool)
    /\ h.attestor = NodeKey => h \in DOMAIN own

\* The inductive invariant.
StoreInv ==
    /\ own = [h \in DOMAIN own |-> own[h]]
    /\ \A h \in DOMAIN own : OwnRow(h)
    /\ \A h \in DOMAIN external : ExternalRow(h)

-----------------------------------------------------------------------------

LEMMA StoreInitInv == StoreInit => StoreInv
BY DEF StoreInit, StoreInv

\* Whose receipt a signed payload is.
LEMMA SignedPayload ==
    ASSUME NEW tool, NEW content
    PROVE  /\ Payload(tool, content, NodeKey).attestor = NodeKey
           /\ Payload(tool, content, NodeKey).id = ToolId(Payload(tool, content, NodeKey).tool)
BY DEF Payload

LEMMA PostScanKeeps ==
    ASSUME StoreInv, NEW tool, NEW content, PostScan(tool, content)
    PROVE  /\ StoreInv' /\ external' = external
           /\ DOMAIN own \subseteq DOMAIN own'
           /\ \A h \in DOMAIN own : own'[h] = own[h]
           /\ \A h \in DOMAIN own' : h \in DOMAIN own \/ h.attestor = NodeKey
<1> DEFINE h == Payload(tool, content, NodeKey)
           row == [jws |-> SignReceipt(h, NodeKey), anchored |-> FALSE]
<1>1. /\ own' = IF h \in DOMAIN own THEN own ELSE With(own, h, row)
      /\ external' = external
  BY DEF PostScan
<1>2. h.attestor = NodeKey /\ h.id = ToolId(h.tool)
  BY SignedPayload
<1>3. row \in [jws : {SignReceipt(h, NodeKey)}, anchored : BOOLEAN]
  OBVIOUS
<1> HIDE DEF h, row
<1>4. CASE h \in DOMAIN own
  <2>1. own' = own
    BY <1>1, <1>4
  <2> QED BY <1>1, <2>1 DEF StoreInv, OwnRow, ExternalRow
<1>5. CASE h \notin DOMAIN own
  <2>1. /\ own' = With(own, h, row)
        /\ DOMAIN own' = DOMAIN own \cup {h}
        /\ own'[h] = row
        /\ \A k \in DOMAIN own : own'[k] = own[k]
        /\ own' = [k \in DOMAIN own' |-> own'[k]]
    <3>1. own' = With(own, h, row)
      BY <1>1, <1>5
    <3>2. DOMAIN own' = DOMAIN own \cup {h} /\ own'[h] = row
      BY <3>1 DEF With
    <3>3. \A k \in DOMAIN own : own'[k] = own[k]
      BY <1>5, <3>1 DEF With
    <3>4. own' = [k \in DOMAIN own' |-> own'[k]]
      BY <3>1 DEF With
    <3> QED BY <3>1, <3>2, <3>3, <3>4
  <2>2. \A k \in DOMAIN own' : OwnRow(k)'
    BY <1>2, <1>3, <2>1 DEF StoreInv, OwnRow
  <2>3. \A k \in DOMAIN external' : ExternalRow(k)'
    BY <1>1, <2>1 DEF StoreInv, ExternalRow
  <2> QED BY <1>1, <1>2, <2>1, <2>2, <2>3 DEF StoreInv
<1> QED BY <1>4, <1>5

\* A published receipt is another attestor's, or one the node signed.
LEMMA WhoseReceipt ==
    ASSUME StoreInv, NEW jws \in Published \cup {own[h].jws : h \in DOMAIN own}, Accepted(jws)
    PROVE  /\ jws.key = jws.payload.attestor
           /\ jws.payload.id = ToolId(jws.payload.tool)
           /\ jws.payload.attestor = NodeKey => jws.payload \in DOMAIN own
<1>1. jws.key = jws.payload.attestor /\ jws.payload.id = ToolId(jws.payload.tool)
  BY DEF Accepted, VerifyReceipt
<1>2. ASSUME NEW h \in DOMAIN own, jws = own[h].jws
      PROVE  jws.payload \in DOMAIN own
  BY <1>2 DEF StoreInv, OwnRow, SignReceipt
<1> QED BY <1>1, <1>2, NodeKeyAssumption

LEMMA PostReceiptKeeps ==
    ASSUME StoreInv, NEW jws \in Published \cup {own[h].jws : h \in DOMAIN own},
           PostReceipt(jws)
    PROVE  /\ StoreInv' /\ own' = own
           /\ DOMAIN external \subseteq DOMAIN external'
           /\ \A h \in DOMAIN external : external'[h] = external[h]
<1> DEFINE h == jws.payload
<1>1. /\ own' = own
      /\ external' = IF h \in DOMAIN external THEN external ELSE With(external, h, jws)
      /\ Accepted(jws)
  BY DEF PostReceipt
<1>2. jws.key = h.attestor /\ h.id = ToolId(h.tool)
      /\ (h.attestor = NodeKey => h \in DOMAIN own)
  BY <1>1, WhoseReceipt
<1>3. jws.payload = h
  OBVIOUS
<1> HIDE DEF h
<1>4. /\ DOMAIN external' = DOMAIN external \cup {h}
      /\ \A k \in DOMAIN external : external'[k] = external[k]
      /\ h \notin DOMAIN external => external'[h] = jws
  <2>1. CASE h \in DOMAIN external
    BY <1>1, <2>1
  <2>2. CASE h \notin DOMAIN external
    <3>1. external' = With(external, h, jws)
      BY <1>1, <2>2
    <3>2. DOMAIN external' = DOMAIN external \cup {h} /\ external'[h] = jws
      BY <3>1 DEF With
    <3>3. \A k \in DOMAIN external : external'[k] = external[k]
      BY <2>2, <3>1 DEF With
    <3> QED BY <3>2, <3>3
  <2> QED BY <2>1, <2>2
<1>5. \A k \in DOMAIN external' : ExternalRow(k)'
  BY <1>1, <1>2, <1>3, <1>4 DEF StoreInv, ExternalRow
<1> QED BY <1>1, <1>4, <1>5 DEF StoreInv, OwnRow

LEMMA MarkConfirmedKeeps ==
    ASSUME StoreInv, NEW h \in DOMAIN own, MarkConfirmed(h)
    PROVE  /\ StoreInv' /\ external' = external
           /\ DOMAIN own' = DOMAIN own
           /\ \A k \in DOMAIN own : own'[k].jws = own[k].jws
<1>1. /\ own' = [own EXCEPT ![h] = [own[h] EXCEPT !.anchored = TRUE]]
      /\ external' = external
  BY DEF MarkConfirmed
<1>2. own[h] \in [jws : {SignReceipt(h, NodeKey)}, anchored : BOOLEAN]
  BY DEF StoreInv, OwnRow
<1>3. /\ DOMAIN own' = DOMAIN own /\ own' = [k \in DOMAIN own' |-> own'[k]]
      /\ own'[h] \in [jws : {SignReceipt(h, NodeKey)}, anchored : BOOLEAN]
      /\ \A k \in DOMAIN own : k # h => own'[k] = own[k]
  <2> DEFINE row == [own[h] EXCEPT !.anchored = TRUE]
  <2>1. row \in [jws : {SignReceipt(h, NodeKey)}, anchored : BOOLEAN]
    BY <1>2
  <2>2. own' = [own EXCEPT ![h] = row]
    BY <1>1
  <2> HIDE DEF row
  <2>3. DOMAIN own' = DOMAIN own /\ own' = [k \in DOMAIN own' |-> own'[k]]
    BY <2>2
  <2>4. own'[h] = row /\ \A k \in DOMAIN own : k # h => own'[k] = own[k]
    BY <2>2
  <2> QED BY <2>1, <2>3, <2>4
<1>4. \A k \in DOMAIN own' : OwnRow(k)'
  BY <1>3 DEF StoreInv, OwnRow
<1>5. \A k \in DOMAIN external' : ExternalRow(k)'
  BY <1>1, <1>3 DEF StoreInv, ExternalRow
<1>6. \A k \in DOMAIN own : own'[k].jws = own[k].jws
  BY <1>2, <1>3
<1> QED BY <1>1, <1>3, <1>4, <1>5, <1>6 DEF StoreInv

LEMMA RestKeeps ==
    ASSUME StoreInv, NextSecond \/ UNCHANGED storeVars
    PROVE  StoreInv' /\ own' = own /\ external' = external
BY DEF StoreInv, OwnRow, ExternalRow, NextSecond, storeVars

LEMMA StoreNextInv == StoreInv /\ [StoreNext]_storeVars => StoreInv'
BY PostScanKeeps, PostReceiptKeeps, MarkConfirmedKeeps, RestKeeps DEF StoreNext

\* Whatever is served under a hash is the receipt with that hash, signed by the
\* attestor it names and about the tool it names.
THEOREM ServedIsGenuineHolds == StoreSpec => []ServedIsGenuine
<1>1. StoreInv => ServedIsGenuine
  BY DEF StoreInv, OwnRow, ExternalRow, ServedIsGenuine, Served, SignReceipt
<1> QED BY <1>1, StoreInitInv, StoreNextInv, PTL DEF StoreSpec

\* What a step does to the rows that exist: the receipts in them stay, none
\* disappears, and the node signs nothing that is in external_receipts only.
LEMMA RowsStay ==
    ASSUME StoreInv, [StoreNext]_storeVars
    PROVE  /\ DOMAIN own \subseteq DOMAIN own'
           /\ DOMAIN external \subseteq DOMAIN external'
           /\ \A h \in DOMAIN own : own'[h].jws = own[h].jws
           /\ \A h \in DOMAIN external : external'[h] = external[h]
           /\ \A h \in DOMAIN own' : h \in DOMAIN own \/ h.attestor = NodeKey
<1>1. StoreInv'
  BY StoreNextInv
<1> QED BY <1>1, PostScanKeeps, PostReceiptKeeps, MarkConfirmedKeeps, RestKeeps DEF StoreNext

\* Once anything is served under a hash, the same is served for ever.
THEOREM ServedNeverChangesHolds == StoreSpec => ServedNeverChanges
<1>1. StoreInv /\ [StoreNext]_storeVars
      => \A h \in DOMAIN own \cup DOMAIN external : Served(h)' = Served(h)
  <2> SUFFICES ASSUME StoreInv, [StoreNext]_storeVars,
                      NEW h \in DOMAIN own \cup DOMAIN external
               PROVE  Served(h)' = Served(h)
    OBVIOUS
  <2>1. CASE h \in DOMAIN own
    BY <2>1, RowsStay DEF Served
  <2>2. CASE h \in DOMAIN external \ DOMAIN own
    <3>1. h \notin DOMAIN own'
      BY <2>2, RowsStay DEF StoreInv, ExternalRow
    <3> QED BY <2>2, <3>1, RowsStay DEF Served
  <2> QED BY <2>1, <2>2
<1>2. StoreSpec => []StoreInv
  BY StoreInitInv, StoreNextInv, PTL DEF StoreSpec
<1> QED BY <1>1, <1>2, PTL DEF StoreSpec, ServedNeverChanges

-----------------------------------------------------------------------------
(* OperatorRun: what the scripts anchor                                    *)

Careful == {"survey", "capture"}

ScriptAnchor  == [script : Scripts, entry : Entries, seen : Nat, says : Judgement, of : Posting]
AnotherAnchor == [script : {"another"}, says : Judgement, of : Posting]

\* What is known of the entry being worked on: its script may anchor it, and
\* what the API signed for a careful script is what the script made of it.
RunOK ==
    /\ run.pc \in {"ended", "next", "lookup", "scan", "anchor"}
    /\ run.todo \subseteq Entries
    /\ run.pc # "ended" => run.script \in Scripts
    /\ run.pc \in {"lookup", "scan", "anchor"} =>
          run.entry \in Entries /\ MayAnchor(run.script, run.entry)
    /\ run.pc \in {"scan", "anchor"} => run.seen \in 0..Len(chain)
    /\ run.pc = "anchor" =>
          /\ run.signed \in Judgement
          /\ run.script # "seed" => run.signed = LocalScan(run.entry)

\* An anchor of a careful script.
AnchorOK(a) ==
    a.script \in Careful =>
        /\ a.says = LocalScan(a.entry)
        /\ a.says.verdict = VERDICT_CRITICAL => a.entry \in Reviewed

\* The inductive invariant.
OperatorInv ==
    /\ api \in Rules
    /\ chain \in Seq(ScriptAnchor \cup AnotherAnchor)
    /\ RunOK
    /\ \A i \in DOMAIN chain : AnchorOK(chain[i])

-----------------------------------------------------------------------------

LEMMA OperatorInitInv == OperatorInit => OperatorInv
BY DEF OperatorInit, OperatorInv, RunOK, Ended

\* Steps that anchor nothing keep the invariant if they keep RunOK.
LEMMA ChainStays ==
    ASSUME OperatorInv, RunOK', api' \in Rules, chain' = chain
    PROVE  OperatorInv'
BY DEF OperatorInv, AnchorOK, LocalScan

\* Done with an entry.
LEMMA RestOK ==
    ASSUME RunOK, run.pc # "ended", NEW e, run' = Rest(e)
    PROVE  RunOK'
BY DEF RunOK, Rest

LEMMA StartInv == ASSUME OperatorInv, NEW script \in Scripts, Start(script) PROVE OperatorInv'
<1>1. PICK todo \in SUBSET Entries : run' = [script |-> script, pc |-> "next", todo |-> todo]
  BY OperatorAssumption DEF Start
<1>2. RunOK'
  BY <1>1 DEF RunOK
<1> QED BY <1>2, ChainStays DEF Start, OperatorInv

LEMMA PickInv == ASSUME OperatorInv, NEW e \in Entries, Pick(e) PROVE OperatorInv'
<1>1. RunOK /\ run.pc = "next"
  BY DEF Pick, OperatorInv
<1>2. CASE MayAnchor(run.script, e)
  <2>1. run' = [script |-> run.script, todo |-> run.todo, pc |-> "lookup", entry |-> e]
    BY <1>2 DEF Pick
  <2>2. RunOK'
    BY <1>1, <1>2, <2>1 DEF RunOK, MayAnchor, LocalScan
  <2> QED BY <2>2, ChainStays DEF Pick, OperatorInv
<1>3. CASE ~ MayAnchor(run.script, e)
  <2>1. RunOK'
    BY <1>1, <1>3, RestOK DEF Pick
  <2> QED BY <2>1, ChainStays DEF Pick, OperatorInv
<1> QED BY <1>2, <1>3

\* What a lookup leads to: the entry is left alone, or the script has seen the
\* first so many anchors and goes on.
LEMMA Looked ==
    ASSUME Lookup
    PROVE  /\ run.pc = "lookup" /\ UNCHANGED <<api, chain, restarts>>
           /\ \/ run' = Rest(run.entry)
              \/ \E n \in 0..Len(chain) :
                    /\ ~ AlreadyAnchored(run.script, run.entry, n)
                    /\ run' = [script |-> run.script, todo |-> run.todo, pc |-> "scan",
                               entry |-> run.entry, seen |-> n]
BY DEF Lookup

LEMMA LookupInv == ASSUME OperatorInv, Lookup PROVE OperatorInv'
<1>1. RunOK /\ run.pc = "lookup" /\ UNCHANGED <<api, chain, restarts>>
  BY Looked DEF OperatorInv
<1>2. CASE run' = Rest(run.entry)
  BY <1>1, <1>2, RestOK, ChainStays DEF OperatorInv
<1>3. CASE \E n \in 0..Len(chain) :
              run' = [script |-> run.script, todo |-> run.todo, pc |-> "scan",
                      entry |-> run.entry, seen |-> n]
  <2>1. RunOK'
    BY <1>1, <1>3 DEF RunOK, MayAnchor, LocalScan
  <2> QED BY <1>1, <2>1, ChainStays DEF OperatorInv
<1> QED BY <1>2, <1>3, Looked

LEMMA ScanInv == ASSUME OperatorInv, Scan PROVE OperatorInv'
<1>1. RunOK /\ run.pc = "scan" /\ run.entry \in Entries
  BY DEF Scan, OperatorInv, RunOK
<1>2. CASE Agrees
  <2>1. run' = [script |-> run.script, todo |-> run.todo, pc |-> "anchor",
                entry |-> run.entry, seen |-> run.seen, signed |-> ApiSays]
    BY <1>2 DEF Scan
  <2>2. ApiSays \in Judgement
    BY <1>1, OperatorAssumption DEF OperatorInv, ApiSays, Posted, Posting
  <2>3. run.script # "seed" => ApiSays = LocalScan(run.entry)
    BY <1>2 DEF Agrees
  <2>4. RunOK'
    BY <1>1, <2>1, <2>2, <2>3 DEF Scan, RunOK, MayAnchor, LocalScan
  <2> QED BY <2>4, ChainStays DEF Scan, OperatorInv
<1>3. CASE ~ Agrees
  <2>1. RunOK'
    BY <1>1, <1>3, RestOK DEF Scan
  <2> QED BY <2>1, ChainStays DEF Scan, OperatorInv
<1> QED BY <1>2, <1>3

\* The chain with one anchor more.
LEMMA OneAnchorMore ==
    ASSUME OperatorInv, NEW a \in ScriptAnchor \cup AnotherAnchor, chain' = Append(chain, a)
    PROVE  /\ chain' \in Seq(ScriptAnchor \cup AnotherAnchor)
           /\ DOMAIN chain = 1..Len(chain) /\ Len(chain) \in Nat
           /\ DOMAIN chain' = 1..(Len(chain) + 1) /\ Len(chain') = Len(chain) + 1
           /\ \A i \in 1..Len(chain) : chain'[i] = chain[i]
           /\ chain'[Len(chain) + 1] = a
BY AppendProperties, LenProperties DEF OperatorInv

LEMMA ChainGrows ==
    ASSUME OperatorInv, RunOK', api' \in Rules,
           NEW a \in ScriptAnchor \cup AnotherAnchor, AnchorOK(a), chain' = Append(chain, a)
    PROVE  OperatorInv'
<1>1. \A i \in DOMAIN chain' : chain'[i] = a \/ (i \in DOMAIN chain /\ chain'[i] = chain[i])
  BY OneAnchorMore
<1>2. (\A i \in DOMAIN chain : AnchorOK(chain[i]))'
  BY <1>1 DEF OperatorInv, AnchorOK, LocalScan
<1> QED BY <1>2, OneAnchorMore DEF OperatorInv

\* What a script anchors.
LEMMA ScriptAnchors ==
    ASSUME OperatorInv, AnchorSigned
    PROVE  /\ RunOK /\ run.pc = "anchor" /\ run' = Rest(run.entry) /\ api' \in Rules
           /\ \/ chain' = chain
              \/ \E a \in ScriptAnchor :
                    /\ chain' = Append(chain, a) /\ AnchorOK(a)
                    /\ a.script = run.script /\ a.entry = run.entry /\ a.seen = run.seen
<1> DEFINE a == [script |-> run.script, entry |-> run.entry, seen |-> run.seen,
                 says |-> run.signed, of |-> Posted(run.script, run.entry)]
<1>1. RunOK /\ run.pc = "anchor" /\ run' = Rest(run.entry) /\ api' \in Rules
  BY DEF AnchorSigned, OperatorInv
<1>2. run.entry \in Entries /\ run.seen \in Nat
  BY <1>1, LenProperties DEF RunOK, OperatorInv
<1>3. Posted(run.script, run.entry) \in Posting
  BY <1>2, OperatorAssumption DEF Posted
<1>4. a \in ScriptAnchor /\ AnchorOK(a)
  BY <1>1, <1>2, <1>3 DEF RunOK, ScriptAnchor, AnchorOK, MayAnchor, Careful
<1>5. a.script = run.script /\ a.entry = run.entry /\ a.seen = run.seen
  OBVIOUS
<1>6. chain' = chain \/ chain' = Append(chain, a)
  BY DEF AnchorSigned
<1> HIDE DEF a
<1> QED BY <1>1, <1>4, <1>5, <1>6

LEMMA AnchorSignedInv == ASSUME OperatorInv, AnchorSigned PROVE OperatorInv'
<1>1. RunOK /\ run.pc = "anchor" /\ run' = Rest(run.entry) /\ api' \in Rules
  BY ScriptAnchors
<1>2. RunOK'
  BY <1>1, RestOK
<1> QED BY <1>1, <1>2, ScriptAnchors, ChainStays, ChainGrows

\* What another attestor anchors.
LEMMA AnotherAnchored ==
    ASSUME OperatorInv, NEW posting \in Others, NEW rules \in Rules,
           AnotherAnchors(posting, rules)
    PROVE  /\ api' \in Rules /\ run' = run
           /\ \E a \in AnotherAnchor : chain' = Append(chain, a)
<1> DEFINE a == [script |-> "another", of |-> posting,
                 says |-> JudgedUnder[rules][posting.manifest]]
<1>1. posting \in Posting /\ JudgedUnder[rules][posting.manifest] \in Judgement
  BY OperatorAssumption DEF Posting
<1>2. a \in AnotherAnchor
  BY <1>1 DEF AnotherAnchor
<1> QED BY <1>2 DEF AnotherAnchors, OperatorInv

LEMMA AnotherInv ==
    ASSUME OperatorInv, NEW posting \in Others, NEW rules \in Rules,
           AnotherAnchors(posting, rules)
    PROVE  OperatorInv'
<1>1. PICK a \in AnotherAnchor : chain' = Append(chain, a)
  BY AnotherAnchored
<1>2. AnchorOK(a)
  BY DEF AnotherAnchor, AnchorOK, Careful
<1>3. RunOK'
  <2>1. Len(chain) \in Nat /\ Len(chain') = Len(chain) + 1 /\ run' = run
    BY <1>1, OneAnchorMore, AnotherAnchored
  <2> QED BY <2>1 DEF OperatorInv, RunOK, MayAnchor, LocalScan
<1> QED BY <1>1, <1>2, <1>3, AnotherAnchored, ChainGrows

LEMMA OthersInv ==
    ASSUME OperatorInv,
           \/ \E rules \in Rules \ {api} : ApiRestart(rules)
           \/ UNCHANGED operatorVars
    PROVE  OperatorInv'
<1>1. UNCHANGED <<run, chain>> /\ api' \in Rules
  BY DEF OperatorInv, ApiRestart, operatorVars
<1>2. RunOK'
  BY <1>1 DEF OperatorInv, RunOK, MayAnchor, LocalScan
<1> QED BY <1>1, <1>2, ChainStays

LEMMA OperatorNextInv == OperatorInv /\ [OperatorNext]_operatorVars => OperatorInv'
BY StartInv, PickInv, LookupInv, ScanInv, AnchorSignedInv, AnotherInv, OthersInv DEF OperatorNext

\* The survey and anchor-capture never anchor a verdict or a score their own
\* scan of the entry contradicts, whenever the API is restarted, with whatever
\* rules, and whatever the survey reads again.
THEOREM SurveyAnchorsItsReportHolds == OperatorSpec => []SurveyAnchorsItsReport
<1>1. OperatorInv => SurveyAnchorsItsReport
  BY DEF OperatorInv, AnchorOK, Careful, SurveyAnchorsItsReport, By
<1> QED BY <1>1, OperatorInitInv, OperatorNextInv, PTL DEF OperatorSpec

\* Nor a CRITICAL verdict on an entry no human reviewed.
THEOREM CriticalIsReviewedHolds == OperatorSpec => []CriticalIsReviewed
<1>1. OperatorInv => CriticalIsReviewed
  BY DEF OperatorInv, AnchorOK, Careful, CriticalIsReviewed, By
<1> QED BY <1>1, OperatorInitInv, OperatorNextInv, PTL DEF OperatorSpec

-----------------------------------------------------------------------------
(* What a script has seen anchored it leaves alone                         *)

\* The latest of the first n anchors of a tool is the latest of the first m
\* already, if it is among them.
LEMMA LatestEarlier ==
    ASSUME NEW n \in Nat, NEW m \in 0..n, NEW j \in 1..m, NEW t, IsLatest(j, t, n)
    PROVE  IsLatest(j, t, m)
BY DEF IsLatest

\* The inductive invariant, next to OperatorInv: a script that goes on was not
\* shown an anchor that is the latest of its tool and says it all.
LookupWasTrue ==
    run.pc \in {"scan", "anchor"} => ~ AlreadyAnchored(run.script, run.entry, run.seen)

RepeatInv ==
    /\ LookupWasTrue
    /\ RepeatsOnlyBlind

LEMMA RepeatInitInv == OperatorInit => RepeatInv
BY DEF OperatorInit, RepeatInv, LookupWasTrue, RepeatsOnlyBlind, Ended

\* What was seen stays as it was.
LEMMA SeenStays ==
    ASSUME OperatorInv, RepeatInv, run.pc \in {"scan", "anchor"},
           chain' = chain \/ \E a \in ScriptAnchor \cup AnotherAnchor : chain' = Append(chain, a),
           run'.script = run.script, run'.entry = run.entry, run'.seen = run.seen
    PROVE  LookupWasTrue'
<1>1. run.seen \in 0..Len(chain) /\ Len(chain) \in Nat
  BY LenProperties DEF OperatorInv, RunOK
<1>2. ASSUME NEW j \in 1..run.seen,
             IsLatest(j, Own[run.entry].tool, run.seen)', Says(j, run.script, run.entry)'
      PROVE  FALSE
  <2>1. j \in Nat /\ j \in 1..Len(chain)
    BY <1>1
  <2>2. \A k \in 1..run.seen : chain'[k] = chain[k]
    BY <1>1, OneAnchorMore
  <2>3. IsLatest(j, Own[run.entry].tool, run.seen) /\ Says(j, run.script, run.entry)
    BY <1>1, <1>2, <2>1, <2>2 DEF IsLatest, Says, LocalScan
  <2> QED BY <2>3 DEF RepeatInv, LookupWasTrue, AlreadyAnchored
<1> QED BY <1>2 DEF LookupWasTrue, AlreadyAnchored, IsLatest, Says, LocalScan

\* Steps that anchor nothing.
LEMMA NothingRepeated ==
    ASSUME RepeatInv, chain' = chain, LookupWasTrue'
    PROVE  RepeatInv'
BY DEF RepeatInv, RepeatsOnlyBlind, By, IsLatest, Says, LocalScan

\* An anchor more repeats nothing a script saw.
LEMMA AnchorMore ==
    ASSUME OperatorInv, RepeatInv, NEW a \in ScriptAnchor \cup AnotherAnchor,
           chain' = Append(chain, a), LookupWasTrue',
           a.script \in Scripts =>
               /\ a.seen \in 0..Len(chain)
               /\ ~ AlreadyAnchored(a.script, a.entry, a.seen)
    PROVE  RepeatInv'
<1>1. /\ DOMAIN chain = 1..Len(chain) /\ Len(chain) \in Nat
      /\ DOMAIN chain' = 1..(Len(chain) + 1)
      /\ \A i \in 1..Len(chain) : chain'[i] = chain[i]
      /\ chain'[Len(chain) + 1] = a
  BY OneAnchorMore
<1>2. ASSUME NEW i \in DOMAIN chain', chain'[i].script \in Scripts, NEW j \in 1..i - 1,
             IsLatest(j, Own[chain[i].entry].tool, i - 1)',
             Says(j, chain[i].script, chain[i].entry)'
      PROVE  chain'[i].seen < j
  <2>1. i - 1 \in 0..Len(chain) /\ i - 1 \in Nat /\ j \in Nat /\ j \in 1..Len(chain)
    BY <1>1
  <2>2. /\ IsLatest(j, Own[chain'[i].entry].tool, i - 1)
        /\ Says(j, chain'[i].script, chain'[i].entry)
    <3>1. \A k \in 1..i - 1 : chain'[k] = chain[k]
      BY <1>1, <2>1
    <3>2. \A k \in j + 1..i - 1 : k \in 1..i - 1
      BY <2>1
    <3> QED BY <1>2, <3>1, <3>2 DEF IsLatest, Says, LocalScan
  <2>3. CASE i \in 1..Len(chain)
    <3>1. chain'[i] = chain[i]
      BY <1>1, <2>3
    <3> QED BY <1>1, <1>2, <2>2, <2>3, <3>1 DEF RepeatInv, RepeatsOnlyBlind, By
  <2>4. CASE i = Len(chain) + 1
    <3>1. chain'[i] = a /\ i - 1 = Len(chain) /\ a.seen \in 0..Len(chain)
      BY <1>1, <1>2, <2>4
    <3>2. ASSUME j <= a.seen PROVE FALSE
      <4>1. j \in 1..a.seen
        BY <2>1, <3>1, <3>2
      <4>2. IsLatest(j, Own[a.entry].tool, a.seen)
        BY <1>1, <2>2, <3>1, <4>1, LatestEarlier
      <4> QED BY <1>2, <2>2, <3>1, <4>1, <4>2 DEF AlreadyAnchored
    <3> QED BY <2>1, <3>1, <3>2
  <2> QED BY <1>1, <2>3, <2>4
<1>3. RepeatsOnlyBlind'
  BY <1>2 DEF RepeatsOnlyBlind, By
<1> QED BY <1>3 DEF RepeatInv

LEMMA LookupRepeat == ASSUME OperatorInv, RepeatInv, Lookup PROVE RepeatInv'
<1>1. chain' = chain
  BY Looked
<1>2. CASE run' = Rest(run.entry)
  <2>1. run'.pc \in {"ended", "next"}
    BY <1>2 DEF Rest
  <2> QED BY <1>1, <2>1, NothingRepeated DEF LookupWasTrue
<1>3. ASSUME NEW n \in 0..Len(chain), ~ AlreadyAnchored(run.script, run.entry, n),
             run' = [script |-> run.script, todo |-> run.todo, pc |-> "scan",
                     entry |-> run.entry, seen |-> n]
      PROVE  RepeatInv'
  <2>1. run'.script = run.script /\ run'.entry = run.entry /\ run'.seen = n
    BY <1>3
  <2>2. LookupWasTrue'
    BY <1>1, <1>3, <2>1 DEF LookupWasTrue, AlreadyAnchored, IsLatest, Says, LocalScan
  <2> QED BY <1>1, <2>2, NothingRepeated
<1> QED BY <1>2, <1>3, Looked

LEMMA ScanRepeat == ASSUME OperatorInv, RepeatInv, Scan PROVE RepeatInv'
<1>1. chain' = chain /\ run.pc = "scan"
  BY DEF Scan
<1>2. CASE Agrees
  <2>1. run'.script = run.script /\ run'.entry = run.entry /\ run'.seen = run.seen
    BY <1>2 DEF Scan
  <2> QED BY <1>1, <2>1, SeenStays, NothingRepeated
<1>3. CASE ~ Agrees
  <2>1. run'.pc \in {"ended", "next"}
    BY <1>3 DEF Scan, Rest
  <2> QED BY <1>1, <2>1, NothingRepeated DEF LookupWasTrue
<1> QED BY <1>2, <1>3

LEMMA AnchorRepeat == ASSUME OperatorInv, RepeatInv, AnchorSigned PROVE RepeatInv'
<1>1. RunOK /\ run.pc = "anchor" /\ run' = Rest(run.entry)
  BY ScriptAnchors
<1>2. LookupWasTrue'
  BY <1>1 DEF LookupWasTrue, Rest
<1>3. run.seen \in 0..Len(chain) /\ ~ AlreadyAnchored(run.script, run.entry, run.seen)
  BY <1>1 DEF RunOK, RepeatInv, LookupWasTrue
<1>4. ASSUME NEW a \in ScriptAnchor, chain' = Append(chain, a),
             a.script = run.script, a.entry = run.entry, a.seen = run.seen
      PROVE  RepeatInv'
  BY <1>2, <1>3, <1>4, AnchorMore
<1> QED BY <1>2, <1>4, ScriptAnchors, NothingRepeated

LEMMA AnotherRepeat ==
    ASSUME OperatorInv, RepeatInv, NEW posting \in Others, NEW rules \in Rules,
           AnotherAnchors(posting, rules)
    PROVE  RepeatInv'
<1>1. PICK a \in AnotherAnchor : chain' = Append(chain, a)
  BY AnotherAnchored
<1>2. run' = run
  BY AnotherAnchored
<1>3. LookupWasTrue'
  BY <1>1, <1>2, SeenStays DEF LookupWasTrue
<1>4. a.script \notin Scripts
  BY OperatorAssumption DEF AnotherAnchor
<1> QED BY <1>1, <1>3, <1>4, AnchorMore

\* Steps that look nothing up and anchor nothing.
LEMMA OthersRepeat ==
    ASSUME OperatorInv, RepeatInv,
           \/ \E script \in Scripts : Start(script)
           \/ \E e \in Entries : Pick(e)
           \/ \E rules \in Rules \ {api} : ApiRestart(rules)
           \/ UNCHANGED operatorVars
    PROVE  RepeatInv'
<1>1. chain' = chain
  BY DEF Start, Pick, ApiRestart, operatorVars
<1>2. run' = run \/ run'.pc \in {"ended", "next", "lookup"}
  BY DEF Start, Pick, Rest, ApiRestart, operatorVars
<1>3. LookupWasTrue'
  <2>1. CASE run' = run
    BY <1>1, <2>1, SeenStays DEF LookupWasTrue
  <2>2. CASE run'.pc \in {"ended", "next", "lookup"}
    BY <2>2 DEF LookupWasTrue
  <2> QED BY <1>2, <2>1, <2>2
<1> QED BY <1>1, <1>3, NothingRepeated

LEMMA RepeatNextInv == OperatorInv /\ RepeatInv /\ [OperatorNext]_operatorVars => RepeatInv'
BY LookupRepeat, ScanRepeat, AnchorRepeat, AnotherRepeat, OthersRepeat DEF OperatorNext

\* A script anchors nothing for an entry whose latest anchor already says what
\* the script would say, unless the index had not shown it that anchor:
\* whatever the others anchor meanwhile, and whatever the survey reads again.
THEOREM RepeatsOnlyBlindHolds == OperatorSpec => []RepeatsOnlyBlind
<1>1. RepeatInv => RepeatsOnlyBlind
  BY DEF RepeatInv
<1> QED BY <1>1, OperatorInitInv, OperatorNextInv, RepeatInitInv, RepeatNextInv,
           PTL DEF OperatorSpec
=============================================================================
