------------------------- MODULE ScanRegistryProofs -------------------------
(***************************************************************************)
(* Proofs about ScanRegistry, for every set of attestors, tools, keys,     *)
(* signatures and calldata and every counter width.                        *)
(***************************************************************************)
EXTENDS ScanRegistry, FiniteSetTheorems, SequenceTheorems, WellFoundedInduction, TLAPS

-----------------------------------------------------------------------------
(* Facts about indices and batches                                         *)

\* A non-empty set of positions has a largest one.
LEMMA LargestIndex ==
    ASSUME NEW n \in Nat, NEW S \in SUBSET (1..n), S # {}
    PROVE  \E i \in S : \A j \in S : j <= i
<1> DEFINE Below == {k \in 0..n : n - k \in S}
           Less == {ss \in Nat \X Nat : ss[1] < ss[2]}
<1>0. IsWellFoundedOn(Less, Nat)
  BY NatLessThanWellFounded DEF OpToRel
<1>1. Below \subseteq Nat /\ Below # {}
  <2>1. PICK i \in S : TRUE
    OBVIOUS
  <2>2. n - i \in Below
    BY <2>1
  <2>3. Below \subseteq Nat
    OBVIOUS
  <2> HIDE DEF Below
  <2> QED BY <2>2, <2>3
<1>2. PICK m \in Below : \A k \in Below : ~ (<<k, m>> \in Less)
  <2> HIDE DEF Below, Less
  <2> QED BY <1>0, <1>1, WFMin
<1>3. \A k \in Below : m <= k
  <2> TAKE k \in Below
  <2>1. k \in Nat /\ m \in Nat
    OBVIOUS
  <2>2. ~ (<<k, m>> \in Less)
    BY <1>2
  <2>3. ~ (k < m)
    BY <2>1, <2>2
  <2> QED BY <2>1, <2>3
<1>4. n - m \in S /\ m \in 0..n
  OBVIOUS
<1>5. \A j \in S : j <= n - m
  <2> TAKE j \in S
  <2>1. n - j \in Below
    OBVIOUS
  <2>2. m <= n - j
    BY <2>1, <1>3
  <2> QED BY <2>2, <1>4
<1> QED BY <1>4, <1>5

\* A batch is a sequence of calldata.
LEMMA BatchIsSeq ==
    ASSUME NEW scans \in Batches
    PROVE  scans \in Seq(Calldata)
BY WidthAssumption DEF Batches

\* LastWrite names the batch's last write of a tool it writes.
LEMMA LastWriteIsLast ==
    ASSUME NEW scans \in Seq(Calldata), NEW t, Writes(scans, t) # {}
    PROVE  /\ LastWrite(scans, t) \in Writes(scans, t)
           /\ \A j \in Writes(scans, t) : j <= LastWrite(scans, t)
<1>1. Writes(scans, t) \in SUBSET (1..Len(scans)) /\ Len(scans) \in Nat
  BY DEF Writes
<1>2. \E i \in Writes(scans, t) : \A j \in Writes(scans, t) : j <= i
  BY <1>1, LargestIndex
<1> QED BY <1>2 DEF LastWrite

\* A batch writes a tool a finite number of times.
LEMMA WritesCounted ==
    ASSUME NEW scans \in Seq(Calldata), NEW t
    PROVE  Cardinality(Writes(scans, t)) \in Nat
<1>1. IsFiniteSet(1..Len(scans)) /\ Writes(scans, t) \in SUBSET (1..Len(scans))
  BY FS_Interval DEF Writes
<1> QED BY <1>1, FS_Subset, FS_CardinalityType

\* What an accepted element of a batch looks like.
LEMMA AcceptedInput ==
    ASSUME NEW a, NEW sc \in Calldata, Acceptable(a, sc)
    PROVE  /\ sc.toolId \in Tools
           /\ sc.contentHash \in Contents
           /\ sc.verdict \in 0..VERDICT_MAX
           /\ sc.score \in 0..SCORE_MAX
           /\ sc.receiptHash \in Receipts
           /\ [key |-> attestorKey[a], digest |-> AnchorDigest(a, sc)] \in Signatures
BY CalldataAssumption DEF Acceptable, VerifyP256, VERDICT_MAX, SCORE_MAX

\* An anchoring transaction appends one event per element and rewrites nothing.
LEMMA AnchorAppends ==
    ASSUME TypeOK, NEW a \in Attestors, NEW scans \in Seq(Calldata), Anchor(a, scans)
    PROVE  /\ Len(log) \in Nat /\ Len(scans) \in Nat
           /\ Len(log') = Len(log) + Len(scans)
           /\ \A i \in 1..Len(log) : log'[i] = log[i]
           /\ \A k \in 1..Len(scans) :
                 /\ log'[Len(log) + k] = AnchorEvent(a, scans[k])
                 /\ AnchorEvent(a, scans[k]) \in ScanAnchored
           /\ log' \in Seq(ScanAnchored \cup AttestorRegistered)
<1> DEFINE Events == ScanAnchored \cup AttestorRegistered
           new == [i \in 1..Len(scans) |-> AnchorEvent(a, scans[i])]
<1>1. log \in Seq(Events) /\ log' = log \o new
  BY DEF TypeOK, Anchor
<1>2. \A k \in 1..Len(scans) : AnchorEvent(a, scans[k]) \in ScanAnchored
  <2> TAKE k \in 1..Len(scans)
  <2>1. Acceptable(a, scans[k]) /\ scans[k] \in Calldata
    BY DEF Anchor
  <2> QED BY <2>1, AcceptedInput DEF AnchorEvent, ScanAnchored, TypeOK
<1>3. new \in Seq(Events) /\ Len(new) = Len(scans)
  BY <1>2
<1> HIDE DEF new, Events
<1>3a. Len(log) \in Nat /\ Len(new) \in Nat
  BY <1>1, <1>3, LenProperties
<1>4. /\ Len(log \o new) = Len(log) + Len(new)
      /\ log \o new \in Seq(Events)
  BY <1>1, <1>3, ConcatProperties
<1>5. \A i \in 1..(Len(log) + Len(new)) :
         (log \o new)[i] = IF i <= Len(log) THEN log[i] ELSE new[i - Len(log)]
  BY <1>1, <1>3, ConcatProperties
<1>6. \A i \in 1..Len(log) : log'[i] = log[i]
  BY <1>1, <1>3a, <1>5
<1>7. \A k \in 1..Len(scans) : log'[Len(log) + k] = new[k]
  BY <1>1, <1>3, <1>3a, <1>5
<1> QED BY <1>1, <1>2, <1>3, <1>3a, <1>4, <1>6, <1>7 DEF new, Events

-----------------------------------------------------------------------------
(* Type correctness                                                        *)

\* The empty registry is type correct.
LEMMA InitTypeOK == Init => TypeOK
BY WidthAssumption DEF Init, TypeOK, EmptySlot, Attestation, VERDICT_MAX, SCORE_MAX

\* The slot a batch leaves is an attestation.
LEMMA StoredType ==
    ASSUME TypeOK, NEW a \in Attestors, NEW scans \in Seq(Calldata),
           Anchor(a, scans), NEW t \in Tools, Writes(scans, t) # {}
    PROVE  Stored(a, scans, t) \in Attestation
<1> DEFINE sc == scans[LastWrite(scans, t)]
           cnt == (latest[t][a].count + Cardinality(Writes(scans, t))) % CountMod
<1>1. LastWrite(scans, t) \in 1..Len(scans)
  BY LastWriteIsLast DEF Writes
<1>2. sc \in Calldata /\ Acceptable(a, sc)
  BY <1>1 DEF Anchor
<1>3. latest[t][a].count \in Nat
  BY WidthAssumption DEF TypeOK, Attestation
<1>4. cnt \in 0..(CountMod - 1)
  BY <1>3, WritesCounted, WidthAssumption
<1> HIDE DEF cnt
<1>5. Slot(sc, cnt) \in Attestation
  BY <1>2, <1>4, AcceptedInput DEF Slot, Attestation, TypeOK
<1> QED BY <1>5 DEF Stored, cnt

\* An anchoring transaction keeps the types: slots, counters and events.
LEMMA AnchorTypeOK ==
    ASSUME TypeOK, NEW a \in Attestors, NEW scans \in Seq(Calldata), Anchor(a, scans)
    PROVE  TypeOK'
<1>1. latest' \in [Tools -> [Attestors -> Attestation]]
  <2>1. \A t \in Tools : Writes(scans, t) # {} => Stored(a, scans, t) \in Attestation
    BY StoredType
  <2> QED BY <2>1 DEF Anchor, TypeOK
<1>2. toolScanCount' \in [Tools -> 0..(CountMod - 1)]
  <2>1. \A t \in Tools :
          (toolScanCount[t] + Cardinality(Writes(scans, t))) % CountMod \in 0..(CountMod - 1)
    BY WritesCounted, WidthAssumption DEF TypeOK
  <2> QED BY <2>1 DEF Anchor
<1>3. totalAnchors' \in 0..(TotalMod - 1)
  BY WidthAssumption DEF Anchor, TypeOK
<1>4. log' \in Seq(ScanAnchored \cup AttestorRegistered)
  BY AnchorAppends
<1>5. attestorKey' \in [Attestors -> Keys \cup {Zero}] /\ now' \in Nat \ {0}
  BY DEF Anchor, TypeOK
<1> QED BY <1>1, <1>2, <1>3, <1>4, <1>5 DEF TypeOK

\* So does a registration.
LEMMA RegisterTypeOK ==
    ASSUME TypeOK, NEW a \in Attestors, NEW k \in Keys \cup {Zero}, NEW sig,
           RegisterAttestor(a, k, sig)
    PROVE  TypeOK'
<1>1. [event |-> "AttestorRegistered", attestor |-> a, key |-> k] \in AttestorRegistered
  BY DEF RegisterAttestor, AttestorRegistered
<1>2. log' \in Seq(ScanAnchored \cup AttestorRegistered)
  BY <1>1 DEF RegisterAttestor, TypeOK
<1> QED BY <1>2 DEF RegisterAttestor, TypeOK

\* The single anchor and the batch are the same transaction body.
LEMMA NextCases ==
    ASSUME Next
    PROVE  \/ \E a \in Attestors, k \in Keys \cup {Zero}, sig \in Signatures :
                 RegisterAttestor(a, k, sig)
           \/ \E a \in Attestors, scans \in Seq(Calldata) : Anchor(a, scans)
           \/ Tick
<1>1. ASSUME NEW a \in Attestors, NEW sc \in Calldata, AnchorScan(a, sc)
      PROVE  Anchor(a, <<sc>>) /\ <<sc>> \in Seq(Calldata)
  BY <1>1 DEF AnchorScan
<1>2. ASSUME NEW a \in Attestors, NEW scans \in Batches, AnchorScanBatch(a, scans)
      PROVE  Anchor(a, scans) /\ scans \in Seq(Calldata)
  BY <1>2, BatchIsSeq DEF AnchorScanBatch
<1> QED BY <1>1, <1>2 DEF Next

\* So does every step: type correctness is inductive.
LEMMA NextTypeOK == TypeOK /\ [Next]_vars => TypeOK'
<1> SUFFICES ASSUME TypeOK, [Next]_vars PROVE TypeOK'
  OBVIOUS
<1>1. CASE UNCHANGED vars
  BY <1>1 DEF TypeOK, vars
<1>2. ASSUME NEW a \in Attestors, NEW k \in Keys \cup {Zero}, NEW sig,
             RegisterAttestor(a, k, sig)
      PROVE  TypeOK'
  BY <1>2, RegisterTypeOK
<1>3. ASSUME NEW a \in Attestors, NEW scans \in Seq(Calldata), Anchor(a, scans)
      PROVE  TypeOK'
  BY <1>3, AnchorTypeOK
<1>4. CASE Tick
  BY <1>4 DEF Tick, TypeOK
<1> QED BY <1>1, <1>2, <1>3, <1>4, NextCases

\* Every reachable state of the registry is type correct: verdicts and scores
\* stay in range and counters stay within their width, whatever is submitted.
THEOREM TypeCorrect == Spec => []TypeOK
BY InitTypeOK, NextTypeOK, PTL DEF Spec

-----------------------------------------------------------------------------
(* The history and the keys                                                *)

\* No registration is in the log without its key holder's consent.
RegistrationsSigned ==
    \A i \in 1..Len(log) :
        log[i].event = "AttestorRegistered" =>
            [key |-> log[i].key,
             digest |-> RegistrationDigest(log[i].attestor, log[i].key)] \in Signatures

\* The inductive invariant behind Authentic: what makes an event signed is the
\* key in storage when it is written, and that key is the last one registered.
KeyInv == TypeOK /\ KeyIsLastRegistered /\ RegistrationsSigned /\ Authentic

\* The log of the next state starts with the log of this one.
LogGrows ==
    /\ Len(log) \in Nat
    /\ Len(log') \in Nat
    /\ Len(log) <= Len(log')
    /\ \A i \in 1..Len(log) : log'[i] = log[i]

\* A registration appends one event and rewrites nothing.
LEMMA RegisterAppends ==
    ASSUME TypeOK, NEW a \in Attestors, NEW k \in Keys \cup {Zero}, NEW sig,
           RegisterAttestor(a, k, sig)
    PROVE  /\ LogGrows
           /\ Len(log') = Len(log) + 1
           /\ log'[Len(log) + 1] =
                [event |-> "AttestorRegistered", attestor |-> a, key |-> k]
<1> DEFINE ev == [event |-> "AttestorRegistered", attestor |-> a, key |-> k]
           Events == ScanAnchored \cup AttestorRegistered
<1>1. log \in Seq(Events) /\ ev \in Events /\ log' = Append(log, ev)
  BY DEF RegisterAttestor, AttestorRegistered, TypeOK
<1> HIDE DEF ev, Events
<1>2. /\ Len(log') = Len(log) + 1
      /\ \A i \in 1..Len(log) : log'[i] = log[i]
      /\ log'[Len(log) + 1] = ev
  BY <1>1, AppendProperties
<1>3. Len(log) \in Nat
  BY <1>1, LenProperties
<1> QED BY <1>2, <1>3 DEF LogGrows, ev

\* What an anchoring transaction does to the log, seen as growth.
LEMMA AnchorGrows ==
    ASSUME TypeOK, NEW a \in Attestors, NEW scans \in Seq(Calldata), Anchor(a, scans)
    PROVE  /\ LogGrows
           /\ \A n \in (Len(log) + 1)..Len(log') :
                 /\ n - Len(log) \in 1..Len(scans)
                 /\ log'[n] = AnchorEvent(a, scans[n - Len(log)])
                 /\ log'[n].event = "ScanAnchored"
<1>1. /\ Len(log) \in Nat /\ Len(scans) \in Nat
      /\ Len(log') = Len(log) + Len(scans)
      /\ \A i \in 1..Len(log) : log'[i] = log[i]
      /\ \A k \in 1..Len(scans) : log'[Len(log) + k] = AnchorEvent(a, scans[k])
  BY AnchorAppends
<1>2. LogGrows
  BY <1>1 DEF LogGrows
<1>3. ASSUME NEW n \in (Len(log) + 1)..Len(log')
      PROVE  /\ n - Len(log) \in 1..Len(scans)
             /\ log'[n] = AnchorEvent(a, scans[n - Len(log)])
             /\ log'[n].event = "ScanAnchored"
  <2>1. n - Len(log) \in 1..Len(scans) /\ Len(log) + (n - Len(log)) = n
    BY <1>1
  <2>2. log'[n] = AnchorEvent(a, scans[n - Len(log)])
    BY <1>1, <2>1
  <2> QED BY <2>1, <2>2 DEF AnchorEvent
<1> QED BY <1>2, <1>3

\* A last registration stays the last one as long as no later one is added.
LEMMA LastRegistrationStays ==
    ASSUME LogGrows, NEW n \in 0..Len(log), NEW m \in n..Len(log'), NEW i, NEW a,
           IsLastRegistration(i, a, n),
           \A j \in (n + 1)..m : ~ (/\ log'[j].event = "AttestorRegistered"
                                    /\ log'[j].attestor = a)
    PROVE  IsLastRegistration(i, a, m)'
BY DEF LogGrows, IsLastRegistration

\* An anchoring transaction keeps the key invariant: its events are signed by
\* the key in storage, which is the last registered one.
LEMMA AnchorKeyInv ==
    ASSUME KeyInv, NEW a \in Attestors, NEW scans \in Seq(Calldata), Anchor(a, scans)
    PROVE  (KeyIsLastRegistered /\ RegistrationsSigned /\ Authentic)'
<1>1. /\ LogGrows
      /\ \A n \in (Len(log) + 1)..Len(log') :
            /\ n - Len(log) \in 1..Len(scans)
            /\ log'[n] = AnchorEvent(a, scans[n - Len(log)])
            /\ log'[n].event = "ScanAnchored"
  BY AnchorGrows DEF KeyInv
<1>2. KeyIsLastRegistered'
  <2> SUFFICES ASSUME NEW b \in Attestors
               PROVE  IF attestorKey'[b] = Zero
                      THEN \A j \in 1..Len(log') :
                              ~ (/\ log'[j].event = "AttestorRegistered"
                                 /\ log'[j].attestor = b)
                      ELSE \E i \in 1..Len(log') :
                              /\ IsLastRegistration(i, b, Len(log))'
                              /\ log'[i].key = attestorKey'[b]
    BY DEF KeyIsLastRegistered
  <2>1. attestorKey' = attestorKey
    BY DEF Anchor
  <2>2. CASE attestorKey[b] = Zero
    BY <1>1, <2>1, <2>2 DEF KeyInv, KeyIsLastRegistered, LogGrows
  <2>3. CASE attestorKey[b] # Zero
    <3>1. PICK i \in 1..Len(log) : /\ IsLastRegistration(i, b, Len(log))
                                   /\ log[i].key = attestorKey[b]
      BY <2>3 DEF KeyInv, KeyIsLastRegistered
    <3>2. IsLastRegistration(i, b, Len(log))'
      <4>1. \A j \in (Len(log) + 1)..Len(log') : log'[j].event # "AttestorRegistered"
        BY <1>1
      <4>2. Len(log) \in 0..Len(log) /\ Len(log') \in Len(log)..Len(log')
        BY <1>1 DEF LogGrows
      <4>3. \A m \in Len(log)..Len(log') : m = Len(log') => IsLastRegistration(i, b, m)'
        BY <1>1, <3>1, <4>1, <4>2, LastRegistrationStays
      <4> QED BY <4>2, <4>3 DEF IsLastRegistration
    <3> QED BY <1>1, <2>1, <2>3, <3>1, <3>2 DEF LogGrows
  <2> QED BY <2>2, <2>3
<1>3. RegistrationsSigned'
  BY <1>1 DEF KeyInv, RegistrationsSigned, LogGrows, RegistrationDigest
<1>4. Authentic'
  <2> SUFFICES ASSUME NEW n \in 1..Len(log'), log'[n].event = "ScanAnchored"
               PROVE  \E i \in 1..n :
                         SignedBy(i, n)'
    BY DEF Authentic
  <2>1. CASE n \in 1..Len(log)
    <3>1. log'[n] = log[n]
      BY <1>1, <2>1 DEF LogGrows
    <3>2. PICK i \in 1..n : SignedBy(i, n)
      BY <2>1, <3>1 DEF KeyInv, Authentic
    <3>3. log'[i] = log[i]
      BY <1>1, <2>1 DEF LogGrows
    <3>4. \A j \in 1..n : log'[j] = log[j]
      BY <1>1, <2>1 DEF LogGrows
    <3>5. SignedBy(i, n)'
      BY <3>1, <3>2, <3>3, <3>4
         DEF SignedBy, IsLastRegistration, RegistrationDigest, AnchorDigest
    <3> QED BY <3>5
  <2>2. CASE n \in (Len(log) + 1)..Len(log')
    <3> DEFINE sc == scans[n - Len(log)]
    <3>1. /\ log'[n] = AnchorEvent(a, sc)
          /\ sc \in Calldata
          /\ Acceptable(a, sc)
      BY <1>1, <2>2 DEF Anchor
    <3> HIDE DEF sc
    <3>2. PICK i \in 1..Len(log) : /\ IsLastRegistration(i, a, Len(log))
                                   /\ log[i].key = attestorKey[a]
      BY DEF KeyInv, KeyIsLastRegistered, Anchor
    <3>3. IsLastRegistration(i, a, n)'
      <4>1. \A j \in (Len(log) + 1)..n : log'[j].event # "AttestorRegistered"
        BY <1>1, <2>2 DEF LogGrows
      <4>2. Len(log) \in 0..Len(log) /\ n \in Len(log)..Len(log')
        BY <1>1, <2>2 DEF LogGrows
      <4> QED BY <1>1, <3>2, <4>1, <4>2, LastRegistrationStays
    <3>4. i \in 1..n /\ log'[i] = log[i]
      BY <1>1, <2>2 DEF LogGrows
    <3>5. [key |-> log[i].key, digest |-> RegistrationDigest(a, log[i].key)] \in Signatures
      BY <3>2 DEF KeyInv, RegistrationsSigned, IsLastRegistration
    <3>6. [key |-> log[i].key, digest |-> AnchorDigest(a, sc)] \in Signatures
      BY <3>1, <3>2, AcceptedInput
    <3>7. log'[n].attestor = a /\ AnchorDigest(a, log'[n]) = AnchorDigest(a, sc)
      BY <3>1 DEF AnchorEvent, AnchorDigest
    <3>8. SignedBy(i, n)'
      BY <3>3, <3>4, <3>5, <3>6, <3>7 DEF SignedBy, IsLastRegistration, RegistrationDigest
    <3> QED BY <3>4, <3>8
  <2> QED BY <1>1, <2>1, <2>2 DEF LogGrows
<1> QED BY <1>2, <1>3, <1>4

\* A registration keeps it: the new event is the sender's last registration.
LEMMA RegisterKeyInv ==
    ASSUME KeyInv, NEW a \in Attestors, NEW k \in Keys \cup {Zero}, NEW sig \in Signatures,
           RegisterAttestor(a, k, sig)
    PROVE  (KeyIsLastRegistered /\ RegistrationsSigned /\ Authentic)'
<1>0. PICK last : last = Len(log) + 1
  OBVIOUS
<1>1. /\ LogGrows
      /\ last = Len(log) + 1
      /\ Len(log') = last
      /\ log'[last] = [event |-> "AttestorRegistered", attestor |-> a, key |-> k]
  BY <1>0, RegisterAppends DEF KeyInv
<1>2. /\ k # Zero
      /\ attestorKey' = [attestorKey EXCEPT ![a] = k]
      /\ attestorKey \in [Attestors -> Keys \cup {Zero}]
      /\ [key |-> k, digest |-> RegistrationDigest(a, k)] \in Signatures
  BY DEF RegisterAttestor, VerifyP256, KeyInv, TypeOK
<1>3. KeyIsLastRegistered'
  <2> SUFFICES ASSUME NEW b \in Attestors
               PROVE  IF attestorKey'[b] = Zero
                      THEN \A j \in 1..Len(log') :
                              ~ (/\ log'[j].event = "AttestorRegistered"
                                 /\ log'[j].attestor = b)
                      ELSE \E i \in 1..Len(log') :
                              /\ IsLastRegistration(i, b, Len(log))'
                              /\ log'[i].key = attestorKey'[b]
    BY DEF KeyIsLastRegistered
  <2>1. CASE b = a
    <3>1. attestorKey'[b] = k
      BY <1>2, <2>1
    <3>2. IsLastRegistration(last, b, Len(log))' /\ last \in 1..Len(log')
      BY <1>1, <2>1 DEF IsLastRegistration, LogGrows
    <3> QED BY <1>1, <1>2, <3>1, <3>2
  <2>2. CASE b # a
    <3>1. attestorKey'[b] = attestorKey[b]
      BY <1>2, <2>2
    <3>2. log'[last].attestor # b
      BY <1>1, <2>2
    <3>3. CASE attestorKey[b] = Zero
      BY <1>1, <3>1, <3>2, <3>3 DEF KeyInv, KeyIsLastRegistered, LogGrows
    <3>4. CASE attestorKey[b] # Zero
      <4>1. PICK i \in 1..Len(log) : /\ IsLastRegistration(i, b, Len(log))
                                     /\ log[i].key = attestorKey[b]
        BY <3>4 DEF KeyInv, KeyIsLastRegistered
      <4>2. IsLastRegistration(i, b, Len(log))'
        BY <1>1, <3>2, <4>1 DEF LogGrows, IsLastRegistration
      <4> QED BY <1>1, <3>1, <3>4, <4>1, <4>2 DEF LogGrows
    <3> QED BY <3>3, <3>4
  <2> QED BY <2>1, <2>2
<1>4. RegistrationsSigned'
  BY <1>1, <1>2 DEF KeyInv, RegistrationsSigned, LogGrows, RegistrationDigest
<1>5. Authentic'
  <2> SUFFICES ASSUME NEW n \in 1..Len(log'), log'[n].event = "ScanAnchored"
               PROVE  \E i \in 1..n : SignedBy(i, n)'
    BY DEF Authentic
  <2>1. n \in 1..Len(log) /\ \A j \in 1..n : log'[j] = log[j]
    BY <1>1 DEF LogGrows
  <2>2. PICK i \in 1..n : SignedBy(i, n)
    BY <2>1 DEF KeyInv, Authentic
  <2>3. SignedBy(i, n)'
    BY <2>1, <2>2 DEF SignedBy, IsLastRegistration, RegistrationDigest, AnchorDigest
  <2> QED BY <2>3
<1> QED BY <1>3, <1>4, <1>5

\* The key invariant holds of the empty log.
LEMMA InitKeyInv == Init => KeyInv
<1> SUFFICES ASSUME Init PROVE KeyInv
  OBVIOUS
<1>1. TypeOK
  BY InitTypeOK
<1>2. Len(log) = 0 /\ \A a \in Attestors : attestorKey[a] = Zero
  BY DEF Init
<1> QED BY <1>1, <1>2 DEF KeyInv, KeyIsLastRegistered, RegistrationsSigned, Authentic

\* Every step keeps the key invariant.
LEMMA NextKeyInv == KeyInv /\ [Next]_vars => KeyInv'
<1> SUFFICES ASSUME KeyInv, [Next]_vars PROVE KeyInv'
  OBVIOUS
<1>1. TypeOK'
  BY NextTypeOK DEF KeyInv
<1>2. CASE UNCHANGED <<log, attestorKey>>
  <2>1. KeyIsLastRegistered'
    BY <1>2 DEF KeyInv, KeyIsLastRegistered, IsLastRegistration
  <2>2. RegistrationsSigned'
    BY <1>2 DEF KeyInv, RegistrationsSigned, RegistrationDigest
  <2>3. Authentic'
    <3>1. \A i, n : SignedBy(i, n) => SignedBy(i, n)'
      BY <1>2 DEF SignedBy, IsLastRegistration, RegistrationDigest, AnchorDigest
    <3> QED BY <1>2, <3>1 DEF KeyInv, Authentic
  <2> QED BY <1>1, <2>1, <2>2, <2>3 DEF KeyInv
<1>3. ASSUME NEW a \in Attestors, NEW k \in Keys \cup {Zero}, NEW sig \in Signatures,
             RegisterAttestor(a, k, sig)
      PROVE  KeyInv'
  BY <1>1, <1>3, RegisterKeyInv DEF KeyInv
<1>4. ASSUME NEW a \in Attestors, NEW scans \in Seq(Calldata), Anchor(a, scans)
      PROVE  KeyInv'
  BY <1>1, <1>4, AnchorKeyInv DEF KeyInv
<1>5. Tick \/ UNCHANGED vars => UNCHANGED <<log, attestorKey>>
  BY DEF Tick, vars
<1> QED BY <1>2, <1>3, <1>4, <1>5, NextCases

\* Every verdict in the history was signed, for this deployment, sender and
\* content, by the key its attestor had then registered with the holder's
\* consent, whatever signatures exist and whatever is submitted.
THEOREM AuthenticHolds == Spec => []Authentic
<1>1. KeyInv => Authentic
  BY DEF KeyInv
<1> QED BY <1>1, InitKeyInv, NextKeyInv, PTL DEF Spec

\* The key a contract verifies against is always the one of the attestor's
\* last registration in the history, and zero when there is none.
THEOREM KeyIsLastRegisteredHolds == Spec => []KeyIsLastRegistered
<1>1. KeyInv => KeyIsLastRegistered
  BY DEF KeyInv
<1> QED BY <1>1, InitKeyInv, NextKeyInv, PTL DEF Spec

-----------------------------------------------------------------------------
(* Storage and history                                                     *)

\* The slot shows what event e announced.
Shows(slot, e) ==
    /\ slot.contentHash = e.contentHash
    /\ slot.receiptHash = e.receiptHash
    /\ slot.timestamp = e.timestamp
    /\ slot.verdict = e.verdict
    /\ slot.score = e.score

\* An anchoring transaction adds its writes to the anchors of its sender.
LEMMA AnchorsAfter ==
    ASSUME TypeOK, NEW a \in Attestors, NEW scans \in Seq(Calldata), Anchor(a, scans),
           NEW t \in Tools, NEW b \in Attestors
    PROVE  /\ \A i \in 1..Len(log) : i \in AnchorsOf(t, b)' <=> i \in AnchorsOf(t, b)
           /\ \A i \in (Len(log) + 1)..Len(log') :
                 i \in AnchorsOf(t, b)' <=> (b = a /\ i - Len(log) \in Writes(scans, t))
           /\ AnchorsOf(t, b)' \subseteq 1..Len(log')
<1>1. /\ LogGrows
      /\ \A n \in (Len(log) + 1)..Len(log') :
            /\ n - Len(log) \in 1..Len(scans)
            /\ log'[n] = AnchorEvent(a, scans[n - Len(log)])
            /\ log'[n].event = "ScanAnchored"
  BY AnchorGrows
<1>2. \A i \in 1..Len(log) : i \in AnchorsOf(t, b)' <=> i \in AnchorsOf(t, b)
  BY <1>1 DEF AnchorsOf, LogGrows
<1>3. ASSUME NEW i \in (Len(log) + 1)..Len(log')
      PROVE  i \in AnchorsOf(t, b)' <=> (b = a /\ i - Len(log) \in Writes(scans, t))
  <2>0. /\ log'[i] = AnchorEvent(a, scans[i - Len(log)])
        /\ i - Len(log) \in 1..Len(scans)
    BY <1>1
  <2>1. /\ log'[i].event = "ScanAnchored"
        /\ log'[i].toolId = scans[i - Len(log)].toolId
        /\ log'[i].attestor = a
    BY <2>0 DEF AnchorEvent
  <2>2. i \in 1..Len(log')
    BY <1>1 DEF LogGrows
  <2> QED BY <2>0, <2>1, <2>2 DEF AnchorsOf, Writes
<1> QED BY <1>2, <1>3 DEF AnchorsOf

\* After an anchoring transaction the slots it wrote show its last write of
\* each tool; all other slots show what they showed.
LEMMA AnchorLatest ==
    ASSUME TypeOK, LatestIsLastEvent,
           NEW a \in Attestors, NEW scans \in Seq(Calldata), Anchor(a, scans)
    PROVE  LatestIsLastEvent'
<1> SUFFICES ASSUME NEW t \in Tools, NEW b \in Attestors
             PROVE  /\ AnchorsOf(t, b)' = {} => latest'[t][b] = EmptySlot
                    /\ \A i \in AnchorsOf(t, b)' :
                          (\A j \in AnchorsOf(t, b)' : j <= i) => Shows(latest'[t][b], log'[i])
  BY DEF LatestIsLastEvent, Shows, EmptySlot
<1>1. /\ LogGrows
      /\ \A n \in (Len(log) + 1)..Len(log') :
            /\ n - Len(log) \in 1..Len(scans)
            /\ log'[n] = AnchorEvent(a, scans[n - Len(log)])
            /\ log'[n].event = "ScanAnchored"
  BY AnchorGrows
<1>2. /\ \A i \in 1..Len(log) : i \in AnchorsOf(t, b)' <=> i \in AnchorsOf(t, b)
      /\ \A i \in (Len(log) + 1)..Len(log') :
            i \in AnchorsOf(t, b)' <=> (b = a /\ i - Len(log) \in Writes(scans, t))
      /\ AnchorsOf(t, b)' \subseteq 1..Len(log')
      /\ AnchorsOf(t, b) \subseteq 1..Len(log)
  BY AnchorsAfter DEF AnchorsOf
<1>3. latest'[t] = IF Writes(scans, t) = {} THEN latest[t]
                   ELSE [latest[t] EXCEPT ![a] = Stored(a, scans, t)]
  BY DEF Anchor
<1>4. CASE b # a \/ Writes(scans, t) = {}
  <2>1. latest'[t][b] = latest[t][b]
    BY <1>3, <1>4 DEF TypeOK
  <2>2. AnchorsOf(t, b)' = AnchorsOf(t, b)
    <3>1. \A i \in (Len(log) + 1)..Len(log') : i \notin AnchorsOf(t, b)'
      BY <1>2, <1>4
    <3>2. \A i : i \in AnchorsOf(t, b)' => i \in AnchorsOf(t, b)
      BY <1>1, <1>2, <3>1 DEF LogGrows
    <3>3. \A i : i \in AnchorsOf(t, b) => i \in AnchorsOf(t, b)'
      BY <1>1, <1>2 DEF LogGrows
    <3> QED BY <3>2, <3>3
  <2>3. /\ AnchorsOf(t, b) = {} => latest[t][b] = EmptySlot
        /\ \A i \in AnchorsOf(t, b) :
              (\A j \in AnchorsOf(t, b) : j <= i) => Shows(latest[t][b], log[i])
    BY DEF LatestIsLastEvent, Shows
  <2>4. \A i \in AnchorsOf(t, b) : log'[i] = log[i]
    BY <1>1, <1>2 DEF LogGrows
  <2> QED BY <2>1, <2>2, <2>3, <2>4
<1>5. CASE b = a /\ Writes(scans, t) # {}
  <2>1. PICK w \in Writes(scans, t) :
           w = LastWrite(scans, t) /\ \A j \in Writes(scans, t) : j <= w
    BY <1>5, LastWriteIsLast
  <2>2. /\ w \in 1..Len(scans)
        /\ Len(log) + w \in (Len(log) + 1)..Len(log')
        /\ (Len(log) + w) - Len(log) = w
    BY <2>1, AnchorAppends DEF Writes
  <2>3. Len(log) + w \in AnchorsOf(t, b)'
    BY <1>2, <1>5, <2>1, <2>2
  <2>4. \A i \in AnchorsOf(t, b)' :
           (\A j \in AnchorsOf(t, b)' : j <= i) => i = Len(log) + w
    <3> SUFFICES ASSUME NEW i \in AnchorsOf(t, b)', \A j \in AnchorsOf(t, b)' : j <= i
                 PROVE  i = Len(log) + w
      OBVIOUS
    <3>1. Len(log) + w <= i
      BY <2>3
    <3>2. i \in (Len(log) + 1)..Len(log')
      BY <1>1, <1>2, <2>2, <3>1 DEF LogGrows
    <3>3. i - Len(log) \in Writes(scans, t)
      BY <1>2, <3>2
    <3>4. i - Len(log) <= w
      BY <2>1, <3>3
    <3> QED BY <1>1, <2>2, <3>1, <3>2, <3>4 DEF LogGrows
  <2>5. log'[Len(log) + w] = AnchorEvent(a, scans[w])
    BY <1>1, <2>2
  <2>6. latest'[t][b] = Stored(a, scans, t)
    BY <1>3, <1>5 DEF TypeOK
  <2>7. Shows(Stored(a, scans, t), AnchorEvent(a, scans[w]))
    BY <2>1 DEF Shows, Stored, Slot, AnchorEvent
  <2> QED BY <2>3, <2>4, <2>5, <2>6, <2>7
<1> QED BY <1>4, <1>5

\* A registration touches no slot and adds no anchor.
LEMMA RegisterLatest ==
    ASSUME TypeOK, LatestIsLastEvent,
           NEW a \in Attestors, NEW k \in Keys \cup {Zero}, NEW sig,
           RegisterAttestor(a, k, sig)
    PROVE  LatestIsLastEvent'
<1>0. /\ LogGrows
      /\ Len(log') = Len(log) + 1
      /\ log'[Len(log) + 1] =
            [event |-> "AttestorRegistered", attestor |-> a, key |-> k]
  BY RegisterAppends
<1>1. /\ LogGrows
      /\ Len(log') = Len(log) + 1
      /\ log'[Len(log) + 1].event # "ScanAnchored"
  BY <1>0
<1>2. latest' = latest
  BY DEF RegisterAttestor
<1>3. ASSUME NEW t, NEW b
      PROVE  AnchorsOf(t, b)' = AnchorsOf(t, b)
  BY <1>1 DEF AnchorsOf, LogGrows
<1>4. \A t, b : \A i \in AnchorsOf(t, b) : log'[i] = log[i]
  BY <1>1 DEF AnchorsOf, LogGrows
<1> QED BY <1>2, <1>3, <1>4 DEF LatestIsLastEvent, EmptySlot

\* Nothing anchored, nothing stored.
LEMMA InitLatest == Init => LatestIsLastEvent
BY DEF Init, LatestIsLastEvent, AnchorsOf, EmptySlot

\* Every step keeps slots and last events in agreement.
LEMMA NextLatest == TypeOK /\ LatestIsLastEvent /\ [Next]_vars => LatestIsLastEvent'
<1> SUFFICES ASSUME TypeOK, LatestIsLastEvent, [Next]_vars PROVE LatestIsLastEvent'
  OBVIOUS
<1>1. CASE UNCHANGED <<log, latest>>
  BY <1>1 DEF LatestIsLastEvent, AnchorsOf, EmptySlot
<1>2. ASSUME NEW a \in Attestors, NEW k \in Keys \cup {Zero}, NEW sig,
             RegisterAttestor(a, k, sig)
      PROVE  LatestIsLastEvent'
  BY <1>2, RegisterLatest
<1>3. ASSUME NEW a \in Attestors, NEW scans \in Seq(Calldata), Anchor(a, scans)
      PROVE  LatestIsLastEvent'
  BY <1>3, AnchorLatest
<1>4. Tick \/ UNCHANGED vars => UNCHANGED <<log, latest>>
  BY DEF Tick, vars
<1> QED BY <1>1, <1>2, <1>3, <1>4, NextCases

\* Storage always shows exactly the last event of each attestor on each tool,
\* for every batch length and every repetition of a tool within a batch.
THEOREM LatestIsLastEventHolds == Spec => []LatestIsLastEvent
BY InitTypeOK, NextTypeOK, InitLatest, NextLatest, PTL DEF Spec

-----------------------------------------------------------------------------
(* Clearance                                                               *)

\* An attestor that ever anchored a tool has a last anchor of it, and that is
\* what its slot shows.
LEMMA LastAnchorShown ==
    ASSUME TypeOK, LatestIsLastEvent, NEW t \in Tools, NEW a \in Attestors,
           AnchorsOf(t, a) # {}
    PROVE  \E i \in 1..Len(log) : /\ IsLastAnchor(i, t, a, Len(log))
                                  /\ \A j \in AnchorsOf(t, a) : j <= i
                                  /\ Shows(latest[t][a], log[i])
                                  /\ log[i].event = "ScanAnchored"
                                  /\ log[i].attestor = a
<1>1. AnchorsOf(t, a) \in SUBSET (1..Len(log)) /\ Len(log) \in Nat
  BY LenProperties DEF AnchorsOf, TypeOK
<1>2. PICK i \in AnchorsOf(t, a) : \A j \in AnchorsOf(t, a) : j <= i
  BY <1>1, LargestIndex
<1>3. Shows(latest[t][a], log[i])
  BY <1>2 DEF LatestIsLastEvent, Shows
<1> QED BY <1>1, <1>2, <1>3 DEF IsLastAnchor, AnchorsOf

\* A slot that has a timestamp was written by an anchor.
LEMMA AttestedIsAnchored ==
    ASSUME LatestIsLastEvent, NEW t \in Tools, NEW a \in Attestors,
           latest[t][a].timestamp # 0
    PROVE  AnchorsOf(t, a) # {}
BY DEF LatestIsLastEvent, EmptySlot

\* Time passing does not make anything younger.
LEMMA Older ==
    ASSUME NEW since \in Nat, NEW early \in Nat, NEW late \in Nat, NEW maxAge \in Nat,
           ~ (early - since <= maxAge), late - since <= maxAge
    PROVE  late < early
OBVIOUS

\* A step that clears is an anchor of the attestor on the tool.
LEMMA ClearingStep ==
    ASSUME TypeOK, TypeOK', LatestIsLastEvent', Next,
           NEW t \in Tools, NEW a \in Attestors, NEW c \in Contents, NEW maxAge \in Nat,
           ~ IsCleared(t, c, a, maxAge), IsCleared(t, c, a, maxAge)'
    PROVE  \E i \in (Len(log) + 1)..Len(log') :
              /\ IsLastAnchor(i, t, a, Len(log))'
              /\ log'[i].verdict = CLEAN
              /\ log'[i].contentHash = c
<1>1. latest'[t][a] # latest[t][a] \/ now' < now
  <2>1. latest[t][a] \in Attestation /\ now \in Nat /\ now' \in Nat
    BY DEF TypeOK
  <2>2. latest[t][a].timestamp \in Nat
    BY <2>1 DEF Attestation
  <2>3. ASSUME latest'[t][a] = latest[t][a]
        PROVE  /\ ~ (now - latest[t][a].timestamp <= maxAge)
               /\ now' - latest[t][a].timestamp <= maxAge
    BY <2>3 DEF IsCleared
  <2> QED BY <2>1, <2>2, <2>3, Older
<1>2. PICK b \in Attestors, scans \in Seq(Calldata) : Anchor(b, scans)
  <2>1. now' = now \/ now' = now + 1 => ~ (now' < now)
    BY DEF TypeOK
  <2>2. ASSUME NEW d \in Attestors, NEW k \in Keys \cup {Zero}, NEW sig,
               RegisterAttestor(d, k, sig)
        PROVE  latest' = latest /\ now' = now
    BY <2>2 DEF RegisterAttestor
  <2>3. Tick => latest' = latest /\ now' = now + 1
    BY DEF Tick
  <2> QED BY <1>1, <2>1, <2>2, <2>3, NextCases
<1>3. b = a /\ Writes(scans, t) # {}
  BY <1>1, <1>2 DEF Anchor, TypeOK
<1>4. PICK w \in Writes(scans, t) : TRUE
  BY <1>3
<1>5. /\ Len(log) \in Nat /\ Len(log') = Len(log) + Len(scans)
      /\ w \in 1..Len(scans) /\ Len(scans) \in Nat
  BY <1>2, <1>4, AnchorAppends DEF Writes
<1>6. Len(log) + w \in AnchorsOf(t, a)'
  BY <1>2, <1>3, <1>4, <1>5, AnchorsAfter
<1>7. PICK i \in 1..Len(log') : /\ IsLastAnchor(i, t, a, Len(log))'
                                /\ \A j \in AnchorsOf(t, a)' : j <= i
                                /\ Shows(latest'[t][a], log'[i])
  <2>1. AnchorsOf(t, a)' \in SUBSET (1..Len(log')) /\ Len(log') \in Nat
    BY <1>5 DEF AnchorsOf
  <2>2. PICK i \in AnchorsOf(t, a)' : \A j \in AnchorsOf(t, a)' : j <= i
    <3> DEFINE S == AnchorsOf(t, a)'
    <3>1. S \in SUBSET (1..Len(log')) /\ S # {}
      BY <1>6, <2>1
    <3> HIDE DEF S
    <3>2. \E i \in S : \A j \in S : j <= i
      BY <2>1, <3>1, LargestIndex
    <3> QED BY <3>2 DEF S
  <2>3. Shows(latest'[t][a], log'[i])
    BY <2>2 DEF LatestIsLastEvent, Shows
  <2> QED BY <2>1, <2>2, <2>3 DEF IsLastAnchor
<1>8. Len(log) + w <= i
  BY <1>6, <1>7
<1>9. i \in (Len(log) + 1)..Len(log')
  BY <1>5, <1>7, <1>8
<1> QED BY <1>7, <1>9 DEF Shows, IsCleared

\* Nobody's isCleared turns true but by that attestor's own CLEAN verdict on
\* that tool and content, as its last word: whatever age limit the reader uses,
\* however many transactions, batches and other attestors there are.
THEOREM ClearanceIsOwnWordHolds == Spec => ClearanceIsOwnWord
<1>1. TypeOK /\ TypeOK' /\ LatestIsLastEvent' /\ [Next]_vars
      => [\A t \in Tools, a \in Attestors, c \in Contents, maxAge \in 0..MaxTime :
             (~ IsCleared(t, c, a, maxAge) /\ IsCleared(t, c, a, maxAge)') =>
                \E i \in (Len(log) + 1)..Len(log') :
                   /\ IsLastAnchor(i, t, a, Len(log))'
                   /\ log'[i].verdict = CLEAN
                   /\ log'[i].contentHash = c]_vars
  BY ClearingStep, WidthAssumption
<1>2. Spec => []TypeOK /\ []LatestIsLastEvent
  BY TypeCorrect, LatestIsLastEventHolds
<1> QED BY <1>1, <1>2, PTL DEF Spec, ClearanceIsOwnWord

-----------------------------------------------------------------------------
(* Counting                                                                *)

\* Division with remainder has one result.
LEMMA RemainderIsUnique ==
    ASSUME NEW m \in Nat \ {0}, NEW q \in Int, NEW p \in Int,
           NEW r \in 0..(m - 1), NEW s \in 0..(m - 1), m * q + r = m * p + s
    PROVE  r = s
<1>1. m * (q - p) = s - r
  OBVIOUS
<1>2. \A d \in Int : d >= 1 => m * d >= m
  OBVIOUS
<1>3. \A d \in Int : d <= -1 => m * d <= -m
  OBVIOUS
<1>4. s - r < m /\ s - r > -m
  OBVIOUS
<1>5. PICK d \in Int : d = q - p
  OBVIOUS
<1>6. m * d = s - r
  BY <1>1, <1>5
<1>7. d = 0
  BY <1>2, <1>3, <1>4, <1>6
<1> QED BY <1>6, <1>7

\* Every number is a multiple plus its remainder.
LEMMA DivisionWithRemainder ==
    ASSUME NEW m \in Nat \ {0}, NEW a \in Nat
    PROVE  /\ a % m \in 0..(m - 1)
           /\ \E q \in Int : a = m * q + (a % m)
<1>1. a % m \in 0..(m - 1)
  OBVIOUS
<1>2. a = m * (a \div m) + (a % m) /\ a \div m \in Int
  <2>1. a = m * (a \div m) + (a % m)
    OBVIOUS
  <2>2. a \div m \in Int
    OBVIOUS
  <2> QED BY <2>1, <2>2
<1> QED BY <1>1, <1>2

\* Counting modulo a width, step by step, is counting and reducing once.
LEMMA ModAdds ==
    ASSUME NEW m \in Nat \ {0}, NEW a \in Nat, NEW b \in Nat
    PROVE  ((a % m) + b) % m = (a + b) % m
<1> DEFINE r == a % m
           s == (r + b) % m
           u == (a + b) % m
<1>1. r \in 0..(m - 1) /\ \E q \in Int : a = m * q + r
  BY DivisionWithRemainder
<1> HIDE DEF r
<1>2. r + b \in Nat /\ a + b \in Nat
  BY <1>1
<1>3. s \in 0..(m - 1) /\ \E p \in Int : r + b = m * p + s
  BY <1>2, DivisionWithRemainder
<1>4. u \in 0..(m - 1) /\ \E o \in Int : a + b = m * o + u
  BY <1>2, DivisionWithRemainder
<1> HIDE DEF s, u
<1>5. PICK q \in Int, p \in Int, o \in Int :
         a = m * q + r /\ r + b = m * p + s /\ a + b = m * o + u
  BY <1>1, <1>3, <1>4
<1>6. m * (q + p) + s = m * o + u
  BY <1>1, <1>3, <1>4, <1>5
<1>7. s = u
  <2>1. q + p \in Int
    OBVIOUS
  <2> QED BY <1>3, <1>4, <1>6, <2>1, RemainderIsUnique
<1> QED BY <1>7 DEF r, s, u

\* A log of n events that grows by m holds, at the positions R, what it held
\* at S and the new ones at W, counted from its old end.
Extended(n, m, S, W, R) ==
    /\ S \in SUBSET (1..n) /\ W \in SUBSET (1..m) /\ R \in SUBSET (1..(n + m))
    /\ \A i \in 1..n : i \in R <=> i \in S
    /\ \A i \in (n + 1)..(n + m) : i \in R <=> i - n \in W

\* Then it has as many as before and the new ones.
LEMMA CountAfter ==
    ASSUME NEW n \in Nat, NEW m \in Nat, NEW S, NEW W, NEW R, Extended(n, m, S, W, R)
    PROVE  /\ Cardinality(S) \in Nat
           /\ Cardinality(W) \in Nat
           /\ Cardinality(R) = Cardinality(S) + Cardinality(W)
<1> DEFINE U == {i \in (n + 1)..(n + m) : i - n \in W}
           f == [k \in W |-> n + k]
<1>0. /\ S \in SUBSET (1..n) /\ W \in SUBSET (1..m) /\ R \in SUBSET (1..(n + m))
      /\ \A i \in 1..n : i \in R <=> i \in S
      /\ \A i \in (n + 1)..(n + m) : i \in R <=> i - n \in W
  BY DEF Extended
<1>1. IsFiniteSet(S) /\ IsFiniteSet(W)
  <2>1. IsFiniteSet(1..n) /\ IsFiniteSet(1..m)
    BY FS_Interval
  <2> QED BY <1>0, <2>1, FS_Subset
<1>2. IsFiniteSet(U) /\ Cardinality(U) = Cardinality(W)
  <2>1. f \in [W -> U]
    BY <1>0
  <2>2. \A k, l \in W : f[k] = f[l] => k = l
    BY <1>0
  <2>3. \A i \in U : \E k \in W : f[k] = i
    <3> TAKE i \in U
    <3>1. i - n \in W /\ f[i - n] = i
      BY <1>0
    <3> QED BY <3>1
  <2> HIDE DEF f, U
  <2>4. f \in Bijection(W, U)
    BY <2>1, <2>2, <2>3 DEF Bijection, Injection, Surjection, IsInjective
  <2>5. ExistsBijection(W, U)
    BY <2>4 DEF ExistsBijection
  <2> QED BY <1>1, <2>5, FS_Bijection
<1>3. R = S \cup U
  <2>1. \A i \in R : i \in S \/ i \in U
    <3> TAKE i \in R
    <3>1. i \in 1..n \/ i \in (n + 1)..(n + m)
      BY <1>0
    <3> QED BY <1>0, <3>1
  <2>2. \A i \in S : i \in R
    BY <1>0
  <2>3. \A i \in U : i \in R
    BY <1>0
  <2> QED BY <2>1, <2>2, <2>3
<1>4. S \cap U = {}
  BY <1>0
<1> HIDE DEF U
<1>5. Cardinality(S \cup U) = Cardinality(S) + Cardinality(U) - Cardinality(S \cap U)
  BY <1>1, <1>2, FS_Union
<1>6. Cardinality(S \cap U) = 0
  BY <1>4, FS_EmptySet
<1>7. Cardinality(S) \in Nat /\ Cardinality(W) \in Nat
  BY <1>1, FS_CardinalityType
<1> QED BY <1>2, <1>3, <1>5, <1>6, <1>7

\* The anchors of a tool, whoever made them, and all the anchors.
ToolAnchors(t) == {i \in 1..Len(log) : log[i].event = "ScanAnchored" /\ log[i].toolId = t}
AllAnchors     == {i \in 1..Len(log) : log[i].event = "ScanAnchored"}

\* Every anchor of a tool is one of some attestor's.
LEMMA ToolAnchorsShared ==
    ASSUME TypeOK, NEW t
    PROVE  UNION {AnchorsOf(t, a) : a \in Attestors} = ToolAnchors(t)
<1>1. \A i \in 1..Len(log) : log[i].event = "ScanAnchored" => log[i].attestor \in Attestors
  <2> TAKE i \in 1..Len(log)
  <2>1. log[i] \in ScanAnchored \cup AttestorRegistered
    BY ElementOfSeq DEF TypeOK
  <2> QED BY <2>1 DEF ScanAnchored, AttestorRegistered
<1>2. \A i \in ToolAnchors(t) : \E a \in Attestors : i \in AnchorsOf(t, a)
  BY <1>1 DEF ToolAnchors, AnchorsOf
<1>3. \A a : AnchorsOf(t, a) \subseteq ToolAnchors(t)
  BY DEF ToolAnchors, AnchorsOf
<1> QED BY <1>2, <1>3

\* The counters, said of the sets of positions.
Counted ==
    /\ \A t \in Tools, a \in Attestors :
          latest[t][a].count = Cardinality(AnchorsOf(t, a)) % CountMod
    /\ \A t \in Tools : toolScanCount[t] = Cardinality(ToolAnchors(t)) % CountMod
    /\ totalAnchors = Cardinality(AllAnchors) % TotalMod

\* That is what CountersMatchLog says.
LEMMA CountedMatches == TypeOK => (Counted <=> CountersMatchLog)
BY ToolAnchorsShared DEF Counted, CountersMatchLog, AllAnchors

\* A batch moves every counter by the number of its writes, and none other.
LEMMA AnchorCounted ==
    ASSUME TypeOK, Counted, NEW a \in Attestors, NEW scans \in Seq(Calldata),
           Anchor(a, scans)
    PROVE  Counted'
<1>1. /\ Len(log) \in Nat /\ Len(scans) \in Nat
      /\ Len(log') = Len(log) + Len(scans)
      /\ \A i \in 1..Len(log) : log'[i] = log[i]
      /\ \A n \in (Len(log) + 1)..(Len(log) + Len(scans)) :
            /\ n - Len(log) \in 1..Len(scans)
            /\ log'[n].event = "ScanAnchored"
            /\ log'[n].toolId = scans[n - Len(log)].toolId
  <2>1. /\ Len(log) \in Nat /\ Len(scans) \in Nat
        /\ Len(log') = Len(log) + Len(scans)
        /\ \A i \in 1..Len(log) : log'[i] = log[i]
    BY AnchorAppends
  <2>2. \A n \in (Len(log) + 1)..Len(log') :
            /\ n - Len(log) \in 1..Len(scans)
            /\ log'[n] = AnchorEvent(a, scans[n - Len(log)])
    BY AnchorGrows
  <2>3. ASSUME NEW n \in (Len(log) + 1)..Len(log')
        PROVE  /\ n - Len(log) \in 1..Len(scans)
               /\ log'[n].event = "ScanAnchored"
               /\ log'[n].toolId = scans[n - Len(log)].toolId
    <3>1. log'[n] = AnchorEvent(a, scans[n - Len(log)])
      BY <2>2
    <3> QED BY <2>2, <3>1 DEF AnchorEvent
  <2> QED BY <2>1, <2>3
<1>0. PICK n \in Nat, m \in Nat : n = Len(log) /\ m = Len(scans)
  BY <1>1
<1>2. ASSUME NEW t \in Tools, NEW b \in Attestors
      PROVE  latest'[t][b].count = Cardinality(AnchorsOf(t, b)') % CountMod
  <2> DEFINE S == AnchorsOf(t, b)
             R == AnchorsOf(t, b)'
             W == IF b = a THEN Writes(scans, t) ELSE {}
  <2>1. /\ S \in SUBSET (1..n) /\ W \in SUBSET (1..m)
        /\ R \in SUBSET (1..(n + m))
    BY <1>0, <1>1 DEF AnchorsOf, Writes
  <2>2. /\ \A i \in 1..n : i \in R <=> i \in S
        /\ \A i \in (n + 1)..(n + m) : i \in R <=> i - n \in W
    BY <1>0, <1>1, AnchorsAfter
  <2>3. latest[t][b].count = Cardinality(S) % CountMod
    BY DEF Counted
  <2>4. CASE W = {}
    <3>1. latest'[t][b] = latest[t][b]
      BY <2>4 DEF Anchor, TypeOK
    <3>2. R = S
      <4>1. \A i \in 1..(n + m) : i \in 1..n \/ i \in (n + 1)..(n + m)
        OBVIOUS
      <4>2. \A i \in 1..n : i \in 1..(n + m)
        OBVIOUS
      <4> HIDE DEF S, R, W
      <4> QED BY <2>1, <2>2, <2>4, <4>1, <4>2
    <3> QED BY <2>3, <3>1, <3>2
  <2>5. CASE W # {}
    <3>1. b = a /\ W = Writes(scans, t)
      BY <2>5
    <3>2. latest'[t][b] = Stored(a, scans, t)
      BY <2>5, <3>1 DEF Anchor, TypeOK
    <3>3. latest'[t][b].count = (latest[t][b].count + Cardinality(W)) % CountMod
      BY <3>1, <3>2 DEF Stored, Slot
    <3> HIDE DEF S, R, W
    <3>e. Extended(n, m, S, W, R)
      BY <2>1, <2>2 DEF Extended
    <3>4. /\ Cardinality(S) \in Nat /\ Cardinality(W) \in Nat
          /\ Cardinality(R) = Cardinality(S) + Cardinality(W)
      BY <3>e, CountAfter
    <3>5. ((Cardinality(S) % CountMod) + Cardinality(W)) % CountMod
            = (Cardinality(S) + Cardinality(W)) % CountMod
      BY <3>4, ModAdds, WidthAssumption
    <3> QED BY <2>3, <3>3, <3>4, <3>5 DEF R
  <2> QED BY <2>4, <2>5
<1>3. ASSUME NEW t \in Tools
      PROVE  toolScanCount'[t] = Cardinality(ToolAnchors(t)') % CountMod
  <2> DEFINE S == ToolAnchors(t)
             R == ToolAnchors(t)'
             W == Writes(scans, t)
  <2>1. /\ S \in SUBSET (1..n) /\ W \in SUBSET (1..m)
        /\ R \in SUBSET (1..(n + m))
    BY <1>0, <1>1 DEF ToolAnchors, Writes
  <2>2. /\ \A i \in 1..n : i \in R <=> i \in S
        /\ \A i \in (n + 1)..(n + m) : i \in R <=> i - n \in W
    BY <1>0, <1>1 DEF ToolAnchors, Writes
  <2>3. toolScanCount[t] = Cardinality(S) % CountMod
    BY DEF Counted
  <2>4. toolScanCount'[t] = (toolScanCount[t] + Cardinality(W)) % CountMod
    BY DEF Anchor
  <2> HIDE DEF S, R, W
  <2>e. Extended(n, m, S, W, R)
    BY <2>1, <2>2 DEF Extended
  <2>5. /\ Cardinality(S) \in Nat /\ Cardinality(W) \in Nat
        /\ Cardinality(R) = Cardinality(S) + Cardinality(W)
    BY <2>e, CountAfter
  <2>6. ((Cardinality(S) % CountMod) + Cardinality(W)) % CountMod
          = (Cardinality(S) + Cardinality(W)) % CountMod
    BY <2>5, ModAdds, WidthAssumption
  <2> QED BY <2>3, <2>4, <2>5, <2>6 DEF R
<1>4. totalAnchors' = Cardinality(AllAnchors') % TotalMod
  <2> DEFINE S == AllAnchors
             R == AllAnchors'
             W == 1..m
  <2>1. /\ S \in SUBSET (1..n) /\ W \in SUBSET (1..m)
        /\ R \in SUBSET (1..(n + m))
    BY <1>0, <1>1 DEF AllAnchors
  <2>2. /\ \A i \in 1..n : i \in R <=> i \in S
        /\ \A i \in (n + 1)..(n + m) : i \in R <=> i - n \in W
    BY <1>0, <1>1 DEF AllAnchors
  <2>3. totalAnchors = Cardinality(S) % TotalMod
    BY DEF Counted
  <2>4. totalAnchors' = (totalAnchors + m) % TotalMod
    BY <1>0 DEF Anchor
  <2>5. Cardinality(W) = m
    BY FS_Interval
  <2> HIDE DEF S, R, W
  <2>e. Extended(n, m, S, W, R)
    BY <2>1, <2>2 DEF Extended
  <2>6. /\ Cardinality(S) \in Nat /\ Cardinality(W) \in Nat
        /\ Cardinality(R) = Cardinality(S) + Cardinality(W)
    BY <2>e, CountAfter
  <2>7. ((Cardinality(S) % TotalMod) + Cardinality(W)) % TotalMod
          = (Cardinality(S) + Cardinality(W)) % TotalMod
    BY <2>6, ModAdds, WidthAssumption
  <2> QED BY <2>3, <2>4, <2>5, <2>6, <2>7 DEF R
<1> QED BY <1>2, <1>3, <1>4 DEF Counted

\* A registration is no anchor.
LEMMA RegisterCounted ==
    ASSUME TypeOK, Counted, NEW a \in Attestors, NEW k \in Keys \cup {Zero}, NEW sig,
           RegisterAttestor(a, k, sig)
    PROVE  Counted'
<1>1. /\ LogGrows
      /\ Len(log') = Len(log) + 1
      /\ log'[Len(log) + 1].event # "ScanAnchored"
  <2>1. /\ LogGrows
        /\ Len(log') = Len(log) + 1
        /\ log'[Len(log) + 1] = [event |-> "AttestorRegistered", attestor |-> a, key |-> k]
    BY RegisterAppends
  <2> QED BY <2>1
<1>2. UNCHANGED <<latest, toolScanCount, totalAnchors>>
  BY DEF RegisterAttestor
<1>3. \A t, b : AnchorsOf(t, b)' = AnchorsOf(t, b)
  BY <1>1 DEF AnchorsOf, LogGrows
<1>4. \A t : ToolAnchors(t)' = ToolAnchors(t)
  BY <1>1 DEF ToolAnchors, LogGrows
<1>5. AllAnchors' = AllAnchors
  BY <1>1 DEF AllAnchors, LogGrows
<1> QED BY <1>2, <1>3, <1>4, <1>5 DEF Counted

\* Nothing anchored, nothing counted.
LEMMA InitCounted == Init => Counted
<1> SUFFICES ASSUME Init PROVE Counted
  OBVIOUS
<1>1. /\ \A t, a : AnchorsOf(t, a) = {}
      /\ \A t : ToolAnchors(t) = {}
      /\ AllAnchors = {}
  BY DEF Init, AnchorsOf, ToolAnchors, AllAnchors
<1>2. Cardinality({}) = 0
  BY FS_EmptySet
<1>3. 0 % CountMod = 0 /\ 0 % TotalMod = 0
  BY WidthAssumption
<1> QED BY <1>1, <1>2, <1>3 DEF Init, Counted, EmptySlot

\* Every step keeps the counters in step with the log.
LEMMA NextCounted == TypeOK /\ Counted /\ [Next]_vars => Counted'
<1> SUFFICES ASSUME TypeOK, Counted, [Next]_vars PROVE Counted'
  OBVIOUS
<1>1. CASE UNCHANGED <<latest, toolScanCount, totalAnchors, log>>
  BY <1>1 DEF Counted, AnchorsOf, ToolAnchors, AllAnchors
<1>2. Tick \/ UNCHANGED vars => UNCHANGED <<latest, toolScanCount, totalAnchors, log>>
  BY DEF Tick, vars
<1> QED BY <1>1, <1>2, NextCases, AnchorCounted, RegisterCounted

\* The three counters count the anchors in the log, each modulo its width:
\* whatever the widths, the length of a batch and the repetitions in it.
THEOREM CountersMatchLogHolds == Spec => []CountersMatchLog
BY InitTypeOK, NextTypeOK, InitCounted, NextCounted, CountedMatches, PTL DEF Spec

-----------------------------------------------------------------------------
(* Blocks                                                                  *)

\* The anchors carry the times of their blocks, in the order of the log.
BlocksOrdered ==
    /\ \A i \in AllAnchors : log[i].timestamp \in 1..now
    /\ \A i, j \in AllAnchors : i <= j => log[i].timestamp <= log[j].timestamp

\* A batch is stamped with the present, which is not before the past.
LEMMA AnchorBlocks ==
    ASSUME TypeOK, BlocksOrdered, NEW a \in Attestors, NEW scans \in Seq(Calldata),
           Anchor(a, scans)
    PROVE  BlocksOrdered'
<1>1. /\ LogGrows
      /\ now' = now /\ now \in Nat \ {0}
  BY AnchorGrows DEF Anchor, TypeOK
<1>2. ASSUME NEW i \in AllAnchors'
      PROVE  \/ i \in AllAnchors /\ log'[i] = log[i]
             \/ i > Len(log) /\ log'[i].timestamp = now
  <2>1. i \in 1..Len(log') /\ log'[i].event = "ScanAnchored"
    BY DEF AllAnchors
  <2>2. CASE i \in 1..Len(log)
    BY <1>1, <2>1, <2>2 DEF AllAnchors, LogGrows
  <2>3. CASE i \in (Len(log) + 1)..Len(log')
    <3>1. log'[i] = AnchorEvent(a, scans[i - Len(log)])
      BY <2>3, AnchorGrows
    <3> QED BY <1>1, <2>3, <3>1 DEF AnchorEvent, LogGrows
  <2> QED BY <1>1, <2>1, <2>2, <2>3 DEF LogGrows
<1>3. \A i \in AllAnchors : i <= Len(log) /\ i \in Nat
  BY <1>1 DEF AllAnchors, LogGrows
<1>4. \A i \in AllAnchors' : log'[i].timestamp \in 1..now'
  BY <1>1, <1>2 DEF BlocksOrdered
<1>5. ASSUME NEW i \in AllAnchors', NEW j \in AllAnchors', i <= j
      PROVE  log'[i].timestamp <= log'[j].timestamp
  <2>1. i \in Nat /\ j \in Nat /\ Len(log) \in Nat
    BY <1>1 DEF AllAnchors, LogGrows
  <2>2. CASE j \in AllAnchors /\ log'[j] = log[j]
    <3>1. i \in AllAnchors /\ log'[i] = log[i]
      BY <1>2, <1>3, <1>5, <2>1, <2>2
    <3> QED BY <1>5, <2>2, <3>1 DEF BlocksOrdered
  <2>3. CASE log'[j].timestamp = now
    BY <1>1, <1>4, <2>3
  <2> QED BY <1>2, <2>2, <2>3
<1> QED BY <1>4, <1>5 DEF BlocksOrdered

\* So does every step keep the times in order.
LEMMA NextBlocks == TypeOK /\ BlocksOrdered /\ [Next]_vars => BlocksOrdered'
<1> SUFFICES ASSUME TypeOK, BlocksOrdered, [Next]_vars PROVE BlocksOrdered'
  OBVIOUS
<1>1. ASSUME AllAnchors' = AllAnchors, \A i \in AllAnchors : log'[i] = log[i],
             now' \in Nat, now <= now'
      PROVE  BlocksOrdered'
  <2>1. \A i \in AllAnchors : log[i].timestamp \in 1..now'
    BY <1>1 DEF BlocksOrdered, TypeOK
  <2> QED BY <1>1, <2>1 DEF BlocksOrdered
<1>2. ASSUME NEW a \in Attestors, NEW k \in Keys \cup {Zero}, NEW sig,
             RegisterAttestor(a, k, sig)
      PROVE  BlocksOrdered'
  <2>1. /\ LogGrows
        /\ Len(log') = Len(log) + 1
        /\ log'[Len(log) + 1] = [event |-> "AttestorRegistered", attestor |-> a, key |-> k]
    BY <1>2, RegisterAppends
  <2>2. log'[Len(log) + 1].event # "ScanAnchored"
    BY <2>1
  <2>3. AllAnchors' = AllAnchors /\ \A i \in AllAnchors : log'[i] = log[i]
    BY <2>1, <2>2 DEF AllAnchors, LogGrows
  <2>4. now' = now /\ now \in Nat
    BY <1>2 DEF RegisterAttestor, TypeOK
  <2> QED BY <1>1, <2>3, <2>4
<1>3. CASE Tick \/ UNCHANGED vars
  <2>1. log' = log /\ now' \in Nat /\ now <= now'
    BY <1>3 DEF Tick, vars, TypeOK
  <2> QED BY <1>1, <2>1 DEF AllAnchors
<1> QED BY <1>2, <1>3, AnchorBlocks, NextCases

\* Nothing anchored, nothing to order.
LEMMA InitBlocks == Init => BlocksOrdered
BY DEF Init, BlocksOrdered, AllAnchors

-----------------------------------------------------------------------------
(* For the modules that compose the registry                               *)

\* No step rewrites history.
LEMMA NextGrows == TypeOK /\ [Next]_vars => LogGrows
<1> SUFFICES ASSUME TypeOK, [Next]_vars PROVE LogGrows
  OBVIOUS
<1>1. Len(log) \in Nat
  BY LenProperties DEF TypeOK
<1>2. CASE UNCHANGED log
  BY <1>1, <1>2 DEF LogGrows
<1>3. Tick \/ UNCHANGED vars => UNCHANGED log
  BY DEF Tick, vars
<1> QED BY <1>2, <1>3, NextCases, RegisterAppends, AnchorGrows

\* Who signed an anchor of the past does not change.
LEMMA SignedStays ==
    ASSUME LogGrows, NEW n \in 1..Len(log), NEW i \in 1..n, SignedBy(i, n)
    PROVE  SignedBy(i, n)'
<1>1. \A j \in 1..n : log'[j] = log[j]
  BY DEF LogGrows
<1> QED BY <1>1 DEF SignedBy, IsLastRegistration, RegistrationDigest, AnchorDigest

\* Nor does which anchor was the last one among those of the past.
LEMMA LastAnchorStays ==
    ASSUME LogGrows, NEW n \in 0..Len(log), NEW i, NEW t, NEW a, IsLastAnchor(i, t, a, n)
    PROVE  IsLastAnchor(i, t, a, n)'
BY DEF LogGrows, IsLastAnchor, AnchorsOf
=============================================================================
