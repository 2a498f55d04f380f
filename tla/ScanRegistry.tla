---------------------------- MODULE ScanRegistry ----------------------------
(***************************************************************************)
(* contracts/ScanRegistry.sol: the on-chain registry of signed scan        *)
(* verdicts.  An attestor (an address) publishes the P-256 key it signs    *)
(* with, then anchors signed scans one at a time or in batches.  A         *)
(* transaction is one atomic action; a revert changes nothing, so a        *)
(* reverting call is simply not enabled.                                   *)
(*                                                                         *)
(* Hashes, keys and addresses are opaque values.  A signature is the pair  *)
(* of the key that made it and the digest it signs; Signatures is the set  *)
(* of those that key holders ever make, here or for another deployment.    *)
(***************************************************************************)
EXTENDS Integers, Sequences, FiniteSets

CONSTANTS
    Attestors,      \* addresses that send transactions
    Tools,          \* non-zero toolIds
    Contents,       \* non-zero manifest hashes
    Receipts,       \* receipt hashes
    Keys,           \* non-zero P-256 public keys
    Zero,           \* bytes32(0)
    Here,           \* (chainid, address(this)) of this deployment
    Signatures,     \* every signature a key holder makes
    Calldata,       \* ScanInputs a sender may submit
    CountMod,       \* 2^32: toolScanCount and count are uint32, unchecked
    TotalMod,       \* 2^64: totalAnchors is uint64, unchecked
    MaxBatch,       \* bound: longest batch
    MaxLog,         \* bound: events emitted
    MaxTime         \* bound: block.timestamp

VERDICT_MAX == 3
SCORE_MAX   == 100
CLEAN       == 1

ASSUME ZeroAssumption ==
    /\ Zero \notin Tools
    /\ Zero \notin Contents
    /\ Zero \notin Keys

ASSUME WidthAssumption ==
    /\ CountMod \in Nat \ {0}
    /\ TotalMod \in Nat \ {0}
    /\ MaxBatch \in Nat
    /\ MaxLog \in Nat
    /\ MaxTime \in Nat \ {0}

\* What a caller can put in a ScanInput: the zero hash, a verdict above
\* VERDICT_MAX and a score above SCORE_MAX included.
ASSUME CalldataAssumption ==
    Calldata \subseteq
        [toolId : Tools \cup {Zero}, contentHash : Contents \cup {Zero},
         verdict : Nat, score : Nat, receiptHash : Receipts, sig : Signatures]

VARIABLES
    latest,         \* toolId => attestor => Attestation
    toolScanCount,  \* toolId => anchors of every attestor
    attestorKey,    \* attestor => its key, Zero when unregistered
    totalAnchors,
    log,            \* the events, in emission order
    now             \* block.timestamp

vars == <<latest, toolScanCount, attestorKey, totalAnchors, log, now>>

-----------------------------------------------------------------------------
(* Digests and signatures                                                  *)

RegistrationDigest(attestor, key) ==
    [kind |-> "register", deployment |-> Here, attestor |-> attestor, key |-> key]

AnchorDigest(attestor, sc) ==
    [kind |-> "anchor", deployment |-> Here, attestor |-> attestor,
     toolId |-> sc.toolId, contentHash |-> sc.contentHash,
     verdict |-> sc.verdict, score |-> sc.score, receiptHash |-> sc.receiptHash]

\* MUTANTS: the key that verifies is not tied to the one in storage; the
\* digest that verifies is not tied to the fields submitted.
VerifyP256_AnyKey(digest, sig, key) == sig.digest = digest
VerifyP256_AnyDigest(digest, sig, key) == sig.key = key

\* The precompile says 1 exactly for a signature of this digest under this key.
VerifyP256(digest, sig, key) == sig = [key |-> key, digest |-> digest]

-----------------------------------------------------------------------------
(* State                                                                   *)

Attestation ==
    [contentHash : Contents \cup {Zero}, receiptHash : Receipts \cup {Zero},
     timestamp : Nat, verdict : 0..VERDICT_MAX, score : 0..SCORE_MAX,
     count : 0..(CountMod - 1)]

\* Storage that was never written reads as zero.
EmptySlot ==
    [contentHash |-> Zero, receiptHash |-> Zero, timestamp |-> 0,
     verdict |-> 0, score |-> 0, count |-> 0]

ScanAnchored ==
    [event : {"ScanAnchored"}, toolId : Tools, attestor : Attestors,
     contentHash : Contents, verdict : 0..VERDICT_MAX, score : 0..SCORE_MAX,
     receiptHash : Receipts, timestamp : Nat]

AttestorRegistered ==
    [event : {"AttestorRegistered"}, attestor : Attestors, key : Keys]

Init ==
    /\ latest = [t \in Tools |-> [a \in Attestors |-> EmptySlot]]
    /\ toolScanCount = [t \in Tools |-> 0]
    /\ attestorKey = [a \in Attestors |-> Zero]
    /\ totalAnchors = 0
    /\ log = <<>>
    /\ now = 1

-----------------------------------------------------------------------------
(* Views                                                                   *)

\* timestamp 0 means "never attested by this attestor".
LatestVerdict(t, a) ==
    [verdict |-> latest[t][a].verdict, score |-> latest[t][a].score,
     timestamp |-> latest[t][a].timestamp, contentHash |-> latest[t][a].contentHash]

\* MUTANTS: the age comparison inverted; the manifest not compared.
IsCleared_Inverted(t, contentHash, a, maxAge) ==
    /\ latest[t][a].timestamp # 0
    /\ latest[t][a].verdict = CLEAN
    /\ latest[t][a].contentHash = contentHash
    /\ now - latest[t][a].timestamp >= maxAge
IsCleared_AnyContent(t, contentHash, a, maxAge) ==
    /\ latest[t][a].timestamp # 0
    /\ latest[t][a].verdict = CLEAN
    /\ now - latest[t][a].timestamp <= maxAge

IsCleared(t, contentHash, a, maxAge) ==
    /\ latest[t][a].timestamp # 0
    /\ latest[t][a].verdict = CLEAN
    /\ latest[t][a].contentHash = contentHash
    /\ now - latest[t][a].timestamp <= maxAge

IsKnown(t) == toolScanCount[t] # 0

IsRegistered(a) == attestorKey[a] # Zero

-----------------------------------------------------------------------------
(* Transactions                                                            *)

\* MUTANT: only the first registration reaches storage.
RegisterAttestor_Once(sender, key, sig) ==
    /\ Len(log) < MaxLog
    /\ key # Zero
    /\ VerifyP256(RegistrationDigest(sender, key), sig, key)
    /\ attestorKey' = [attestorKey EXCEPT ![sender] = IF @ = Zero THEN key ELSE @]
    /\ log' = Append(log, [event |-> "AttestorRegistered",
                           attestor |-> sender, key |-> key])
    /\ UNCHANGED <<latest, toolScanCount, totalAnchors, now>>

\* registerAttestor.  Registration needs a proof of possession: a signature
\* by the key itself over the sender's address.  A second call replaces the key.
RegisterAttestor(sender, key, sig) ==
    /\ Len(log) < MaxLog
    /\ key # Zero
    /\ VerifyP256(RegistrationDigest(sender, key), sig, key)
    /\ attestorKey' = [attestorKey EXCEPT ![sender] = key]
    /\ log' = Append(log, [event |-> "AttestorRegistered",
                           attestor |-> sender, key |-> key])
    /\ UNCHANGED <<latest, toolScanCount, totalAnchors, now>>

\* MUTANT: ranges unchecked.
Acceptable_AnyRange(sender, sc) ==
    /\ sc.toolId # Zero
    /\ sc.contentHash # Zero
    /\ VerifyP256(AnchorDigest(sender, sc), sc.sig, attestorKey[sender])

\* The guards of _anchor for one ScanInput.
Acceptable(sender, sc) ==
    /\ sc.toolId # Zero
    /\ sc.contentHash # Zero
    /\ sc.verdict <= VERDICT_MAX
    /\ sc.score <= SCORE_MAX
    /\ VerifyP256(AnchorDigest(sender, sc), sc.sig, attestorKey[sender])

\* The positions of the batch that write tool t, and the one that writes last.
Writes(scans, t) == {i \in 1..Len(scans) : scans[i].toolId = t}

\* MUTANT: the first write stays.
LastWrite_First(scans, t) ==
    CHOOSE i \in Writes(scans, t) : \A j \in Writes(scans, t) : i <= j

LastWrite(scans, t) ==
    CHOOSE i \in Writes(scans, t) : \A j \in Writes(scans, t) : j <= i

Slot(sc, count) ==
    [contentHash |-> sc.contentHash, receiptHash |-> sc.receiptHash,
     timestamp |-> now, verdict |-> sc.verdict, score |-> sc.score,
     count |-> count]

AnchorEvent(sender, sc) ==
    [event |-> "ScanAnchored", toolId |-> sc.toolId, attestor |-> sender,
     contentHash |-> sc.contentHash, verdict |-> sc.verdict, score |-> sc.score,
     receiptHash |-> sc.receiptHash, timestamp |-> now]

\* MUTANT: a batch counts once per tool.
Stored_CountsOnce(sender, scans, t) ==
    Slot(scans[LastWrite(scans, t)], (latest[t][sender].count + 1) % CountMod)

\* What storing `scans` one after the other leaves in latest[t][sender].
Stored(sender, scans, t) ==
    Slot(scans[LastWrite(scans, t)],
         (latest[t][sender].count + Cardinality(Writes(scans, t))) % CountMod)

\* _anchor for every element in turn: the last write of a tool stays in its
\* slot, every write counts, every write emits.  Both callers then add the
\* number of elements to totalAnchors.
Anchor(sender, scans) ==
    /\ attestorKey[sender] # Zero
    /\ \A i \in 1..Len(scans) : Acceptable(sender, scans[i])
    /\ Len(log) + Len(scans) <= MaxLog
    /\ latest' = [t \in Tools |->
                    IF Writes(scans, t) = {} THEN latest[t]
                    ELSE [latest[t] EXCEPT ![sender] = Stored(sender, scans, t)]]
    /\ toolScanCount' = [t \in Tools |->
                    (toolScanCount[t] + Cardinality(Writes(scans, t))) % CountMod]
    /\ totalAnchors' = (totalAnchors + Len(scans)) % TotalMod
    /\ log' = log \o [i \in 1..Len(scans) |-> AnchorEvent(sender, scans[i])]
    /\ UNCHANGED <<attestorKey, now>>

AnchorScan(sender, sc) == Anchor(sender, <<sc>>)

AnchorScanBatch(sender, scans) ==
    /\ Len(scans) # 0
    /\ Anchor(sender, scans)

\* A later block: its timestamp is not below its parent's.
Tick ==
    /\ now < MaxTime
    /\ now' = now + 1
    /\ UNCHANGED <<latest, toolScanCount, attestorKey, totalAnchors, log>>

Batches == UNION {[1..n -> Calldata] : n \in 0..MaxBatch}

Next ==
    \/ \E a \in Attestors, k \in Keys \cup {Zero}, sig \in Signatures :
          RegisterAttestor(a, k, sig)
    \/ \E a \in Attestors, sc \in Calldata : AnchorScan(a, sc)
    \/ \E a \in Attestors, scans \in Batches : AnchorScanBatch(a, scans)
    \/ Tick

Spec == Init /\ [][Next]_vars

-----------------------------------------------------------------------------
(* Properties                                                              *)

\* The positions of the log that hold an anchor of tool t by attestor a.
AnchorsOf(t, a) ==
    {i \in 1..Len(log) : /\ log[i].event = "ScanAnchored"
                         /\ log[i].toolId = t
                         /\ log[i].attestor = a}

\* i is the position of the last anchor of t by a among the events up to n.
IsLastAnchor(i, t, a, n) ==
    /\ i \in AnchorsOf(t, a)
    /\ i <= n
    /\ \A j \in AnchorsOf(t, a) : j <= n => j <= i

\* i is the position of a's last registration among the events up to n.
IsLastRegistration(i, a, n) ==
    /\ i \in 1..n
    /\ log[i].event = "AttestorRegistered"
    /\ log[i].attestor = a
    /\ \A j \in (i + 1)..n : ~ (/\ log[j].event = "AttestorRegistered"
                                /\ log[j].attestor = a)

\* The anchor at n was signed by the key that registration i announced.
SignedBy(i, n) ==
    /\ IsLastRegistration(i, log[n].attestor, n)
    /\ [key |-> log[i].key,
        digest |-> RegistrationDigest(log[n].attestor, log[i].key)] \in Signatures
    /\ [key |-> log[i].key,
        digest |-> AnchorDigest(log[n].attestor, log[n])] \in Signatures

\* Every variable holds a value of its Solidity type.
TypeOK ==
    /\ latest \in [Tools -> [Attestors -> Attestation]]
    /\ toolScanCount \in [Tools -> 0..(CountMod - 1)]
    /\ attestorKey \in [Attestors -> Keys \cup {Zero}]
    /\ totalAnchors \in 0..(TotalMod - 1)
    /\ log \in Seq(ScanAnchored \cup AttestorRegistered)
    /\ now \in Nat \ {0}

\* Storage and history agree: the slot a contract reads is exactly what the
\* last event of that attestor on that tool announced, after any mix of single
\* anchors and batches (a batch may write one tool several times), and is zero
\* when there is none.  Off-chain readers see events, on-chain readers slots.
LatestIsLastEvent ==
    \A t \in Tools, a \in Attestors :
        /\ AnchorsOf(t, a) = {} => latest[t][a] = EmptySlot
        /\ \A i \in AnchorsOf(t, a) :
              (\A j \in AnchorsOf(t, a) : j <= i) =>
                 /\ latest[t][a].contentHash = log[i].contentHash
                 /\ latest[t][a].receiptHash = log[i].receiptHash
                 /\ latest[t][a].timestamp = log[i].timestamp
                 /\ latest[t][a].verdict = log[i].verdict
                 /\ latest[t][a].score = log[i].score

\* The three counters count the same events, each modulo its width.
CountersMatchLog ==
    /\ \A t \in Tools, a \in Attestors :
          latest[t][a].count = Cardinality(AnchorsOf(t, a)) % CountMod
    /\ \A t \in Tools :
          toolScanCount[t] =
            Cardinality(UNION {AnchorsOf(t, a) : a \in Attestors}) % CountMod
    /\ totalAnchors =
          Cardinality({i \in 1..Len(log) : log[i].event = "ScanAnchored"}) % TotalMod

\* The key in storage is the one of the attestor's last registration.
KeyIsLastRegistered ==
    \A a \in Attestors :
        IF attestorKey[a] = Zero
        THEN \A j \in 1..Len(log) : ~ (/\ log[j].event = "AttestorRegistered"
                                       /\ log[j].attestor = a)
        ELSE \E i \in 1..Len(log) : /\ IsLastRegistration(i, a, Len(log))
                                    /\ log[i].key = attestorKey[a]

\* Every verdict in the history was signed, field for field and for this very
\* deployment and sender, by the key its attestor had registered at that
\* point of the history, and that key's holder had agreed to be bound to that
\* address: a rotated key, another chain's signature, another attestor's
\* signature or another attestor's key never gets a verdict in.
Authentic ==
    \A n \in 1..Len(log) :
        log[n].event = "ScanAnchored" =>
            \E i \in 1..n : SignedBy(i, n)

\* Clearance is only ever granted by the attestor itself: whatever the age
\* limit, a step that turns isCleared from false to true appends a CLEAN
\* verdict of that attestor on that tool and content as its last word.  The
\* passing of time, other attestors and other tools never grant one.
ClearanceIsOwnWord ==
    [][\A t \in Tools, a \in Attestors, c \in Contents, maxAge \in 0..MaxTime :
          (~ IsCleared(t, c, a, maxAge) /\ IsCleared(t, c, a, maxAge)') =>
             \E i \in (Len(log) + 1)..Len(log') :
                /\ IsLastAnchor(i, t, a, Len(log))'
                /\ log'[i].verdict = CLEAN
                /\ log'[i].contentHash = c]_vars
=============================================================================
