----------------------- MODULE RegistryReadersProofs -----------------------
(***************************************************************************)
(* What the registry means to those who read it on chain, proved on top of *)
(* ScanRegistryProofs: GatedRouter never forwards a call without a         *)
(* clearance, for every attestor it may trust and every age limit; and the *)
(* registry is an AttestationBoard, for every batch and every signature.   *)
(***************************************************************************)
EXTENDS GatedRouter, RegistryBoard, ScanRegistryProofs

-----------------------------------------------------------------------------
(* The router                                                              *)

\* Calls remember a length the log had.
CallsSeen == \A c \in calls : c.seen \in 0..Len(log)

\* The registry's invariants, and the router's own.
RouterInv == KeyInv /\ LatestIsLastEvent /\ CallsSeen /\ CallsWereCleared

\* A registry that holds nothing, no calls.
LEMMA InitRouterInv == RouterInit => RouterInv
BY InitKeyInv, InitLatest DEF RouterInit, RouterInv, CallsSeen, CallsWereCleared

\* What the registry does later does not change what a past call rested on.
LEMMA RegistryKeepsCalls ==
    ASSUME RouterInv, [Next]_vars, UNCHANGED calls
    PROVE  RouterInv'
<1>1. KeyInv' /\ LatestIsLastEvent'
  BY NextKeyInv, NextLatest DEF RouterInv, KeyInv
<1>2. LogGrows
  BY NextGrows DEF RouterInv, KeyInv
<1>3. CallsSeen'
  BY <1>2 DEF RouterInv, CallsSeen, LogGrows
<1>4. CallsWereCleared'
  <2> SUFFICES ASSUME NEW c \in calls
               PROVE  \E i \in 1..Len(log') :
                        /\ IsLastAnchor(i, c.toolId, Trusted, c.seen)'
                        /\ log'[i].verdict = CLEAN
                        /\ log'[i].contentHash = c.contentHash
                        /\ c.at - log'[i].timestamp <= MaxAge
                        /\ \E j \in 1..i : SignedBy(j, i)'
    BY DEF CallsWereCleared
  <2>1. PICK i \in 1..Len(log) :
                /\ IsLastAnchor(i, c.toolId, Trusted, c.seen)
                /\ log[i].verdict = CLEAN
                /\ log[i].contentHash = c.contentHash
                /\ c.at - log[i].timestamp <= MaxAge
                /\ \E j \in 1..i : SignedBy(j, i)
    BY DEF RouterInv, CallsWereCleared
  <2>2. log'[i] = log[i] /\ i \in 1..Len(log')
    BY <1>2, <2>1 DEF LogGrows
  <2>3. IsLastAnchor(i, c.toolId, Trusted, c.seen)'
    <3>1. c.seen \in 0..Len(log)
      BY DEF RouterInv, CallsSeen
    <3> QED BY <1>2, <2>1, <3>1, LastAnchorStays
  <2>4. \E j \in 1..i : SignedBy(j, i)'
    BY <1>2, <2>1, SignedStays
  <2> QED BY <2>1, <2>2, <2>3, <2>4
<1> QED BY <1>1, <1>3, <1>4 DEF RouterInv

\* A call rests on the last anchor of the trusted attestor, which was signed.
LEMMA CallIsCleared ==
    ASSUME RouterInv, NEW t \in Tools, NEW h \in Contents, CallTool(t, h)
    PROVE  RouterInv'
<1>1. /\ UNCHANGED vars /\ UNCHANGED log
      /\ calls' = calls \cup {[toolId |-> t, contentHash |-> h, at |-> now, seen |-> Len(log)]}
  BY DEF CallTool, vars
<1>2. KeyInv' /\ LatestIsLastEvent'
  BY <1>1, NextKeyInv, NextLatest DEF RouterInv, KeyInv
<1>3. CallsSeen'
  <2>1. Len(log) \in Nat
    BY LenProperties DEF RouterInv, KeyInv, TypeOK
  <2> QED BY <1>1, <2>1 DEF RouterInv, CallsSeen
<1>4. \E i \in 1..Len(log) :
            /\ IsLastAnchor(i, t, Trusted, Len(log))
            /\ log[i].verdict = CLEAN
            /\ log[i].contentHash = h
            /\ now - log[i].timestamp <= MaxAge
            /\ \E j \in 1..i : SignedBy(j, i)
  <2>1. AnchorsOf(t, Trusted) # {}
    BY RouterAssumption, AttestedIsAnchored DEF CallTool, IsCleared, RouterInv
  <2>2. PICK i \in 1..Len(log) : /\ IsLastAnchor(i, t, Trusted, Len(log))
                                 /\ Shows(latest[t][Trusted], log[i])
                                 /\ log[i].event = "ScanAnchored"
    BY <2>1, RouterAssumption, LastAnchorShown DEF RouterInv, KeyInv
  <2>3. \E j \in 1..i : SignedBy(j, i)
    BY <2>2 DEF RouterInv, KeyInv, Authentic
  <2> QED BY <2>2, <2>3 DEF Shows, CallTool, IsCleared
<1>5. CallsWereCleared'
  <2>1. \A i, j, u, n : /\ IsLastAnchor(i, u, Trusted, n)' <=> IsLastAnchor(i, u, Trusted, n)
                       /\ SignedBy(j, i)' <=> SignedBy(j, i)
    BY <1>1 DEF IsLastAnchor, AnchorsOf, SignedBy, IsLastRegistration,
                RegistrationDigest, AnchorDigest
  <2> SUFFICES ASSUME NEW c \in calls'
               PROVE  \E i \in 1..Len(log) :
                        /\ IsLastAnchor(i, c.toolId, Trusted, c.seen)
                        /\ log[i].verdict = CLEAN
                        /\ log[i].contentHash = c.contentHash
                        /\ c.at - log[i].timestamp <= MaxAge
                        /\ \E j \in 1..i : SignedBy(j, i)
    BY <1>1, <2>1 DEF CallsWereCleared
  <2>2. CASE c \in calls
    BY <2>2 DEF RouterInv, CallsWereCleared
  <2>3. CASE c = [toolId |-> t, contentHash |-> h, at |-> now, seen |-> Len(log)]
    BY <1>4, <2>3
  <2> QED BY <1>1, <2>2, <2>3
<1> QED BY <1>2, <1>3, <1>5 DEF RouterInv

\* Every step keeps the invariant.
LEMMA NextRouterInv == RouterInv /\ [RouterNext]_routerVars => RouterInv'
<1> SUFFICES ASSUME RouterInv, [RouterNext]_routerVars PROVE RouterInv'
  OBVIOUS
<1>1. ASSUME NEW t \in Tools, NEW h \in Contents, CallTool(t, h) PROVE RouterInv'
  BY <1>1, CallIsCleared
<1>2. CASE Next /\ UNCHANGED calls
  BY <1>2, RegistryKeepsCalls
<1>3. CASE UNCHANGED routerVars
  BY <1>3, RegistryKeepsCalls DEF routerVars
<1> QED BY <1>1, <1>2, <1>3 DEF RouterNext

\* No call is ever forwarded but on the trusted attestor's last word on that
\* tool at that moment: CLEAN, on that manifest, fresh and signed.
THEOREM CallsWereClearedHolds == RouterSpec => []CallsWereCleared
<1>1. RouterInv => CallsWereCleared
  BY DEF RouterInv
<1> QED BY <1>1, InitRouterInv, NextRouterInv, PTL DEF RouterSpec
-----------------------------------------------------------------------------
(* The board                                                               *)

\* What a slot shows on the board.
BoardEntry(slot) ==
    IF slot.timestamp = 0 THEN Silence ELSE [what |-> StatementOf(slot), at |-> slot.timestamp]

\* The board is the slots, entry by entry.
LEMMA BoardOfSlots ==
    BoardOf = [t \in Tools |-> [a \in Attestors |-> BoardEntry(latest[t][a])]]
BY DEF BoardOf, Shown, LatestVerdict, BoardEntry, StatementOf

\* A registry that stores nothing shows a blank board.
LEMMA InitBoard == Init => Board!Blank
<1> SUFFICES ASSUME Init PROVE Board!Blank
  OBVIOUS
<1>1. \A t \in Tools, a \in Attestors : BoardEntry(latest[t][a]) = Silence
  BY DEF Init, EmptySlot, BoardEntry
<1>2. BoardOf = [t \in Tools |-> [a \in Attestors |-> Silence]]
  BY <1>1, BoardOfSlots
<1> QED BY <1>2 DEF Init, Board!Blank

\* What the contract accepts for this attestor is vouched for: signed for this
\* deployment by a key whose holder agreed to stand for the attestor.
LEMMA AcceptedIsVouched ==
    ASSUME KeyInv, NEW a \in Attestors, attestorKey[a] # Zero,
           NEW sc \in Calldata, Acceptable(a, sc)
    PROVE  /\ <<a, sc.toolId, StatementOf(sc)>> \in VouchedHere
           /\ StatementOf(sc) \in StatementsHere
<1> DEFINE sig == [key |-> attestorKey[a], digest |-> AnchorDigest(a, sc)]
<1>1. sig \in Signatures
  BY AcceptedInput
<1>2. [key |-> attestorKey[a], digest |-> RegistrationDigest(a, attestorKey[a])] \in Signatures
  <2>1. PICK i \in 1..Len(log) : /\ IsLastRegistration(i, a, Len(log))
                                 /\ log[i].key = attestorKey[a]
    BY DEF KeyInv, KeyIsLastRegistered
  <2>2. log[i].event = "AttestorRegistered" /\ log[i].attestor = a
    BY <2>1 DEF IsLastRegistration
  <2>3. [key |-> log[i].key,
         digest |-> RegistrationDigest(log[i].attestor, log[i].key)] \in Signatures
    BY <2>2 DEF KeyInv, RegistrationsSigned
  <2> QED BY <2>1, <2>2, <2>3
<1>3. /\ sig.digest.kind = "anchor" /\ sig.digest.deployment = Here
      /\ sig.digest.attestor = a /\ sig.digest.toolId = sc.toolId
      /\ sig.key = attestorKey[a]
      /\ StatementOf(sig.digest) = StatementOf(sc)
  BY DEF AnchorDigest, StatementOf
<1> HIDE DEF sig
<1>4. sig \in Binding
  BY <1>1, <1>2, <1>3 DEF Binding
<1>5. <<sig.digest.attestor, sig.digest.toolId, StatementOf(sig.digest)>> \in VouchedHere
  BY <1>4 DEF VouchedHere
<1>6. StatementOf(sig.digest) \in StatementsHere
  BY <1>4 DEF StatementsHere
<1> QED BY <1>3, <1>5, <1>6

\* An anchoring transaction is one publication: of its sender, about the tools
\* the batch writes, saying of each what the batch says last.
LEMMA AnchorPublishes ==
    ASSUME KeyInv, NEW a \in Attestors, NEW scans \in Seq(Calldata), Anchor(a, scans)
    PROVE  Board!BoardNext
<1> DEFINE about == {t \in Tools : Writes(scans, t) # {}}
           last(t) == scans[LastWrite(scans, t)]
           said == [t \in about |-> StatementOf(last(t))]
<1>1. ASSUME NEW t \in about
      PROVE  /\ last(t) \in Calldata /\ Acceptable(a, last(t))
             /\ last(t).toolId = t
  <2>1. LastWrite(scans, t) \in Writes(scans, t)
    BY LastWriteIsLast
  <2>2. LastWrite(scans, t) \in 1..Len(scans) /\ scans[LastWrite(scans, t)].toolId = t
    BY <2>1 DEF Writes
  <2> QED BY <2>2 DEF Anchor
<1>2. ASSUME NEW t \in about
      PROVE  <<a, t, said[t]>> \in VouchedHere /\ said[t] \in StatementsHere
  <2>1. attestorKey[a] # Zero
    BY DEF Anchor
  <2>2. /\ <<a, last(t).toolId, StatementOf(last(t))>> \in VouchedHere
        /\ StatementOf(last(t)) \in StatementsHere
    BY <1>1, <2>1, AcceptedIsVouched
  <2> QED BY <1>1, <2>2
<1>3. ASSUME NEW t \in Tools, NEW b \in Attestors
      PROVE  BoardEntry(latest[t][b])' =
                IF b = a /\ t \in DOMAIN said
                THEN [what |-> said[t], at |-> now] ELSE BoardOf[t][b]
  <2>1. BoardOf[t][b] = BoardEntry(latest[t][b])
    BY BoardOfSlots
  <2>2. CASE b = a /\ t \in about
    <3>1. latest'[t][b] = Slot(last(t), (latest[t][a].count + Cardinality(Writes(scans, t))) % CountMod)
      BY <2>2 DEF Anchor, Stored, KeyInv, TypeOK
    <3>2. /\ latest'[t][b].timestamp = now
          /\ StatementOf(latest'[t][b]) = StatementOf(last(t))
      BY <3>1 DEF Slot, StatementOf
    <3>3. now # 0
      BY DEF KeyInv, TypeOK
    <3>4. BoardEntry(latest[t][b])' = BoardEntry(latest'[t][b])
      BY DEF BoardEntry, StatementOf
    <3> QED BY <2>2, <3>2, <3>3, <3>4 DEF BoardEntry
  <2>3. CASE ~ (b = a /\ t \in about)
    <3>1. latest'[t][b] = latest[t][b]
      BY <2>3 DEF Anchor, KeyInv, TypeOK
    <3>2. BoardEntry(latest[t][b])' = BoardEntry(latest[t][b])
      BY <3>1 DEF BoardEntry, StatementOf
    <3> QED BY <2>1, <2>3, <3>2
  <2> QED BY <2>2, <2>3
<1>4. said \in [about -> StatementsHere] /\ about \in SUBSET Tools /\ DOMAIN said = about
  BY <1>2
<1>5. BoardOf' = [t \in Tools |-> [b \in Attestors |->
                     IF b = a /\ t \in DOMAIN said
                     THEN [what |-> said[t], at |-> now] ELSE BoardOf[t][b]]]
  <2>1. BoardOf' = [t \in Tools |-> [b \in Attestors |-> BoardEntry(latest[t][b])']]
    BY DEF BoardOf, Shown, LatestVerdict, BoardEntry, StatementOf
  <2> QED BY <1>3, <2>1
<1>6. Board!Publish(a, said)
  <2>1. \A t \in DOMAIN said : <<a, t, said[t]>> \in VouchedHere
    BY <1>2, <1>4
  <2>2. now' = now
    BY DEF Anchor
  <2> HIDE DEF said
  <2> QED BY <1>5, <2>1, <2>2 DEF Board!Publish
<1> HIDE DEF said, about
<1> QED BY <1>4, <1>6 DEF Board!BoardNext

\* Every step of the registry is a step of the board or leaves it alone.
LEMMA StepOnBoard == KeyInv /\ [Next]_vars => [Board!BoardNext]_(Board!boardVars)
<1> SUFFICES ASSUME KeyInv, [Next]_vars
             PROVE  Board!BoardNext \/ (BoardOf' = BoardOf /\ now' = now)
  BY DEF Board!boardVars
<1>1. latest' = latest => BoardOf' = BoardOf
  BY DEF BoardOf, Shown, LatestVerdict, StatementOf
<1>2. CASE UNCHANGED vars
  BY <1>1, <1>2 DEF vars
<1>3. ASSUME NEW a \in Attestors, NEW k \in Keys \cup {Zero}, NEW sig,
             RegisterAttestor(a, k, sig)
      PROVE  BoardOf' = BoardOf /\ now' = now
  BY <1>1, <1>3 DEF RegisterAttestor
<1>4. ASSUME Tick PROVE Board!BoardNext
  <2>1. now' > now /\ latest' = latest
    BY <1>4 DEF Tick, KeyInv, TypeOK
  <2> QED BY <1>1, <2>1 DEF Board!BoardNext, Board!Wait
<1> QED BY <1>2, <1>3, <1>4, AnchorPublishes, NextCases

\* The registry, with its logs, counters, batches and keys, implements the
\* board: each of its readers sees, per tool and attestor, the last statement
\* the attestor vouched for and when, and nothing but a publication of that
\* attestor changes it.
THEOREM ImplementsBoardHolds == Spec => ImplementsBoard
<1>1. Spec => []KeyInv
  BY InitKeyInv, NextKeyInv, PTL DEF Spec
<1> QED BY <1>1, InitBoard, StepOnBoard, PTL DEF Spec, ImplementsBoard, Board!BoardSpec
=============================================================================
