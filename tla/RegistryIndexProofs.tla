------------------------ MODULE RegistryIndexProofs -------------------------
(***************************************************************************)
(* What RegistryIndex promises, for every history of the registry, at      *)
(* every lag of the index: its aggregates are those of the audit trail it  *)
(* keeps, and when it has caught up its last words are the contract's.     *)
(***************************************************************************)
EXTENDS RegistryIndex, ScanRegistryProofs

-----------------------------------------------------------------------------
(* The inductive invariant                                                 *)

\* The tables hold rows of their types.
IndexTypeOK ==
    /\ cursor \in 0..Len(log)
    /\ toolRow \in [Tools -> Tool \cup {Undefined}]
    /\ versionRow \in [Tools \X Contents -> ToolVersion \cup {Undefined}]
    /\ attestorRow \in [Attestors -> Attestor \cup {Undefined}]

\* i is the last anchor of tool t the index has seen.
IsLastSeen(i, t) == i \in SeenOf(t) /\ \A j \in SeenOf(t) : j <= i

\* The row says what event e announced.
RowShows(row, e) ==
    /\ row.lastSeen = e.timestamp
    /\ row.latestVerdict = e.verdict
    /\ row.latestScore = e.score
    /\ row.latestContentHash = e.contentHash
    /\ row.latestAttestor = e.attestor

\* A tool's row says what the last anchor seen of it announced.
LastSeenShown ==
    \A t \in Tools :
        IF toolRow[t] = Undefined THEN SeenOf(t) = {}
        ELSE \E i \in SeenOf(t) : IsLastSeen(i, t) /\ RowShows(toolRow[t], log[i])

\* No registration of a is among the events up to n.
NeverRegistered(a, n) ==
    \A j \in 1..n : ~ (log[j].event = "AttestorRegistered" /\ log[j].attestor = a)

\* An attestor's row has the key of the last registration seen.
KeyOfRow(a) == Or(attestorRow[a], NoAttestor).key
KeyShown ==
    \A a \in Attestors :
        \/ KeyOfRow(a) = Zero /\ NeverRegistered(a, cursor)
        \/ \E i \in 1..cursor : IsLastRegistration(i, a, cursor) /\ KeyOfRow(a) = log[i].key

\* Which versions have a row.
VersionsSeen ==
    \A t \in Tools, c \in Contents :
        versionRow[<<t, c>>] = Undefined <=> c \notin ContentsOf(SeenOf(t))

\* The counts of one tool, of its versions and of one attestor.
ToolCounts(t) ==
    LET row == Or(toolRow[t], NoTool)
    IN  /\ row.scanCount = Cardinality(SeenOf(t))
        /\ row.cleanCount = Cardinality(With(SeenOf(t), CLEAN))
        /\ row.warnCount = Cardinality(With(SeenOf(t), WARN))
        /\ row.criticalCount = Cardinality(With(SeenOf(t), CRITICAL))
        /\ row.versionCount = Cardinality(ContentsOf(SeenOf(t)))
        /\ IsFiniteSet(ContentsOf(SeenOf(t)))

SeenOfVersion(t, c) == {i \in SeenOf(t) : log[i].contentHash = c}

VersionCounts(t, c) ==
    Or(versionRow[<<t, c>>], NoVersion).scanCount = Cardinality(SeenOfVersion(t, c))

ToolsSeenBy(a) == {log[i].toolId : i \in SeenBy(a)}

AttestorCounts(a) ==
    LET row == Or(attestorRow[a], NoAttestor)
    IN  /\ row.scanCount = Cardinality(SeenBy(a))
        /\ row.toolsCovered \in Cardinality(ToolsSeenBy(a))..row.scanCount
        /\ IsFiniteSet(ToolsSeenBy(a))

Counts ==
    /\ scanRows = UNION {SeenOf(t) : t \in Tools}
    /\ \A t \in Tools : ToolCounts(t)
    /\ \A t \in Tools, c \in Contents : VersionCounts(t, c)
    /\ \A a \in Attestors : AttestorCounts(a)

IndexInv ==
    /\ KeyInv
    /\ LatestIsLastEvent
    /\ IndexTypeOK
    /\ LastSeenShown
    /\ KeyShown
    /\ VersionsSeen
    /\ Counts

-----------------------------------------------------------------------------
(* What the index has seen                                                 *)

\* What was seen is finite.
LEMMA SeenFinite ==
    ASSUME cursor \in Nat
    PROVE  /\ \A t : SeenOf(t) \in SUBSET (1..cursor) /\ IsFiniteSet(SeenOf(t))
           /\ \A a : SeenBy(a) \in SUBSET (1..cursor) /\ IsFiniteSet(SeenBy(a))
<1>1. IsFiniteSet(1..cursor)
  BY FS_Interval
<1>2. \A t : SeenOf(t) \in SUBSET (1..cursor)
  BY DEF SeenOf
<1>3. \A a : SeenBy(a) \in SUBSET (1..cursor)
  BY DEF SeenBy
<1> QED BY <1>1, <1>2, <1>3, FS_Subset

\* The image of a finite set is finite; what a subset of it adds to a count.
LEMMA SubsetFinite ==
    ASSUME NEW S, IsFiniteSet(S), NEW T \in SUBSET S
    PROVE  IsFiniteSet(T) /\ Cardinality(T) \in Nat /\ Cardinality(T) <= Cardinality(S)
BY FS_Subset, FS_CardinalityType

\* A transaction of the registry changes nothing the index has seen.
LEMMA SeenStays ==
    ASSUME cursor \in 0..Len(log), LogGrows, cursor' = cursor
    PROVE  /\ \A i \in 1..cursor : log'[i] = log[i]
           /\ \A t : SeenOf(t)' = SeenOf(t)
           /\ \A a : SeenBy(a)' = SeenBy(a)
<1>1. \A i \in 1..cursor : log'[i] = log[i]
  BY DEF LogGrows
<1>2. \A t : SeenOf(t)' = SeenOf(t)
  BY <1>1 DEF SeenOf
<1>3. \A a : SeenBy(a)' = SeenBy(a)
  BY <1>1 DEF SeenBy
<1> QED BY <1>1, <1>2, <1>3

\* The event the index handles next.
LEMMA EventHandled ==
    ASSUME TypeOK, IndexTypeOK, HandleEvent
    PROVE  /\ cursor \in Nat /\ cursor' = cursor + 1 /\ cursor' \in 1..Len(log)
           /\ Len(log) \in Nat
           /\ UNCHANGED vars /\ log' = log
           /\ log[cursor + 1] \in ScanAnchored \cup AttestorRegistered
<1>1. Len(log) \in Nat /\ \A i \in 1..Len(log) : log[i] \in ScanAnchored \cup AttestorRegistered
  BY LenProperties, ElementOfSeq DEF TypeOK
<1>2. cursor \in Nat /\ cursor' = cursor + 1 /\ cursor' \in 1..Len(log) /\ UNCHANGED vars
  BY <1>1 DEF IndexTypeOK, HandleEvent
<1> QED BY <1>1, <1>2 DEF vars

\* An anchor adds itself to what is seen of its tool and of its attestor.
LEMMA SeenAfterAnchor ==
    ASSUME cursor \in Nat, cursor' = cursor + 1, log' = log,
           log[cursor + 1].event = "ScanAnchored"
    PROVE  /\ \A t : SeenOf(t)' = IF log[cursor + 1].toolId = t
                                  THEN SeenOf(t) \cup {cursor + 1} ELSE SeenOf(t)
           /\ \A a : SeenBy(a)' = IF log[cursor + 1].attestor = a
                                  THEN SeenBy(a) \cup {cursor + 1} ELSE SeenBy(a)
           /\ \A t : cursor + 1 \notin SeenOf(t)
           /\ \A a : cursor + 1 \notin SeenBy(a)
<1>1. 1..(cursor + 1) = (1..cursor) \cup {cursor + 1} /\ cursor + 1 \notin 1..cursor
  OBVIOUS
<1>2. \A t : SeenOf(t)' = IF log[cursor + 1].toolId = t
                          THEN SeenOf(t) \cup {cursor + 1} ELSE SeenOf(t)
  BY <1>1 DEF SeenOf
<1>3. \A a : SeenBy(a)' = IF log[cursor + 1].attestor = a
                          THEN SeenBy(a) \cup {cursor + 1} ELSE SeenBy(a)
  BY <1>1 DEF SeenBy
<1>4. (\A t : cursor + 1 \notin SeenOf(t)) /\ (\A a : cursor + 1 \notin SeenBy(a))
  BY <1>1 DEF SeenOf, SeenBy
<1> QED BY <1>2, <1>3, <1>4

\* A registration adds nothing to them.
LEMMA SeenAfterRegistration ==
    ASSUME cursor \in Nat, cursor' = cursor + 1, log' = log,
           log[cursor + 1].event # "ScanAnchored"
    PROVE  /\ \A t : SeenOf(t)' = SeenOf(t)
           /\ \A a : SeenBy(a)' = SeenBy(a)
<1>1. 1..(cursor + 1) = (1..cursor) \cup {cursor + 1} /\ cursor + 1 \notin 1..cursor
  OBVIOUS
<1>2. \A t : SeenOf(t)' = SeenOf(t)
  BY <1>1 DEF SeenOf
<1>3. \A a : SeenBy(a)' = SeenBy(a)
  BY <1>1 DEF SeenBy
<1> QED BY <1>2, <1>3

-----------------------------------------------------------------------------
(* Steps of the registry                                                   *)

\* An empty index of an empty history.
LEMMA InitIndexInv == IndexInit => IndexInv
<1> SUFFICES ASSUME IndexInit PROVE IndexInv
  OBVIOUS
<1>1. KeyInv /\ LatestIsLastEvent
  BY InitKeyInv, InitLatest DEF IndexInit
<1>2. Len(log) = 0 /\ cursor = 0 /\ 1..cursor = {}
  BY DEF IndexInit, Init
<1>3. IndexTypeOK
  BY <1>2 DEF IndexTypeOK, IndexInit
<1>4. (\A t : SeenOf(t) = {}) /\ (\A a : SeenBy(a) = {})
  BY <1>2 DEF SeenOf, SeenBy
<1>5. LastSeenShown /\ VersionsSeen
  BY <1>4 DEF LastSeenShown, VersionsSeen, ContentsOf, IndexInit
<1>6. KeyShown
  BY <1>2 DEF KeyShown, KeyOfRow, NeverRegistered, Or, NoAttestor, IndexInit
<1>7. Counts
  <2>1. \A t \in Tools : ToolCounts(t)
    BY <1>4, FS_EmptySet DEF ToolCounts, Or, NoTool, With, ContentsOf, IndexInit
  <2>2. \A t \in Tools, c \in Contents : VersionCounts(t, c)
    BY <1>4, FS_EmptySet DEF VersionCounts, Or, NoVersion, SeenOfVersion, IndexInit
  <2>3. \A a \in Attestors : AttestorCounts(a)
    <3>1. \A a \in Attestors : ToolsSeenBy(a) = {}
      BY <1>4 DEF ToolsSeenBy
    <3>2. \A a \in Attestors : Or(attestorRow[a], NoAttestor) = NoAttestor
      BY DEF Or, IndexInit
    <3>3. Cardinality({}) = 0 /\ 0 \in 0..0
      BY FS_EmptySet
    <3> QED BY <1>4, <3>1, <3>2, <3>3, FS_EmptySet DEF AttestorCounts, NoAttestor
  <2> QED BY <1>4, <2>1, <2>2, <2>3 DEF Counts, IndexInit
<1> QED BY <1>1, <1>3, <1>5, <1>6, <1>7 DEF IndexInv

\* The index stands still while the registry moves on.
LEMMA RegistryKeepsIndex ==
    ASSUME IndexInv, [Next]_vars, UNCHANGED indexVars
    PROVE  IndexInv'
<1>1. KeyInv' /\ LatestIsLastEvent'
  BY NextKeyInv, NextLatest DEF IndexInv, KeyInv
<1>2. LogGrows
  BY NextGrows DEF IndexInv, KeyInv
<1>3. /\ cursor \in 0..Len(log) /\ cursor' = cursor
      /\ toolRow' = toolRow /\ versionRow' = versionRow
      /\ attestorRow' = attestorRow /\ scanRows' = scanRows
  BY DEF IndexInv, IndexTypeOK, indexVars
<1>4. /\ \A i \in 1..cursor : log'[i] = log[i]
      /\ \A t : SeenOf(t)' = SeenOf(t)
      /\ \A a : SeenBy(a)' = SeenBy(a)
  BY <1>2, <1>3, SeenStays
<1>5. (\A t : SeenOf(t) \subseteq 1..cursor) /\ (\A a : SeenBy(a) \subseteq 1..cursor)
  BY DEF SeenOf, SeenBy
<1>6. IndexTypeOK'
  BY <1>2, <1>3 DEF IndexInv, IndexTypeOK, LogGrows
<1>7. LastSeenShown'
  BY <1>3, <1>4, <1>5 DEF IndexInv, LastSeenShown, IsLastSeen, RowShows
<1>8. KeyShown'
  <2>1. \A a : NeverRegistered(a, cursor)' <=> NeverRegistered(a, cursor)
    BY <1>3, <1>4 DEF NeverRegistered
  <2>2. \A i \in 1..cursor : \A a :
            IsLastRegistration(i, a, cursor) => IsLastRegistration(i, a, cursor)'
    BY <1>3, <1>4 DEF IsLastRegistration
  <2>3. \A a : KeyOfRow(a)' = KeyOfRow(a)
    BY <1>3 DEF KeyOfRow
  <2> QED BY <1>3, <1>4, <2>1, <2>2, <2>3 DEF IndexInv, KeyShown
<1>9. /\ \A t : ContentsOf(SeenOf(t))' = ContentsOf(SeenOf(t))
      /\ \A t, v : With(SeenOf(t), v)' = With(SeenOf(t), v)
      /\ \A t, c : SeenOfVersion(t, c)' = SeenOfVersion(t, c)
      /\ \A a : ToolsSeenBy(a)' = ToolsSeenBy(a)
  BY <1>4, <1>5 DEF ContentsOf, With, SeenOfVersion, ToolsSeenBy
<1>10. VersionsSeen'
  BY <1>3, <1>9 DEF IndexInv, VersionsSeen
<1>11. Counts'
  <2>1. \A t \in Tools : ToolCounts(t)'
    BY <1>3, <1>4, <1>9 DEF IndexInv, Counts, ToolCounts
  <2>2. \A t \in Tools, c \in Contents : VersionCounts(t, c)'
    BY <1>3, <1>9 DEF IndexInv, Counts, VersionCounts
  <2>3. \A a \in Attestors : AttestorCounts(a)'
    BY <1>3, <1>4, <1>9 DEF IndexInv, Counts, AttestorCounts
  <2> QED BY <1>3, <1>4, <2>1, <2>2, <2>3 DEF IndexInv, Counts
<1> QED BY <1>1, <1>6, <1>7, <1>8, <1>10, <1>11 DEF IndexInv

-----------------------------------------------------------------------------
(* Steps of the index                                                      *)

\* Nothing the registry's invariants speak of changes.
LEMMA RegistryStays ==
    ASSUME KeyInv, LatestIsLastEvent, UNCHANGED vars
    PROVE  KeyInv' /\ LatestIsLastEvent'
BY NextKeyInv, NextLatest DEF KeyInv

\* With one more event a registration becomes the last one of its attestor.
LEMMA KeyAfterRegistration ==
    ASSUME cursor \in Nat, cursor' = cursor + 1, log' = log,
           NEW n, n = cursor + 1, NEW a,
           log[n].event = "AttestorRegistered", log[n].attestor = a
    PROVE  IsLastRegistration(n, a, cursor)'
BY DEF IsLastRegistration

\* Any other event leaves the last registration the last one.
LEMMA KeyAfterOther ==
    ASSUME cursor \in Nat, cursor' = cursor + 1, log' = log, NEW a,
           ~ (log[cursor + 1].event = "AttestorRegistered" /\ log[cursor + 1].attestor = a)
    PROVE  /\ NeverRegistered(a, cursor) => NeverRegistered(a, cursor)'
           /\ \A i \in 1..cursor : IsLastRegistration(i, a, cursor)
                                   => IsLastRegistration(i, a, cursor)'
<1>1. 1..(cursor + 1) = (1..cursor) \cup {cursor + 1}
  OBVIOUS
<1>2. NeverRegistered(a, cursor) => NeverRegistered(a, cursor)'
  BY <1>1 DEF NeverRegistered
<1>3. ASSUME NEW i \in 1..cursor, IsLastRegistration(i, a, cursor)
      PROVE  IsLastRegistration(i, a, cursor)'
  <2>1. (i + 1)..(cursor + 1) = ((i + 1)..cursor) \cup {cursor + 1}
    OBVIOUS
  <2> QED BY <1>1, <1>3, <2>1 DEF IsLastRegistration
<1> QED BY <1>2, <1>3

\* The handler of AttestorRegistered.
LEMMA RegisteredKeepsIndex ==
    ASSUME IndexInv, HandleEvent, log[cursor + 1].event = "AttestorRegistered"
    PROVE  IndexInv'
<1> DEFINE e == log[cursor + 1]
<1>1. /\ cursor \in Nat /\ cursor' = cursor + 1 /\ cursor' \in 1..Len(log)
      /\ Len(log) \in Nat
      /\ UNCHANGED vars /\ log' = log
      /\ e \in AttestorRegistered
  BY EventHandled DEF IndexInv, KeyInv, ScanAnchored
<1>2. /\ e.attestor \in Attestors /\ e.key \in Keys
      /\ attestorRow' = [attestorRow EXCEPT ![e.attestor] =
                            [Or(attestorRow[e.attestor], NoAttestor) EXCEPT !.key = e.key]]
      /\ UNCHANGED <<toolRow, versionRow, scanRows>>
  BY <1>1 DEF HandleEvent, OnAttestorRegistered, AttestorRegistered
<1>3. KeyInv' /\ LatestIsLastEvent'
  BY <1>1, RegistryStays DEF IndexInv
<1>4. (\A t : SeenOf(t)' = SeenOf(t)) /\ (\A a : SeenBy(a)' = SeenBy(a))
  BY <1>1, SeenAfterRegistration
<1> HIDE DEF e
<1>5. \A a \in Attestors : Or(attestorRow[a], NoAttestor) \in Attestor
  BY DEF IndexInv, IndexTypeOK, Or, NoAttestor, Attestor
<1>6. [Or(attestorRow[e.attestor], NoAttestor) EXCEPT !.key = e.key] \in Attestor
  BY <1>2, <1>5 DEF Attestor
<1>7. IndexTypeOK'
  BY <1>1, <1>2, <1>6 DEF IndexInv, IndexTypeOK
<1>8. /\ \A a \in Attestors \ {e.attestor} : attestorRow'[a] = attestorRow[a]
      /\ Or(attestorRow'[e.attestor], NoAttestor) =
            [Or(attestorRow[e.attestor], NoAttestor) EXCEPT !.key = e.key]
  BY <1>2, <1>6, UndefinedAssumption DEF IndexInv, IndexTypeOK, Or
<1>9. LastSeenShown'
  BY <1>1, <1>2, <1>4 DEF IndexInv, LastSeenShown, IsLastSeen, RowShows
<1>10. KeyShown'
  <2> SUFFICES ASSUME NEW a \in Attestors
               PROVE  \/ KeyOfRow(a)' = Zero /\ NeverRegistered(a, cursor)'
                      \/ \E i \in 1..cursor' : IsLastRegistration(i, a, cursor)'
                                               /\ KeyOfRow(a)' = log'[i].key
    BY DEF KeyShown
  <2>1. CASE a = e.attestor
    <3>1. KeyOfRow(a)' = e.key
      BY <1>5, <1>8, <2>1 DEF KeyOfRow, Attestor
    <3>2. PICK n : n = cursor + 1
      OBVIOUS
    <3>3. IsLastRegistration(n, a, cursor)'
      BY <1>1, <2>1, <3>2, KeyAfterRegistration DEF e
    <3> QED BY <1>1, <3>1, <3>2, <3>3 DEF e
  <2>2. CASE a # e.attestor
    <3>1. KeyOfRow(a)' = KeyOfRow(a)
      BY <1>8, <2>2 DEF KeyOfRow
    <3>2. /\ NeverRegistered(a, cursor) => NeverRegistered(a, cursor)'
          /\ \A i \in 1..cursor : IsLastRegistration(i, a, cursor)
                                   => IsLastRegistration(i, a, cursor)'
      BY <1>1, <2>2, KeyAfterOther DEF e
    <3> QED BY <1>1, <3>1, <3>2 DEF IndexInv, KeyShown
  <2> QED BY <2>1, <2>2
<1>11. /\ \A t : ContentsOf(SeenOf(t))' = ContentsOf(SeenOf(t))
       /\ \A t, v : With(SeenOf(t), v)' = With(SeenOf(t), v)
       /\ \A t, c : SeenOfVersion(t, c)' = SeenOfVersion(t, c)
       /\ \A a : ToolsSeenBy(a)' = ToolsSeenBy(a)
  BY <1>1, <1>4 DEF ContentsOf, With, SeenOfVersion, ToolsSeenBy
<1>12. VersionsSeen'
  BY <1>2, <1>11 DEF IndexInv, VersionsSeen
<1>13. Counts'
  <2>1. \A t \in Tools : ToolCounts(t)'
    BY <1>2, <1>4, <1>11 DEF IndexInv, Counts, ToolCounts
  <2>2. \A t \in Tools, c \in Contents : VersionCounts(t, c)'
    BY <1>2, <1>11 DEF IndexInv, Counts, VersionCounts
  <2>3. ASSUME NEW a \in Attestors PROVE AttestorCounts(a)'
    <3>1. /\ Or(attestorRow'[a], NoAttestor).scanCount = Or(attestorRow[a], NoAttestor).scanCount
          /\ Or(attestorRow'[a], NoAttestor).toolsCovered =
                Or(attestorRow[a], NoAttestor).toolsCovered
      BY <1>5, <1>8 DEF Attestor
    <3> QED BY <1>4, <1>11, <3>1 DEF IndexInv, Counts, AttestorCounts
  <2> QED BY <1>2, <1>4, <2>1, <2>2, <2>3 DEF IndexInv, Counts
<1> QED BY <1>3, <1>7, <1>9, <1>10, <1>12, <1>13 DEF IndexInv

\* The row the handler of ScanAnchored writes for the event's tool.
LEMMA ToolRowAfter ==
    ASSUME IndexInv, NEW e \in ScanAnchored
    PROVE  LET row == ToolAfter(e, toolRow[e.toolId])
               old == Or(toolRow[e.toolId], NoTool)
           IN  /\ row \in Tool
               /\ RowShows(row, e)
               /\ row.scanCount = old.scanCount + 1
               /\ row.cleanCount = old.cleanCount + One(e.verdict = CLEAN)
               /\ row.warnCount = old.warnCount + One(e.verdict = WARN)
               /\ row.criticalCount = old.criticalCount + One(e.verdict = CRITICAL)
               /\ row.versionCount = old.versionCount + One(IsNewVersion(e))
<1> DEFINE prev == toolRow[e.toolId]
           old == Or(prev, NoTool)
           row == ToolAfter(e, prev)
<1>1. prev \in Tool \cup {Undefined}
  BY DEF IndexInv, IndexTypeOK, ScanAnchored
<1>2. /\ old.scanCount \in Nat /\ old.cleanCount \in Nat /\ old.warnCount \in Nat
      /\ old.criticalCount \in Nat /\ old.versionCount \in Nat
  BY <1>1 DEF Or, NoTool, Tool
<1>3. prev # Undefined => prev.firstSeen \in Nat
  BY <1>1 DEF Tool
<1>4. /\ One(e.verdict = CLEAN) \in Nat /\ One(e.verdict = WARN) \in Nat
      /\ One(e.verdict = CRITICAL) \in Nat /\ One(IsNewVersion(e)) \in Nat
  BY DEF One
<1>5. row = [firstSeen |-> IF prev = Undefined THEN e.timestamp ELSE prev.firstSeen,
             lastSeen |-> e.timestamp,
             scanCount |-> old.scanCount + 1,
             cleanCount |-> old.cleanCount + One(e.verdict = CLEAN),
             warnCount |-> old.warnCount + One(e.verdict = WARN),
             criticalCount |-> old.criticalCount + One(e.verdict = CRITICAL),
             latestVerdict |-> e.verdict,
             latestScore |-> e.score,
             latestContentHash |-> e.contentHash,
             latestAttestor |-> e.attestor,
             versionCount |-> old.versionCount + One(IsNewVersion(e))]
  BY DEF ToolAfter
<1> HIDE DEF prev, old, row
<1>6. row \in Tool
  BY <1>2, <1>3, <1>4, <1>5 DEF Tool, ScanAnchored
<1>7. RowShows(row, e)
  BY <1>5 DEF RowShows
<1> QED BY <1>5, <1>6, <1>7 DEF row, old, prev

\* And the one it writes for its version.
LEMMA VersionRowAfter ==
    ASSUME IndexInv, NEW e \in ScanAnchored
    PROVE  LET prev == versionRow[<<e.toolId, e.contentHash>>]
           IN  /\ VersionAfter(e, prev) \in ToolVersion
               /\ VersionAfter(e, prev).scanCount = Or(prev, NoVersion).scanCount + 1
<1> DEFINE prev == versionRow[<<e.toolId, e.contentHash>>]
           old == Or(prev, NoVersion)
<1>1. prev \in ToolVersion \cup {Undefined}
  BY DEF IndexInv, IndexTypeOK, ScanAnchored
<1>2. old.scanCount \in Nat /\ (prev # Undefined => prev.firstSeen \in Nat)
  BY <1>1 DEF Or, NoVersion, ToolVersion
<1>3. VersionAfter(e, prev) =
         [firstSeen |-> IF prev = Undefined THEN e.timestamp ELSE prev.firstSeen,
          lastSeen |-> e.timestamp,
          scanCount |-> old.scanCount + 1,
          latestVerdict |-> e.verdict,
          latestScore |-> e.score]
  BY DEF VersionAfter
<1> HIDE DEF prev, old
<1>4. VersionAfter(e, prev) \in ToolVersion
  BY <1>2, <1>3 DEF ToolVersion, ScanAnchored
<1> QED BY <1>3, <1>4 DEF prev, old

\* And the one it writes for its attestor.
LEMMA AttestorRowAfter ==
    ASSUME IndexInv, NEW e \in ScanAnchored
    PROVE  LET row == AttestorAfter(e, attestorRow[e.attestor])
               old == Or(attestorRow[e.attestor], NoAttestor)
           IN  /\ old \in Attestor
               /\ row \in Attestor
               /\ row.key = old.key
               /\ row.scanCount = old.scanCount + 1
               /\ row.toolsCovered = old.toolsCovered + One(FirstTimeOnTool(e))
<1> DEFINE old == Or(attestorRow[e.attestor], NoAttestor)
           row == AttestorAfter(e, attestorRow[e.attestor])
<1>1. old \in Attestor
  BY DEF IndexInv, IndexTypeOK, Or, NoAttestor, Attestor, ScanAnchored
<1>2. row = [key |-> old.key, scanCount |-> old.scanCount + 1,
             toolsCovered |-> old.toolsCovered + One(FirstTimeOnTool(e))]
  BY DEF AttestorAfter
<1>3. One(FirstTimeOnTool(e)) \in Nat
  BY DEF One
<1> HIDE DEF old, row
<1>4. old.key \in Keys \cup {Zero} /\ old.scanCount \in Nat /\ old.toolsCovered \in Nat
  BY <1>1 DEF Attestor
<1>5. row \in Attestor
  BY <1>2, <1>3, <1>4 DEF Attestor
<1> QED BY <1>1, <1>2, <1>5 DEF old, row

\* What the handler of ScanAnchored leaves, n being the event's position.
AnchorHandled(n, e) ==
    /\ cursor \in Nat /\ cursor' = n /\ n = cursor + 1 /\ n \in 1..Len(log)
    /\ UNCHANGED vars /\ log' = log
    /\ e = log[n] /\ e \in ScanAnchored
    /\ toolRow' = [toolRow EXCEPT ![e.toolId] = ToolAfter(e, toolRow[e.toolId])]
    /\ versionRow' = [versionRow EXCEPT ![<<e.toolId, e.contentHash>>] =
                         VersionAfter(e, versionRow[<<e.toolId, e.contentHash>>])]
    /\ attestorRow' = [attestorRow EXCEPT ![e.attestor] =
                         AttestorAfter(e, attestorRow[e.attestor])]
    /\ scanRows' = scanRows \cup {n}

\* What it adds to the sets the index is counted against.
SeenGrows(n, e) ==
    /\ \A t : SeenOf(t)' = IF e.toolId = t THEN SeenOf(t) \cup {n} ELSE SeenOf(t)
    /\ \A a : SeenBy(a)' = IF e.attestor = a THEN SeenBy(a) \cup {n} ELSE SeenBy(a)
    /\ \A t : SeenOf(t) \in SUBSET (1..cursor) /\ IsFiniteSet(SeenOf(t)) /\ n \notin SeenOf(t)
    /\ \A a : SeenBy(a) \in SUBSET (1..cursor) /\ IsFiniteSet(SeenBy(a)) /\ n \notin SeenBy(a)

\* The two hold of every step of that handler.
LEMMA AnchorIsHandled ==
    ASSUME IndexInv, HandleEvent, log[cursor + 1].event = "ScanAnchored"
    PROVE  \E n, e : AnchorHandled(n, e) /\ SeenGrows(n, e)
<1>1. PICK n, e : n = cursor + 1 /\ e = log[n]
  OBVIOUS
<1>2. /\ cursor \in Nat /\ cursor' = n /\ n \in 1..Len(log)
      /\ UNCHANGED vars /\ log' = log
      /\ e \in ScanAnchored
  BY <1>1, EventHandled DEF IndexInv, KeyInv, AttestorRegistered
<1>3. OnScanAnchored(e)
  BY <1>1 DEF HandleEvent
<1>4. /\ toolRow' = [toolRow EXCEPT ![e.toolId] = ToolAfter(e, toolRow[e.toolId])]
      /\ versionRow' = [versionRow EXCEPT ![<<e.toolId, e.contentHash>>] =
                           VersionAfter(e, versionRow[<<e.toolId, e.contentHash>>])]
      /\ scanRows' = scanRows \cup {n}
  BY <1>1, <1>3 DEF OnScanAnchored
<1>5. attestorRow' = [attestorRow EXCEPT ![e.attestor] =
                        AttestorAfter(e, attestorRow[e.attestor])]
  BY <1>3 DEF OnScanAnchored
<1>6. AnchorHandled(n, e)
  BY <1>1, <1>2, <1>4, <1>5 DEF AnchorHandled
<1>7. SeenGrows(n, e)
  BY <1>1, <1>2, SeenAfterAnchor, SeenFinite DEF SeenGrows
<1> QED BY <1>6, <1>7

\* The last anchor seen of every tool is still shown.
LEMMA AnchoredLastSeen ==
    ASSUME IndexInv, NEW n, NEW e, AnchorHandled(n, e), SeenGrows(n, e)
    PROVE  LastSeenShown'
<1>1. /\ cursor \in Nat /\ n = cursor + 1 /\ log' = log /\ e = log[n] /\ e \in ScanAnchored
      /\ toolRow' = [toolRow EXCEPT ![e.toolId] = ToolAfter(e, toolRow[e.toolId])]
  BY DEF AnchorHandled
<1>2. /\ ToolAfter(e, toolRow[e.toolId]) \in Tool
      /\ RowShows(ToolAfter(e, toolRow[e.toolId]), e)
  BY <1>1, ToolRowAfter
<1>3. toolRow \in [Tools -> Tool \cup {Undefined}]
  BY DEF IndexInv, IndexTypeOK
<1> SUFFICES ASSUME NEW t \in Tools
             PROVE  IF toolRow'[t] = Undefined THEN SeenOf(t)' = {}
                    ELSE \E i \in SeenOf(t)' : IsLastSeen(i, t)' /\ RowShows(toolRow'[t], log[i])
  BY <1>1 DEF LastSeenShown, RowShows
<1>4. CASE t = e.toolId
  <2>1. toolRow'[t] # Undefined /\ RowShows(toolRow'[t], log[n])
    BY <1>1, <1>2, <1>3, <1>4, UndefinedAssumption
  <2>2. n \in SeenOf(t)' /\ \A j \in SeenOf(t)' : j <= n
    BY <1>1, <1>4 DEF SeenGrows
  <2> QED BY <2>1, <2>2 DEF IsLastSeen
<1>5. CASE t # e.toolId
  <2>1. toolRow'[t] = toolRow[t] /\ SeenOf(t)' = SeenOf(t)
    BY <1>1, <1>3, <1>5 DEF SeenGrows
  <2> QED BY <2>1 DEF IndexInv, LastSeenShown, IsLastSeen
<1> QED BY <1>4, <1>5

\* Which versions have a row.
LEMMA AnchoredVersions ==
    ASSUME IndexInv, NEW n, NEW e, AnchorHandled(n, e), SeenGrows(n, e)
    PROVE  /\ \A t : ContentsOf(SeenOf(t))' = IF t = e.toolId
                                              THEN ContentsOf(SeenOf(t)) \cup {e.contentHash}
                                              ELSE ContentsOf(SeenOf(t))
           /\ VersionsSeen'
<1>1. log' = log /\ e = log[n]
  BY DEF AnchorHandled
<1>2. \A t : ContentsOf(SeenOf(t))' = IF t = e.toolId
                                      THEN ContentsOf(SeenOf(t)) \cup {e.contentHash}
                                      ELSE ContentsOf(SeenOf(t))
  BY <1>1 DEF SeenGrows, ContentsOf
<1> DEFINE v == <<e.toolId, e.contentHash>>
           new == VersionAfter(e, versionRow[v])
<1>3. v \in Tools \X Contents /\ new \in ToolVersion /\ new # Undefined
  BY VersionRowAfter, UndefinedAssumption DEF AnchorHandled, ScanAnchored
<1>4. versionRow' = [versionRow EXCEPT ![v] = new]
  BY DEF AnchorHandled
<1>5. versionRow \in [Tools \X Contents -> ToolVersion \cup {Undefined}]
  BY DEF IndexInv, IndexTypeOK
<1> HIDE DEF new
<1>6. ASSUME NEW t \in Tools, NEW c \in Contents
      PROVE  versionRow'[<<t, c>>] = Undefined <=> c \notin ContentsOf(SeenOf(t))'
  <2>1. versionRow[<<t, c>>] = Undefined <=> c \notin ContentsOf(SeenOf(t))
    BY DEF IndexInv, VersionsSeen
  <2>2. CASE t = e.toolId /\ c = e.contentHash
    BY <1>2, <1>3, <1>4, <1>5, <2>2
  <2>3. CASE ~ (t = e.toolId /\ c = e.contentHash)
    <3>1. <<t, c>> # v /\ <<t, c>> \in Tools \X Contents
      BY <2>3
    <3>2. versionRow'[<<t, c>>] = versionRow[<<t, c>>]
      BY <1>4, <1>5, <3>1
    <3> QED BY <1>2, <2>1, <2>3, <3>2
  <2> QED BY <2>2, <2>3
<1> QED BY <1>2, <1>6 DEF VersionsSeen

\* The counts of a tool.
LEMMA AnchoredToolCounts ==
    ASSUME IndexInv, NEW n, NEW e, AnchorHandled(n, e), SeenGrows(n, e), NEW t \in Tools
    PROVE  ToolCounts(t)'
<1>1. /\ log' = log /\ e = log[n] /\ e \in ScanAnchored
      /\ toolRow' = [toolRow EXCEPT ![e.toolId] = ToolAfter(e, toolRow[e.toolId])]
      /\ toolRow \in [Tools -> Tool \cup {Undefined}]
  BY DEF AnchorHandled, IndexInv, IndexTypeOK
<1>2. ToolCounts(t)
  BY DEF IndexInv, Counts
<1>3. ContentsOf(SeenOf(t))' = IF t = e.toolId
                               THEN ContentsOf(SeenOf(t)) \cup {e.contentHash}
                               ELSE ContentsOf(SeenOf(t))
  BY AnchoredVersions
<1>4. CASE t # e.toolId
  <2>1. SeenOf(t)' = SeenOf(t) /\ toolRow'[t] = toolRow[t]
    BY <1>1, <1>4 DEF SeenGrows
  <2>2. \A v : With(SeenOf(t), v)' = With(SeenOf(t), v)
    BY <1>1, <2>1 DEF With
  <2> QED BY <1>2, <1>3, <1>4, <2>1, <2>2 DEF ToolCounts
<1>5. CASE t = e.toolId
  <2> DEFINE old == Or(toolRow[t], NoTool)
             row == ToolAfter(e, toolRow[t])
  <2>1. /\ row \in Tool
        /\ row.scanCount = old.scanCount + 1
        /\ row.cleanCount = old.cleanCount + One(e.verdict = CLEAN)
        /\ row.warnCount = old.warnCount + One(e.verdict = WARN)
        /\ row.criticalCount = old.criticalCount + One(e.verdict = CRITICAL)
        /\ row.versionCount = old.versionCount + One(IsNewVersion(e))
    BY <1>1, <1>5, ToolRowAfter
  <2> HIDE DEF row
  <2>2. Or(toolRow'[t], NoTool) = row
    BY <1>1, <1>5, <2>1, UndefinedAssumption DEF Or, row
  <2> HIDE DEF old
  <2>3. /\ old.scanCount = Cardinality(SeenOf(t))
        /\ old.cleanCount = Cardinality(With(SeenOf(t), CLEAN))
        /\ old.warnCount = Cardinality(With(SeenOf(t), WARN))
        /\ old.criticalCount = Cardinality(With(SeenOf(t), CRITICAL))
        /\ old.versionCount = Cardinality(ContentsOf(SeenOf(t)))
        /\ IsFiniteSet(ContentsOf(SeenOf(t)))
    BY <1>2 DEF ToolCounts, old
  <2>4. SeenOf(t)' = SeenOf(t) \cup {n} /\ n \notin SeenOf(t) /\ IsFiniteSet(SeenOf(t))
    BY <1>5 DEF SeenGrows
  <2>5. Cardinality(SeenOf(t)') = Cardinality(SeenOf(t)) + 1
    BY <2>4, FS_AddElement
  <2>6. ASSUME NEW v
        PROVE  Cardinality(With(SeenOf(t), v)') =
                  Cardinality(With(SeenOf(t), v)) + One(e.verdict = v)
    <3>1. /\ With(SeenOf(t), v)' = IF e.verdict = v THEN With(SeenOf(t), v) \cup {n}
                                   ELSE With(SeenOf(t), v)
          /\ With(SeenOf(t), v) \in SUBSET SeenOf(t)
          /\ n \notin With(SeenOf(t), v)
      BY <1>1, <2>4 DEF With
    <3>2. IsFiniteSet(With(SeenOf(t), v)) /\ Cardinality(With(SeenOf(t), v)) \in Nat
      BY <2>4, <3>1, SubsetFinite
    <3>3. Cardinality(With(SeenOf(t), v) \cup {n}) = Cardinality(With(SeenOf(t), v)) + 1
      BY <3>1, <3>2, FS_AddElement
    <3> QED BY <3>1, <3>2, <3>3 DEF One
  <2>7. Cardinality(ContentsOf(SeenOf(t))') =
           Cardinality(ContentsOf(SeenOf(t))) + One(IsNewVersion(e))
    <3>1. IsNewVersion(e) <=> e.contentHash \notin ContentsOf(SeenOf(t))
      BY <1>1, <1>5 DEF IndexInv, VersionsSeen, IsNewVersion, ScanAnchored
    <3>2. Cardinality(ContentsOf(SeenOf(t))) \in Nat
      BY <2>3, FS_CardinalityType
    <3>3. ContentsOf(SeenOf(t))' = ContentsOf(SeenOf(t)) \cup {e.contentHash}
      BY <1>3, <1>5
    <3>4. Cardinality(ContentsOf(SeenOf(t)) \cup {e.contentHash}) =
             IF e.contentHash \in ContentsOf(SeenOf(t)) THEN Cardinality(ContentsOf(SeenOf(t)))
             ELSE Cardinality(ContentsOf(SeenOf(t))) + 1
      BY <2>3, FS_AddElement
    <3> QED BY <3>1, <3>2, <3>3, <3>4 DEF One
  <2>8. IsFiniteSet(ContentsOf(SeenOf(t))')
    BY <1>3, <1>5, <2>3, FS_AddElement
  <2>9. /\ row.cleanCount = Cardinality(With(SeenOf(t), CLEAN)')
        /\ row.warnCount = Cardinality(With(SeenOf(t), WARN)')
        /\ row.criticalCount = Cardinality(With(SeenOf(t), CRITICAL)')
    BY <2>1, <2>3, <2>6
  <2>10. /\ row.scanCount = Cardinality(SeenOf(t)')
         /\ row.versionCount = Cardinality(ContentsOf(SeenOf(t))')
    BY <2>1, <2>3, <2>5, <2>7
  <2>11. CLEAN' = CLEAN /\ WARN' = WARN /\ CRITICAL' = CRITICAL
    BY DEF CLEAN, WARN, CRITICAL
  <2> QED BY <2>2, <2>8, <2>9, <2>10, <2>11 DEF ToolCounts
<1> QED BY <1>4, <1>5

\* The count of a version.
LEMMA AnchoredVersionCounts ==
    ASSUME IndexInv, NEW n, NEW e, AnchorHandled(n, e), SeenGrows(n, e),
           NEW t \in Tools, NEW c \in Contents
    PROVE  VersionCounts(t, c)'
<1> DEFINE v == <<e.toolId, e.contentHash>>
           new == VersionAfter(e, versionRow[v])
<1>1. /\ log' = log /\ e = log[n] /\ e \in ScanAnchored
      /\ versionRow' = [versionRow EXCEPT ![v] = new]
      /\ versionRow \in [Tools \X Contents -> ToolVersion \cup {Undefined}]
  BY DEF AnchorHandled, IndexInv, IndexTypeOK
<1>2. /\ v \in Tools \X Contents /\ new \in ToolVersion /\ new # Undefined
      /\ new.scanCount = Or(versionRow[v], NoVersion).scanCount + 1
  BY <1>1, VersionRowAfter, UndefinedAssumption DEF ScanAnchored
<1> HIDE DEF new
<1>3. VersionCounts(t, c)
  BY DEF IndexInv, Counts
<1>4. SeenOfVersion(t, c)' = IF t = e.toolId /\ c = e.contentHash
                             THEN SeenOfVersion(t, c) \cup {n} ELSE SeenOfVersion(t, c)
  BY <1>1 DEF SeenOfVersion, SeenGrows
<1>5. CASE t = e.toolId /\ c = e.contentHash
  <2>1. /\ SeenOfVersion(t, c) \in SUBSET SeenOf(t) /\ IsFiniteSet(SeenOf(t))
        /\ n \notin SeenOfVersion(t, c)
    BY DEF SeenOfVersion, SeenGrows
  <2>2. Cardinality(SeenOfVersion(t, c) \cup {n}) = Cardinality(SeenOfVersion(t, c)) + 1
    BY <2>1, SubsetFinite, FS_AddElement
  <2>3. versionRow'[<<t, c>>] = new /\ v = <<t, c>>
    BY <1>1, <1>2, <1>5
  <2>4. Or(versionRow'[<<t, c>>], NoVersion).scanCount =
           Or(versionRow[<<t, c>>], NoVersion).scanCount + 1
    BY <1>2, <2>3 DEF Or
  <2> QED BY <1>3, <1>4, <1>5, <2>2, <2>4 DEF VersionCounts
<1>6. CASE ~ (t = e.toolId /\ c = e.contentHash)
  <2>1. <<t, c>> # v /\ <<t, c>> \in Tools \X Contents
    BY <1>6
  <2>2. versionRow'[<<t, c>>] = versionRow[<<t, c>>]
    BY <1>1, <2>1
  <2> QED BY <1>3, <1>4, <1>6, <2>2 DEF VersionCounts
<1> QED BY <1>5, <1>6

\* The counts of an attestor.  A first time that was none only counts twice:
\* where the handler sees no first time, the tool's last anchor was its own.
LEMMA AnchoredAttestorCounts ==
    ASSUME IndexInv, NEW n, NEW e, AnchorHandled(n, e), SeenGrows(n, e), NEW a \in Attestors
    PROVE  AttestorCounts(a)'
<1> DEFINE old == Or(attestorRow[e.attestor], NoAttestor)
           row == AttestorAfter(e, attestorRow[e.attestor])
<1>1. /\ log' = log /\ e = log[n] /\ e \in ScanAnchored
      /\ attestorRow' = [attestorRow EXCEPT ![e.attestor] = row]
      /\ attestorRow \in [Attestors -> Attestor \cup {Undefined}]
  BY DEF AnchorHandled, IndexInv, IndexTypeOK
<1>2. /\ old \in Attestor /\ row \in Attestor
      /\ row.scanCount = old.scanCount + 1
      /\ row.toolsCovered = old.toolsCovered + One(FirstTimeOnTool(e))
  BY <1>1, AttestorRowAfter
<1> HIDE DEF row, old
<1>3. AttestorCounts(a)
  BY DEF IndexInv, Counts
<1>4. ToolsSeenBy(a)' = IF a = e.attestor THEN ToolsSeenBy(a) \cup {e.toolId} ELSE ToolsSeenBy(a)
  BY <1>1 DEF ToolsSeenBy, SeenGrows
<1>5. CASE a # e.attestor
  <2>1. SeenBy(a)' = SeenBy(a) /\ attestorRow'[a] = attestorRow[a]
    BY <1>1, <1>5 DEF SeenGrows
  <2> QED BY <1>3, <1>4, <1>5, <2>1 DEF AttestorCounts
<1>6. CASE a = e.attestor
  <2>1. Or(attestorRow'[a], NoAttestor) = row
    BY <1>1, <1>2, <1>6, UndefinedAssumption DEF Or
  <2>2. /\ old.scanCount = Cardinality(SeenBy(a))
        /\ old.toolsCovered \in Cardinality(ToolsSeenBy(a))..old.scanCount
        /\ IsFiniteSet(ToolsSeenBy(a))
    BY <1>3, <1>6 DEF AttestorCounts, old
  <2>3. SeenBy(a)' = SeenBy(a) \cup {n} /\ n \notin SeenBy(a) /\ IsFiniteSet(SeenBy(a))
    BY <1>6 DEF SeenGrows
  <2>4. Cardinality(SeenBy(a)') = Cardinality(SeenBy(a)) + 1
    BY <2>3, FS_AddElement
  <2>5. ToolsSeenBy(a)' = ToolsSeenBy(a) \cup {e.toolId}
    BY <1>4, <1>6
  <2>6. IsFiniteSet(ToolsSeenBy(a)')
    BY <2>2, <2>5, FS_AddElement
  <2>7. Cardinality(ToolsSeenBy(a)) \in Nat /\ Cardinality(SeenBy(a)) \in Nat
    BY <2>2, <2>3, FS_CardinalityType
  <2>8. Cardinality(ToolsSeenBy(a)') =
           IF e.toolId \in ToolsSeenBy(a) THEN Cardinality(ToolsSeenBy(a))
           ELSE Cardinality(ToolsSeenBy(a)) + 1
    BY <2>2, <2>5, FS_AddElement
  <2>9. ~ FirstTimeOnTool(e) => e.toolId \in ToolsSeenBy(a)
    <3> SUFFICES ASSUME ~ FirstTimeOnTool(e) PROVE e.toolId \in ToolsSeenBy(a)
      OBVIOUS
    <3>1. toolRow[e.toolId] # Undefined /\ toolRow[e.toolId].latestAttestor = a
      BY <1>6 DEF FirstTimeOnTool
    <3>2. PICK i \in SeenOf(e.toolId) : RowShows(toolRow[e.toolId], log[i])
      BY <1>1, <3>1 DEF IndexInv, LastSeenShown, ScanAnchored
    <3> QED BY <3>1, <3>2 DEF RowShows, SeenOf, SeenBy, ToolsSeenBy
  <2>10. row.toolsCovered \in Cardinality(ToolsSeenBy(a)')..row.scanCount
    BY <1>2, <2>2, <2>7, <2>8, <2>9 DEF One
  <2>11. row.scanCount = Cardinality(SeenBy(a)')
    BY <1>2, <2>2, <2>4
  <2> QED BY <2>1, <2>6, <2>10, <2>11 DEF AttestorCounts
<1> QED BY <1>5, <1>6

\* The handler of ScanAnchored.
LEMMA AnchoredKeepsIndex ==
    ASSUME IndexInv, HandleEvent, log[cursor + 1].event = "ScanAnchored"
    PROVE  IndexInv'
<1>1. PICK n, e : AnchorHandled(n, e) /\ SeenGrows(n, e)
  BY AnchorIsHandled
<1>2. KeyInv' /\ LatestIsLastEvent'
  BY <1>1, RegistryStays DEF IndexInv, AnchorHandled
<1>3. e \in ScanAnchored /\ e.attestor \in Attestors /\ e.toolId \in Tools
  BY <1>1 DEF AnchorHandled, ScanAnchored
<1>4. IndexTypeOK'
  <2>1. cursor' \in 0..Len(log')
    BY <1>1 DEF AnchorHandled
  <2>2. toolRow' \in [Tools -> Tool \cup {Undefined}]
    BY <1>1, <1>3, ToolRowAfter DEF AnchorHandled, IndexInv, IndexTypeOK
  <2>3. versionRow' \in [Tools \X Contents -> ToolVersion \cup {Undefined}]
    <3> DEFINE new == VersionAfter(e, versionRow[<<e.toolId, e.contentHash>>])
    <3>1. new \in ToolVersion
      BY <1>3, VersionRowAfter
    <3>2. /\ versionRow' = [versionRow EXCEPT ![<<e.toolId, e.contentHash>>] = new]
          /\ versionRow \in [Tools \X Contents -> ToolVersion \cup {Undefined}]
      BY <1>1 DEF AnchorHandled, IndexInv, IndexTypeOK
    <3> HIDE DEF new
    <3> QED BY <3>1, <3>2
  <2>4. attestorRow' \in [Attestors -> Attestor \cup {Undefined}]
    BY <1>1, <1>3, AttestorRowAfter DEF AnchorHandled, IndexInv, IndexTypeOK
  <2> QED BY <2>1, <2>2, <2>3, <2>4 DEF IndexTypeOK
<1>5. KeyShown'
  <2> SUFFICES ASSUME NEW a \in Attestors
               PROVE  \/ KeyOfRow(a)' = Zero /\ NeverRegistered(a, cursor)'
                      \/ \E i \in 1..cursor' : IsLastRegistration(i, a, cursor)'
                                               /\ KeyOfRow(a)' = log'[i].key
    BY DEF KeyShown
  <2>1. KeyOfRow(a)' = KeyOfRow(a)
    <3> DEFINE row == AttestorAfter(e, attestorRow[e.attestor])
    <3>1. row \in Attestor /\ row.key = Or(attestorRow[e.attestor], NoAttestor).key
      BY <1>3, AttestorRowAfter
    <3>2. /\ attestorRow' = [attestorRow EXCEPT ![e.attestor] = row]
          /\ attestorRow \in [Attestors -> Attestor \cup {Undefined}]
      BY <1>1 DEF AnchorHandled, IndexInv, IndexTypeOK
    <3> HIDE DEF row
    <3> QED BY <1>3, <3>1, <3>2, UndefinedAssumption DEF KeyOfRow, Or
  <2>2. /\ cursor \in Nat /\ cursor' = cursor + 1 /\ log' = log
        /\ log[cursor + 1].event = "ScanAnchored"
    BY <1>1, <1>3 DEF AnchorHandled, ScanAnchored
  <2>3. /\ NeverRegistered(a, cursor) => NeverRegistered(a, cursor)'
        /\ \A i \in 1..cursor : IsLastRegistration(i, a, cursor)
                                 => IsLastRegistration(i, a, cursor)'
    BY <2>2, KeyAfterOther
  <2> QED BY <2>1, <2>2, <2>3 DEF IndexInv, KeyShown
<1>6. Counts'
  <2>1. scanRows' = UNION {SeenOf(t)' : t \in Tools}
    <3>1. scanRows = UNION {SeenOf(t) : t \in Tools} /\ scanRows' = scanRows \cup {n}
      BY <1>1 DEF IndexInv, Counts, AnchorHandled
    <3> QED BY <1>1, <1>3, <3>1 DEF SeenGrows
  <2> QED BY <1>1, <2>1, AnchoredToolCounts, AnchoredVersionCounts, AnchoredAttestorCounts
          DEF Counts
<1> QED BY <1>1, <1>2, <1>4, <1>5, <1>6, AnchoredLastSeen, AnchoredVersions DEF IndexInv

-----------------------------------------------------------------------------
(* The theorems                                                            *)

\* Every step keeps the invariant.
LEMMA NextIndexInv == IndexInv /\ [IndexNext]_<<vars, indexVars>> => IndexInv'
<1> SUFFICES ASSUME IndexInv, [IndexNext]_<<vars, indexVars>> PROVE IndexInv'
  OBVIOUS
<1>1. CASE HandleEvent
  BY <1>1, RegisteredKeepsIndex, AnchoredKeepsIndex DEF HandleEvent
<1>2. CASE Next /\ UNCHANGED indexVars
  BY <1>2, RegistryKeepsIndex
<1>3. CASE UNCHANGED <<vars, indexVars>>
  BY <1>3, RegistryKeepsIndex
<1> QED BY <1>1, <1>2, <1>3 DEF IndexNext

\* The invariant gives the aggregates.
LEMMA CountsAreOfTrail == IndexInv => AggregatesMatchTrail
<1> SUFFICES ASSUME IndexInv PROVE AggregatesMatchTrail
  OBVIOUS
<1>1. scanRows = UNION {SeenOf(t) : t \in Tools}
  BY DEF IndexInv, Counts
<1>2. \A t \in Tools : toolRow[t] = Undefined <=> SeenOf(t) = {}
  BY DEF IndexInv, LastSeenShown
<1>3. ASSUME NEW t \in Tools, SeenOf(t) # {}
      PROVE  /\ toolRow[t].scanCount = Cardinality(SeenOf(t))
             /\ toolRow[t].cleanCount = Cardinality(With(SeenOf(t), CLEAN))
             /\ toolRow[t].warnCount = Cardinality(With(SeenOf(t), WARN))
             /\ toolRow[t].criticalCount = Cardinality(With(SeenOf(t), CRITICAL))
             /\ toolRow[t].versionCount = Cardinality(ContentsOf(SeenOf(t)))
  <2>1. Or(toolRow[t], NoTool) = toolRow[t]
    BY <1>2, <1>3 DEF Or
  <2> QED BY <2>1 DEF IndexInv, Counts, ToolCounts
<1>4. ASSUME NEW t \in Tools, NEW c \in ContentsOf(SeenOf(t))
      PROVE  versionRow[<<t, c>>].scanCount =
                Cardinality({i \in SeenOf(t) : log[i].contentHash = c})
  <2>1. c \in Contents
    <3>1. PICK i \in 1..cursor : log[i].event = "ScanAnchored" /\ log[i].contentHash = c
      BY DEF ContentsOf, SeenOf
    <3>2. i \in 1..Len(log)
      BY LenProperties DEF IndexInv, KeyInv, TypeOK, IndexTypeOK
    <3>3. log[i] \in ScanAnchored
      BY <3>1, <3>2, ElementOfSeq DEF IndexInv, KeyInv, TypeOK, AttestorRegistered
    <3> QED BY <3>1, <3>3 DEF ScanAnchored
  <2>2. Or(versionRow[<<t, c>>], NoVersion) = versionRow[<<t, c>>]
    BY <2>1 DEF Or, IndexInv, VersionsSeen
  <2> QED BY <2>1, <2>2 DEF IndexInv, Counts, VersionCounts, SeenOfVersion
<1>5. \A a \in Attestors :
         /\ Or(attestorRow[a], NoAttestor).scanCount = Cardinality(SeenBy(a))
         /\ Or(attestorRow[a], NoAttestor).toolsCovered
              \in Cardinality({log[i].toolId : i \in SeenBy(a)})..Or(attestorRow[a], NoAttestor).scanCount
  BY DEF IndexInv, Counts, AttestorCounts, ToolsSeenBy
<1> QED BY <1>1, <1>2, <1>3, <1>4, <1>5 DEF AggregatesMatchTrail

\* An index that has seen every event knows what storage knows.
LEMMA CaughtUpAgrees == IndexInv => CaughtUpIndexMatchesStorage
<1> SUFFICES ASSUME IndexInv, cursor = Len(log)
             PROVE  /\ \A t \in Tools :
                         IF toolRow[t] = Undefined
                         THEN \A a \in Attestors : latest[t][a].timestamp = 0
                         ELSE LET slot == latest[t][toolRow[t].latestAttestor]
                              IN  /\ slot.verdict = toolRow[t].latestVerdict
                                  /\ slot.score = toolRow[t].latestScore
                                  /\ slot.contentHash = toolRow[t].latestContentHash
                                  /\ slot.timestamp = toolRow[t].lastSeen
                    /\ \A a \in Attestors : Or(attestorRow[a], NoAttestor).key = attestorKey[a]
  BY DEF CaughtUpIndexMatchesStorage
<1>1. LatestIsLastEvent /\ KeyIsLastRegistered /\ LastSeenShown /\ KeyShown
  BY DEF IndexInv, KeyInv
<1>2. \A t \in Tools, a \in Attestors :
         AnchorsOf(t, a) = {i \in SeenOf(t) : log[i].attestor = a}
  BY DEF AnchorsOf, SeenOf
<1>3. ASSUME NEW t \in Tools, toolRow[t] = Undefined, NEW a \in Attestors
      PROVE  latest[t][a].timestamp = 0
  BY <1>1, <1>2, <1>3 DEF LastSeenShown, LatestIsLastEvent, EmptySlot
<1>4. ASSUME NEW t \in Tools, toolRow[t] # Undefined
      PROVE  LET slot == latest[t][toolRow[t].latestAttestor]
             IN  /\ slot.verdict = toolRow[t].latestVerdict
                 /\ slot.score = toolRow[t].latestScore
                 /\ slot.contentHash = toolRow[t].latestContentHash
                 /\ slot.timestamp = toolRow[t].lastSeen
  <2>1. PICK i \in SeenOf(t) : IsLastSeen(i, t) /\ RowShows(toolRow[t], log[i])
    BY <1>1, <1>4 DEF LastSeenShown
  <2>2. toolRow[t].latestAttestor \in Attestors
    BY <1>4 DEF IndexInv, IndexTypeOK, Tool
  <2>3. i \in AnchorsOf(t, toolRow[t].latestAttestor)
        /\ \A j \in AnchorsOf(t, toolRow[t].latestAttestor) : j <= i
    BY <1>2, <2>1, <2>2 DEF IsLastSeen, RowShows
  <2> QED BY <1>1, <2>1, <2>2, <2>3 DEF LatestIsLastEvent, RowShows
<1>5. ASSUME NEW a \in Attestors
      PROVE  KeyOfRow(a) = attestorKey[a]
  <2>1. CASE KeyOfRow(a) = Zero /\ NeverRegistered(a, cursor)
    BY <1>1, <2>1 DEF KeyIsLastRegistered, NeverRegistered, IsLastRegistration
  <2>2. CASE \E i \in 1..cursor : IsLastRegistration(i, a, cursor) /\ KeyOfRow(a) = log[i].key
    <3>1. PICK i \in 1..cursor : IsLastRegistration(i, a, cursor) /\ KeyOfRow(a) = log[i].key
      BY <2>2
    <3>2. PICK j \in 1..Len(log) : IsLastRegistration(j, a, Len(log)) /\ log[j].key = attestorKey[a]
      BY <1>1, <3>1 DEF KeyIsLastRegistered, IsLastRegistration
    <3>3. cursor \in Nat
      BY LenProperties DEF IndexInv, KeyInv, TypeOK, IndexTypeOK
    <3>4. i = j
      BY <3>1, <3>2, <3>3 DEF IsLastRegistration
    <3> QED BY <3>1, <3>2, <3>4
  <2> QED BY <1>1, <2>1, <2>2 DEF KeyShown
<1> QED BY <1>3, <1>4, <1>5 DEF KeyOfRow

\* At every lag the aggregates are those of the trail the index keeps.
THEOREM AggregatesMatchTrailHolds == IndexSpec => []AggregatesMatchTrail
BY InitIndexInv, NextIndexInv, CountsAreOfTrail, PTL DEF IndexSpec

\* An index that has caught up says what the contract's storage says.
THEOREM CaughtUpIndexMatchesStorageHolds == IndexSpec => []CaughtUpIndexMatchesStorage
BY InitIndexInv, NextIndexInv, CaughtUpAgrees, PTL DEF IndexSpec
=============================================================================
