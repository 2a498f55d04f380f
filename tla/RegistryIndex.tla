---------------------------- MODULE RegistryIndex ----------------------------
(***************************************************************************)
(* indexer/src/EventHandlers.ts on top of ScanRegistry: HyperIndex feeds   *)
(* the contract's events, in order and once each, to two handlers that     *)
(* keep four tables.  The index may lag behind the chain by any amount.    *)
(*                                                                         *)
(* A Scan row is its event, so the table is the set of the events'         *)
(* positions (txHash-logIndex); a block is a second, so blockNumber orders *)
(* rows as their timestamp does.                                           *)
(***************************************************************************)
EXTENDS ScanRegistry

CONSTANT Undefined      \* context.X.get of an id never set

WARN     == 2
CRITICAL == 3

VARIABLES
    cursor,         \* events handed to the handlers so far
    toolRow,        \* Tool: toolId => its aggregates
    versionRow,     \* ToolVersion: toolId-contentHash => its aggregates
    attestorRow,    \* Attestor: address => key and counters
    scanRows        \* Scan: positions of the anchors seen

indexVars == <<cursor, toolRow, versionRow, attestorRow, scanRows>>

-----------------------------------------------------------------------------
(* The tables (schema.graphql)                                             *)

Tool ==
    [firstSeen : Nat, lastSeen : Nat, scanCount : Nat, cleanCount : Nat,
     warnCount : Nat, criticalCount : Nat, latestVerdict : 0..VERDICT_MAX,
     latestScore : 0..SCORE_MAX, latestContentHash : Contents,
     latestAttestor : Attestors, versionCount : Nat]

ToolVersion ==
    [firstSeen : Nat, lastSeen : Nat, scanCount : Nat,
     latestVerdict : 0..VERDICT_MAX, latestScore : 0..SCORE_MAX]

Attestor == [key : Keys \cup {Zero}, scanCount : Nat, toolsCovered : Nat]

\* undefined is no row.
ASSUME UndefinedAssumption == Undefined \notin Tool \cup ToolVersion \cup Attestor

IndexInit ==
    /\ Init
    /\ cursor = 0
    /\ toolRow = [t \in Tools |-> Undefined]
    /\ versionRow = [v \in Tools \X Contents |-> Undefined]
    /\ attestorRow = [a \in Attestors |-> Undefined]
    /\ scanRows = {}

NoTool     == [scanCount |-> 0, cleanCount |-> 0, warnCount |-> 0,
               criticalCount |-> 0, versionCount |-> 0]
NoVersion  == [scanCount |-> 0]
NoAttestor == [key |-> Zero, scanCount |-> 0, toolsCovered |-> 0]

\* prev?.field ?? 0
Or(prev, default) == IF prev = Undefined THEN default ELSE prev

One(cond) == IF cond THEN 1 ELSE 0

OnAttestorRegistered(e) ==
    /\ attestorRow' = [attestorRow EXCEPT ![e.attestor] =
            [Or(@, NoAttestor) EXCEPT !.key = e.key]]
    /\ UNCHANGED <<toolRow, versionRow, scanRows>>

\* MUTANT: the row an older attestor wrote is kept as the latest.
ToolAfter_FirstStays(e, prev) ==
    LET old == Or(prev, NoTool)
    IN  [firstSeen |-> IF prev = Undefined THEN e.timestamp ELSE prev.firstSeen,
         lastSeen |-> e.timestamp,
         scanCount |-> old.scanCount + 1,
         cleanCount |-> old.cleanCount + One(e.verdict = CLEAN),
         warnCount |-> old.warnCount + One(e.verdict = WARN),
         criticalCount |-> old.criticalCount + One(e.verdict = CRITICAL),
         latestVerdict |-> IF prev = Undefined THEN e.verdict ELSE prev.latestVerdict,
         latestScore |-> e.score,
         latestContentHash |-> e.contentHash,
         latestAttestor |-> e.attestor,
         versionCount |-> old.versionCount
                          + One(versionRow[<<e.toolId, e.contentHash>>] = Undefined)]

IsNewVersion(e) == versionRow[<<e.toolId, e.contentHash>>] = Undefined

ToolAfter(e, prev) ==
    LET old == Or(prev, NoTool)
    IN  [firstSeen |-> IF prev = Undefined THEN e.timestamp ELSE prev.firstSeen,
         lastSeen |-> e.timestamp,
         scanCount |-> old.scanCount + 1,
         cleanCount |-> old.cleanCount + One(e.verdict = CLEAN),
         warnCount |-> old.warnCount + One(e.verdict = WARN),
         criticalCount |-> old.criticalCount + One(e.verdict = CRITICAL),
         latestVerdict |-> e.verdict,
         latestScore |-> e.score,
         latestContentHash |-> e.contentHash,
         latestAttestor |-> e.attestor,
         versionCount |-> old.versionCount + One(IsNewVersion(e))]

VersionAfter(e, prev) ==
    [firstSeen |-> IF prev = Undefined THEN e.timestamp ELSE prev.firstSeen,
     lastSeen |-> e.timestamp,
     scanCount |-> Or(prev, NoVersion).scanCount + 1,
     latestVerdict |-> e.verdict,
     latestScore |-> e.score]

\* MUTANT: only a tool nobody had anchored counts as covered for the first time.
FirstTimeOnTool_Unseen(e) == toolRow[e.toolId] = Undefined

\* Not "never before": somebody else's anchor in between counts as a first time.
FirstTimeOnTool(e) ==
    toolRow[e.toolId] = Undefined \/ toolRow[e.toolId].latestAttestor # e.attestor

AttestorAfter(e, prev) ==
    LET old == Or(prev, NoAttestor)
    IN  [key |-> old.key,
         scanCount |-> old.scanCount + 1,
         toolsCovered |-> old.toolsCovered + One(FirstTimeOnTool(e))]

OnScanAnchored(e) ==
    /\ toolRow' = [toolRow EXCEPT ![e.toolId] = ToolAfter(e, @)]
    /\ versionRow' = [versionRow EXCEPT ![<<e.toolId, e.contentHash>>] = VersionAfter(e, @)]
    /\ attestorRow' = [attestorRow EXCEPT ![e.attestor] = AttestorAfter(e, @)]
    /\ scanRows' = scanRows \cup {cursor + 1}

\* One event, one handler, one transaction of the index's database.
HandleEvent ==
    /\ cursor < Len(log)
    /\ cursor' = cursor + 1
    /\ \/ /\ log[cursor + 1].event = "AttestorRegistered"
          /\ OnAttestorRegistered(log[cursor + 1])
       \/ /\ log[cursor + 1].event = "ScanAnchored"
          /\ OnScanAnchored(log[cursor + 1])
    /\ UNCHANGED vars

IndexNext ==
    \/ Next /\ UNCHANGED indexVars
    \/ HandleEvent

IndexSpec == IndexInit /\ [][IndexNext]_<<vars, indexVars>>

-----------------------------------------------------------------------------
(* Properties                                                              *)

\* The anchors of tool t (of attestor a) among the events handled so far.
SeenOf(t)      == {i \in 1..cursor : log[i].event = "ScanAnchored" /\ log[i].toolId = t}
SeenBy(a)      == {i \in 1..cursor : log[i].event = "ScanAnchored" /\ log[i].attestor = a}
With(S, v)     == {i \in S : log[i].verdict = v}
ContentsOf(S)  == {log[i].contentHash : i \in S}

\* Each aggregate row is what a reader would compute from the audit trail of
\* Scan rows it stands beside, at any lag: counts per verdict, versions seen,
\* scans per attestor, also across a new registration.  toolsCovered misses no
\* tool, though it may count one again when attestors take turns on it
\* (EventHandlers.ts:72).
AggregatesMatchTrail ==
    /\ scanRows = UNION {SeenOf(t) : t \in Tools}
    /\ \A t \in Tools : toolRow[t] = Undefined <=> SeenOf(t) = {}
    /\ \A t \in Tools : SeenOf(t) # {} =>
          /\ toolRow[t].scanCount = Cardinality(SeenOf(t))
          /\ toolRow[t].cleanCount = Cardinality(With(SeenOf(t), CLEAN))
          /\ toolRow[t].warnCount = Cardinality(With(SeenOf(t), WARN))
          /\ toolRow[t].criticalCount = Cardinality(With(SeenOf(t), CRITICAL))
          /\ toolRow[t].versionCount = Cardinality(ContentsOf(SeenOf(t)))
          /\ \A c \in ContentsOf(SeenOf(t)) :
                versionRow[<<t, c>>].scanCount =
                    Cardinality({i \in SeenOf(t) : log[i].contentHash = c})
    /\ \A a \in Attestors :
          LET row == Or(attestorRow[a], NoAttestor)
          IN  /\ row.scanCount = Cardinality(SeenBy(a))
              /\ row.toolsCovered
                    \in Cardinality({log[i].toolId : i \in SeenBy(a)})..row.scanCount

\* Once the index has caught up, what it says is latest is what the contract's
\* storage says of that attestor, and it knows every attestor's current key.
\* (With nothing indexed on a tool, nothing is stored for it.)
CaughtUpIndexMatchesStorage ==
    cursor = Len(log) =>
        /\ \A t \in Tools :
              IF toolRow[t] = Undefined
              THEN \A a \in Attestors : latest[t][a].timestamp = 0
              ELSE LET slot == latest[t][toolRow[t].latestAttestor]
                   IN  /\ slot.verdict = toolRow[t].latestVerdict
                       /\ slot.score = toolRow[t].latestScore
                       /\ slot.contentHash = toolRow[t].latestContentHash
                       /\ slot.timestamp = toolRow[t].lastSeen
        /\ \A a \in Attestors : Or(attestorRow[a], NoAttestor).key = attestorKey[a]
=============================================================================
