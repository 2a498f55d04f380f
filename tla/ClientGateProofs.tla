-------------------------- MODULE ClientGateProofs --------------------------
(***************************************************************************)
(* What the client lets through, proved for every attestor set, index lag, *)
(* row limit, order of rows within a block and set of options.  A look-up  *)
(* changes nothing, so each property is a fact about the states of chain   *)
(* and index, whose invariants RegistryIndexProofs establishes.            *)
(***************************************************************************)
EXTENDS ClientGate, RegistryIndexProofs

-----------------------------------------------------------------------------
(* The invariant                                                           *)

\* Chain and index in agreement, and blocks in order.
ClientInv == IndexInv /\ BlocksOrdered

\* Nothing anchored, nothing indexed, nothing scanned.
LEMMA InitClientInv == ClientInit => ClientInv
BY InitIndexInv, InitBlocks DEF ClientInit, ClientInv, IndexInit

\* The handlers leave the chain alone.
LEMMA NextIndexBlocks ==
    TypeOK /\ BlocksOrdered /\ [IndexNext]_<<vars, indexVars>> => BlocksOrdered'
<1> SUFFICES ASSUME TypeOK, BlocksOrdered, [IndexNext]_<<vars, indexVars>>
             PROVE  BlocksOrdered'
  OBVIOUS
<1>1. [Next]_vars
  BY DEF IndexNext, HandleEvent
<1> QED BY <1>1, NextBlocks

\* A scan that lands in the node's table touches neither chain nor index.
LEMMA NextClientInv == ClientInv /\ [ClientNext]_clientVars => ClientInv'
<1> SUFFICES ASSUME ClientInv, [ClientNext]_clientVars PROVE ClientInv'
  OBVIOUS
<1>1. [IndexNext]_<<vars, indexVars>>
  BY DEF ClientNext, CacheScan, clientVars
<1>2. IndexInv'
  BY <1>1, NextIndexInv DEF ClientInv
<1>3. BlocksOrdered'
  BY <1>1, NextIndexBlocks DEF ClientInv, IndexInv, KeyInv
<1> QED BY <1>2, <1>3 DEF ClientInv

-----------------------------------------------------------------------------
(* Rows                                                                    *)

\* The rows of a tool are its anchors that the index has seen.
LEMMA RowsAreSeen ==
    ASSUME IndexInv, NEW t \in Tools
    PROVE  SeenRows(t) = SeenOf(t)
<1>1. scanRows = UNION {SeenOf(u) : u \in Tools}
  BY DEF IndexInv, Counts
<1> QED BY <1>1 DEF SeenRows, SeenOf

\* What a row of the index is.
LEMMA RowIsAnchor ==
    ASSUME IndexInv, NEW t \in Tools, NEW i \in SeenRows(t)
    PROVE  /\ i \in 1..cursor /\ i \in 1..Len(log) /\ i \in AllAnchors
           /\ log[i].event = "ScanAnchored" /\ log[i].toolId = t
           /\ log[i].attestor \in Attestors
           /\ \E j \in 1..i : SignedBy(j, i)
<1>1. i \in 1..cursor /\ log[i].event = "ScanAnchored" /\ log[i].toolId = t
  BY RowsAreSeen DEF SeenOf
<1>2. Len(log) \in Nat /\ cursor \in 0..Len(log)
  BY LenProperties DEF IndexInv, IndexTypeOK, KeyInv, TypeOK
<1>3. i \in 1..Len(log)
  BY <1>1, <1>2
<1>4. log[i].attestor \in Attestors
  <2>1. log[i] \in ScanAnchored \cup AttestorRegistered
    BY <1>3, ElementOfSeq DEF IndexInv, KeyInv, TypeOK
  <2> QED BY <2>1 DEF ScanAnchored, AttestorRegistered
<1>5. \E j \in 1..i : SignedBy(j, i)
  BY <1>1, <1>3 DEF IndexInv, KeyInv, Authentic
<1> QED BY <1>1, <1>3, <1>4, <1>5 DEF AllAnchors

\* An answer that does not come from the node's table: about tool t, with rows
\* of t, or no row at all for a tool the index does not know.
FromIndex(r, t) ==
    /\ r.toolId = t
    /\ r.known <=> toolRow[t] # Undefined
    /\ r.verdict = IF toolRow[t] = Undefined THEN 0 ELSE toolRow[t].latestVerdict
    /\ \A row \in r.attestors : \E i \in SeenRows(t) : row = Indexed(i)

\* The index and the mirror that has one answer so.
LEMMA IndexAnswers ==
    ASSUME NEW t \in Tools, NEW r \in AskIndex(t)
    PROVE  FromIndex(r, t) /\ r.source = "index"
<1>1. CASE toolRow[t] = Undefined
  BY <1>1 DEF AskIndex, Answer, FromIndex
<1>2. CASE toolRow[t] # Undefined
  <2>1. \E T \in NewestOf(SeenRows(t), BlockOf(t), SCAN_LIMIT) : \E P \in FirstOfAttestor(T) :
            r = Answer("index", t, TRUE, toolRow[t].latestVerdict, {Indexed(i) : i \in P})
    BY <1>2 DEF AskIndex
  <2>1a. PICK T \in NewestOf(SeenRows(t), BlockOf(t), SCAN_LIMIT) : \E P \in FirstOfAttestor(T) :
            r = Answer("index", t, TRUE, toolRow[t].latestVerdict, {Indexed(i) : i \in P})
    BY <2>1
  <2>1b. PICK P \in FirstOfAttestor(T) :
            r = Answer("index", t, TRUE, toolRow[t].latestVerdict, {Indexed(i) : i \in P})
    BY <2>1a
  <2>2. P \subseteq T /\ T \subseteq SeenRows(t)
    BY DEF FirstOfAttestor, NewestOf
  <2> QED BY <1>2, <2>1b, <2>2 DEF Answer, FromIndex
<1> QED BY <1>1, <1>2

\* So does the mirror.
LEMMA MirrorAnswers ==
    ASSUME NEW t \in Tools, toolRow[t] # Undefined, NEW r \in AskMirror(t)
    PROVE  FromIndex(r, t) /\ r.source = "mirror"
<1>1. PICK T \in NewestOf(SeenRows(t), BlockOf(t), REST_LIMIT) :
          r = Answer("mirror", t, TRUE, toolRow[t].latestVerdict, {Indexed(i) : i \in T})
  BY DEF AskMirror
<1>2. T \subseteq SeenRows(t)
  BY DEF NewestOf
<1> QED BY <1>1, <1>2 DEF Answer, FromIndex

\* Rows of the node's table name no attestor.
LEMMA CacheAnswers ==
    ASSUME NEW t \in Tools, NEW r \in AskCache(t)
    PROVE  /\ r.source = "cache" /\ r.toolId = t
           /\ \A row \in r.attestors : row.attestor = Nobody
<1> DEFINE Verdicts(T) == IF T = {} THEN {0} ELSE {row.verdict : row \in NewestIn(T)}
           Answers(T) == {Answer("cache", t, T # {}, v, {Local(row) : row \in T}) :
                             v \in Verdicts(T)}
<1>1. AskCache(t) = UNION {Answers(T) : T \in NewestOf(CachedRows(t), AgeOf(t), CACHE_LIMIT)}
  BY DEF AskCache
<1>2. PICK T \in NewestOf(CachedRows(t), AgeOf(t), CACHE_LIMIT) : r \in Answers(T)
  <2> HIDE DEF Answers
  <2> QED BY <1>1
<1>3. PICK v \in Verdicts(T) : r = Answer("cache", t, T # {}, v, {Local(row) : row \in T})
  BY <1>2
<1> HIDE DEF Verdicts, Answers
<1> QED BY <1>3 DEF Answer, Local

\* Every look-up is one of the three.
LEMMA LookupAnswers ==
    ASSUME NEW t \in Tools, NEW r \in Lookup(t)
    PROVE  \/ FromIndex(r, t) /\ r.source \in {"index", "mirror"}
           \/ /\ r.source = "cache" /\ r.toolId = t
              /\ \A row \in r.attestors : row.attestor = Nobody
BY IndexAnswers, MirrorAnswers, CacheAnswers DEF Lookup

\* A check, too: of the tool named, or of another one where that is allowed.
LEMMA CheckAnswers ==
    ASSUME NEW t \in Tools, NEW resolve \in BOOLEAN, NEW r \in Check(t, resolve)
    PROVE  \E u \in Tools : (resolve \/ u = t) /\ r \in Lookup(u)
BY DEF Check

-----------------------------------------------------------------------------
(* What passes                                                             *)

\* A caller who does not allow the unknown is let through by a row in scope.
LEMMA PassRow ==
    ASSUME NEW r, NEW opts, Gate(r, opts), ~ opts.allowUnknown
    PROVE  \E row \in Pool(r, opts) :
              row.verdict = CLEAN \/ (opts.allowWarn /\ row.verdict = WARN)
BY DEF Gate, Clears

\* The row in scope of an answer that comes from an index is an anchor.
LEMMA PoolRow ==
    ASSUME NEW t \in Tools, NEW r, FromIndex(r, t), NEW opts, NEW row \in Pool(r, opts)
    PROVE  \E i \in SeenRows(t) :
              /\ log[i].verdict = row.verdict
              /\ opts.trusted = Anyone \/ log[i].attestor \in opts.trusted
              /\ opts.want \in {AnyContent, log[i].contentHash}
              /\ opts.maxAge = 0 \/ now - log[i].timestamp <= opts.maxAge
<1>1. PICK i \in SeenRows(t) : row = Indexed(i)
  BY DEF Pool, FromIndex
<1>2. /\ row.verdict = log[i].verdict /\ row.attestor = log[i].attestor
      /\ row.contentHash = log[i].contentHash /\ row.timestamp = log[i].timestamp
  BY <1>1 DEF Indexed
<1> QED BY <1>2 DEF Pool, Fresh

\* A state of chain and index in agreement lets only that pass.
LEMMA PassesAreVouched == IndexInv => PassIsVouched
<1> SUFFICES ASSUME IndexInv, NEW t \in Tools, NEW resolve \in BOOLEAN,
                    NEW r \in Check(t, resolve), r.source # "cache",
                    NEW opts \in StrictOptions, Gate(r, opts)
             PROVE  /\ resolve \/ r.toolId = t
                    /\ \E i \in SeenRows(r.toolId) :
                          /\ log[i].verdict = CLEAN
                          /\ opts.trusted = Anyone \/ log[i].attestor \in opts.trusted
                          /\ opts.want \in {AnyContent, log[i].contentHash}
                          /\ opts.maxAge = 0 \/ now - log[i].timestamp <= opts.maxAge
                          /\ \E j \in 1..i : SignedBy(j, i)
  BY DEF PassIsVouched
<1>1. PICK u \in Tools : (resolve \/ u = t) /\ r \in Lookup(u)
  BY CheckAnswers
<1>2. FromIndex(r, u) /\ r.toolId = u
  BY <1>1, LookupAnswers DEF FromIndex
<1>3. PICK row \in Pool(r, opts) : row.verdict = CLEAN
  BY PassRow DEF StrictOptions
<1>4. PICK i \in SeenRows(u) :
            /\ log[i].verdict = row.verdict
            /\ opts.trusted = Anyone \/ log[i].attestor \in opts.trusted
            /\ opts.want \in {AnyContent, log[i].contentHash}
            /\ opts.maxAge = 0 \/ now - log[i].timestamp <= opts.maxAge
  BY <1>2, PoolRow
<1>5. \E j \in 1..i : SignedBy(j, i)
  BY RowIsAnchor
<1> QED BY <1>1, <1>2, <1>3, <1>4, <1>5

\* Whatever the options, the candidates, the path and the lag, what a strict
\* gate lets pass on an index's answer is a CLEAN verdict that a trusted
\* attestor's registered key signed.
THEOREM PassIsVouchedHolds == ClientSpec => []PassIsVouched
<1>1. ClientInv => PassIsVouched
  BY PassesAreVouched DEF ClientInv
<1> QED BY <1>1, InitClientInv, NextClientInv, PTL DEF ClientSpec

\* What a front end is told: nothing, the origin's miss, or a look-up.
LEMMA OutcomeCases ==
    ASSUME NEW t \in Tools, NEW named \in BOOLEAN, NEW r \in Outcomes(t, named),
           r # Unreachable
    PROVE  \/ ~ r.known /\ r.verdict = 0
           \/ \E u \in Tools : (named => u = t) /\ r \in Lookup(u)
<1>1. CASE named
  BY <1>1 DEF Outcomes, Check
<1>2. CASE ~ named
  BY <1>2 DEF Outcomes, CheckOrigin
<1> QED BY <1>1, <1>2

\* In such a state an exit code 0 rests on a row that names an attestor.
LEMMA ExitsAreOnChain == IndexInv => PinnedExitIsOnChain
<1> SUFFICES ASSUME IndexInv, NEW t \in Tools, NEW named \in BOOLEAN,
                    NEW r \in Outcomes(t, named), NEW opts \in CliOptions,
                    opts.trusted # Anyone, ExitCode(r, opts) = 0
             PROVE  \E i \in SeenRows(r.toolId) :
                       /\ named => r.toolId = t
                       /\ log[i].attestor \in opts.trusted
                       /\ log[i].verdict = CLEAN \/ (opts.allowWarn /\ log[i].verdict = WARN)
                       /\ opts.maxAge = 0 \/ now - log[i].timestamp <= opts.maxAge
  BY DEF PinnedExitIsOnChain
<1>1. r # Unreachable /\ Gate(r, opts)
  BY DEF ExitCode
<1>2. ~ opts.allowUnknown /\ opts.trusted \in SUBSET Attestors
  BY DEF CliOptions, Options
<1>3. PICK row \in Pool(r, opts) :
          row.verdict = CLEAN \/ (opts.allowWarn /\ row.verdict = WARN)
  BY <1>1, <1>2, PassRow
<1>4. r.known
  BY <1>1, <1>2 DEF Gate
<1>5. PICK u \in Tools : (named => u = t) /\ r \in Lookup(u)
  BY <1>1, <1>4, OutcomeCases
<1>6. row \in r.attestors /\ row.attestor \in opts.trusted
  BY DEF Pool
<1>7. row.attestor # Nobody
  BY <1>2, <1>6, ClientAssumption
<1>8. FromIndex(r, u) /\ r.toolId = u
  BY <1>5, <1>6, <1>7, LookupAnswers DEF FromIndex
<1>9. PICK i \in SeenRows(u) :
            /\ log[i].verdict = row.verdict
            /\ opts.trusted = Anyone \/ log[i].attestor \in opts.trusted
            /\ opts.maxAge = 0 \/ now - log[i].timestamp <= opts.maxAge
  BY <1>8, PoolRow
<1> QED BY <1>3, <1>5, <1>8, <1>9

\* Exit code 0 for a caller who names attestors is always backed by a fresh
\* anchor of one of them on the tool reported, whatever part of the service
\* could be reached and whatever strangers had the node scan.
THEOREM PinnedExitIsOnChainHolds == ClientSpec => []PinnedExitIsOnChain
<1>1. ClientInv => PinnedExitIsOnChain
  BY ExitsAreOnChain DEF ClientInv
<1> QED BY <1>1, InitClientInv, NextClientInv, PTL DEF ClientSpec

\* In such a state advice rests on the tool's row, which shows its last anchor.
LEMMA AdvicesAreOnRecord == IndexInv => AdviceIsOnRecord
<1> SUFFICES ASSUME IndexInv, NEW t \in Tools, NEW named \in BOOLEAN,
                    NEW r \in Outcomes(t, named), r.source # "cache",
                    Advice(r) \in {"cleared", "flagged"}
             PROVE  \E i \in SeenRows(r.toolId) :
                       /\ named => r.toolId = t
                       /\ \E j \in 1..i : SignedBy(j, i)
                       /\ IsLastAnchor(i, r.toolId, log[i].attestor, cursor)
                       /\ IF Advice(r) = "cleared" THEN log[i].verdict = CLEAN
                                                   ELSE log[i].verdict \in {WARN, CRITICAL}
  BY DEF AdviceIsOnRecord
<1>1. r # Unreachable /\ r.verdict # 0
  BY DEF Advice, CLEAN
<1>2. PICK u \in Tools : (named => u = t) /\ r \in Lookup(u)
  BY <1>1, OutcomeCases
<1>3. FromIndex(r, u) /\ r.toolId = u
  BY <1>2, LookupAnswers DEF FromIndex
<1>4. toolRow[u] # Undefined /\ r.verdict = toolRow[u].latestVerdict
  BY <1>1, <1>3 DEF FromIndex
<1>5. PICK i \in SeenOf(u) : IsLastSeen(i, u) /\ RowShows(toolRow[u], log[i])
  BY <1>4 DEF IndexInv, LastSeenShown
<1>6. i \in SeenRows(u) /\ log[i].verdict = r.verdict
  BY <1>4, <1>5, RowsAreSeen DEF RowShows
<1>7. /\ i \in 1..cursor /\ i \in 1..Len(log)
      /\ log[i].event = "ScanAnchored" /\ log[i].toolId = u
      /\ \E j \in 1..i : SignedBy(j, i)
  BY <1>6, RowIsAnchor
<1>8. IsLastAnchor(i, u, log[i].attestor, cursor)
  <2>1. \A j \in AnchorsOf(u, log[i].attestor) : j <= cursor => j \in SeenOf(u)
    BY DEF AnchorsOf, SeenOf, IndexInv, IndexTypeOK
  <2> QED BY <1>5, <1>7, <2>1 DEF IsLastAnchor, IsLastSeen, AnchorsOf
<1>9. log[i].verdict \in 0..VERDICT_MAX
  <2>1. log[i] \in ScanAnchored \cup AttestorRegistered
    BY <1>7, ElementOfSeq DEF IndexInv, KeyInv, TypeOK
  <2> QED BY <1>7, <2>1 DEF ScanAnchored, AttestorRegistered
<1>10. IF Advice(r) = "cleared" THEN log[i].verdict = CLEAN
                                ELSE log[i].verdict \in {WARN, CRITICAL}
  <2>1. CASE r.verdict = CLEAN
    <3>1. Advice(r) = "cleared"
      BY <1>1, <2>1 DEF Advice, CLEAN
    <3> QED BY <1>6, <2>1, <3>1
  <2>2. CASE r.verdict # CLEAN
    <3>1. Advice(r) = "flagged"
      BY <1>1, <2>2 DEF Advice
    <3>2. log[i].verdict \in {WARN, CRITICAL}
      BY <1>1, <1>6, <1>9, <2>2 DEF CLEAN, WARN, CRITICAL, VERDICT_MAX
    <3> QED BY <3>1, <3>2
  <2> QED BY <2>1, <2>2
<1> QED BY <1>2, <1>3, <1>6, <1>7, <1>8, <1>10

\* On an answer of the index or of the mirror that asks one, no advice to trust
\* or to distrust a tool but on an anchor that was, at the point the index had
\* reached, its attestor's signed last word on that tool.  The node's own table
\* is excepted.
THEOREM AdviceIsOnRecordHolds == ClientSpec => []AdviceIsOnRecord
<1>1. ClientInv => AdviceIsOnRecord
  BY AdvicesAreOnRecord DEF ClientInv
<1> QED BY <1>1, InitClientInv, NextClientInv, PTL DEF ClientSpec

-----------------------------------------------------------------------------
(* Gate and contract                                                       *)

\* Within its limit an answer holds all the rows there are.
LEMMA NewestIsAll ==
    ASSUME NEW S, IsFiniteSet(S), NEW at, NEW n \in Nat, Cardinality(S) <= n,
           NEW T \in NewestOf(S, at, n)
    PROVE  T = S
<1>1. Cardinality(S) \in Nat
  BY FS_CardinalityType
<1>2. T \in SUBSET S /\ Cardinality(T) = Cardinality(S)
  BY <1>1 DEF NewestOf, SmallerOf
<1> QED BY <1>2, FS_Subset

\* The rows of a tool whose history is decided.
LEMMA DecidedRows ==
    ASSUME ClientInv, NEW t \in Tools, Decided(t)
    PROVE  /\ IsFiniteSet(SeenRows(t))
           /\ Cardinality(SeenRows(t)) <= SCAN_LIMIT
           /\ \A a \in Attestors : AnchorsOf(t, a) = {i \in SeenRows(t) : log[i].attestor = a}
<1>1. SeenRows(t) = SeenOf(t) /\ cursor = Len(log) /\ Cardinality(SeenRows(t)) <= SCAN_LIMIT
  BY RowsAreSeen DEF ClientInv, Decided
<1>2. cursor \in Nat
  BY <1>1, LenProperties DEF ClientInv, IndexInv, KeyInv, TypeOK
<1>3. IsFiniteSet(SeenOf(t))
  BY <1>2, SeenFinite
<1> QED BY <1>1, <1>3 DEF AnchorsOf, SeenOf

\* Where blocks decide, the row with the greatest time is the last anchor, and
\* that is what storage shows.
LEMMA NewestRowIsStored ==
    ASSUME ClientInv, NEW t \in Tools, Decided(t), NEW a \in Attestors,
           NEW p \in SeenRows(t), log[p].attestor = a,
           \A q \in SeenRows(t) : log[q].attestor = a => log[q].timestamp <= log[p].timestamp
    PROVE  /\ Shows(latest[t][a], log[p])
           /\ log[p].timestamp \in 1..now
           /\ AnchorsOf(t, a) # {}
<1>1. p \in AnchorsOf(t, a)
  BY DecidedRows
<1>2. PICK i \in 1..Len(log) : /\ IsLastAnchor(i, t, a, Len(log))
                               /\ \A j \in AnchorsOf(t, a) : j <= i
                               /\ Shows(latest[t][a], log[i])
  BY <1>1, LastAnchorShown DEF ClientInv, IndexInv, KeyInv
<1>3. i \in AnchorsOf(t, a)
  BY <1>2 DEF IsLastAnchor
<1>4. i \in SeenRows(t) /\ log[i].attestor = a
  BY <1>3, DecidedRows
<1>5. i \in AllAnchors /\ p \in AllAnchors /\ p <= i
  BY <1>1, <1>2, <1>3 DEF AnchorsOf, AllAnchors
<1>6. log[p].timestamp <= log[i].timestamp /\ log[i].timestamp <= log[p].timestamp
  BY <1>4, <1>5 DEF ClientInv, BlocksOrdered
<1>7. log[p].timestamp \in 1..now /\ log[i].timestamp \in 1..now /\ now \in Nat
  BY <1>5 DEF ClientInv, BlocksOrdered, IndexInv, KeyInv, TypeOK
<1>8. log[p].timestamp = log[i].timestamp
  BY <1>6, <1>7
<1>9. p = i
  BY <1>4, <1>8 DEF Decided
<1> QED BY <1>1, <1>2, <1>7, <1>9

\* What the index answers about a tool it knows, decided: of each attestor that
\* said anything one row, and that one says what storage says.
LEMMA IndexRowIsStored ==
    ASSUME ClientInv, NEW t \in Tools, Decided(t), NEW r \in AskIndex(t),
           NEW a \in Attestors, AnchorsOf(t, a) # {}
    PROVE  /\ r.known
           /\ \E p \in SeenRows(t) :
                 /\ {row \in r.attestors : row.attestor = a} = {Indexed(p)}
                 /\ log[p].attestor = a
                 /\ Shows(latest[t][a], log[p])
                 /\ log[p].timestamp \in 1..now
<1>1. PICK s \in SeenRows(t) : log[s].attestor = a
  BY DecidedRows
<1>2. toolRow[t] # Undefined
  BY <1>1, RowsAreSeen DEF ClientInv, IndexInv, LastSeenShown
<1>3. \E T \in NewestOf(SeenRows(t), BlockOf(t), SCAN_LIMIT) : \E P \in FirstOfAttestor(T) :
          r = Answer("index", t, TRUE, toolRow[t].latestVerdict, {Indexed(i) : i \in P})
  BY <1>2 DEF AskIndex
<1>4. PICK P \in FirstOfAttestor(SeenRows(t)) :
          r = Answer("index", t, TRUE, toolRow[t].latestVerdict, {Indexed(i) : i \in P})
  <2>1. \A T \in NewestOf(SeenRows(t), BlockOf(t), SCAN_LIMIT) : T = SeenRows(t)
    BY DecidedRows, NewestIsAll, ClientAssumption
  <2> QED BY <1>3, <2>1
<1>5. r.known /\ r.attestors = {Indexed(i) : i \in P}
  BY <1>4 DEF Answer
<1>6. s \in OwnRows(SeenRows(t), a)
  BY <1>1 DEF OwnRows
<1>7. PICK p \in OwnRows(SeenRows(t), a) :
          /\ OwnRows(P, a) = {p}
          /\ \A q \in OwnRows(SeenRows(t), a) : log[q].timestamp <= log[p].timestamp
  BY <1>6 DEF FirstOfAttestor
<1>8. p \in SeenRows(t) /\ log[p].attestor = a /\ p \in P
  BY <1>7 DEF OwnRows
<1>9. Shows(latest[t][a], log[p]) /\ log[p].timestamp \in 1..now
  BY <1>7, <1>8, NewestRowIsStored DEF OwnRows
<1>10. {row \in r.attestors : row.attestor = a} = {Indexed(p)}
  <2>1. \A i : Indexed(i).attestor = log[i].attestor
    BY DEF Indexed
  <2>2. \A i \in P : log[i].attestor = a => i = p
    BY <1>7 DEF OwnRows
  <2> QED BY <1>5, <1>8, <2>1, <2>2
<1> QED BY <1>5, <1>8, <1>9, <1>10

\* With one trusted attestor, a pinned manifest and an age limit.
LEMMA GatesAgree == ClientInv => GateAgreesWithContract
<1> SUFFICES ASSUME ClientInv, NEW t \in Tools, Decided(t), NEW r \in AskIndex(t),
                    NEW a \in Attestors, NEW c \in Contents, NEW maxAge \in 1..MaxTime
             PROVE  Gate(r, Only(a, c, maxAge)) <=> IsCleared(t, c, a, maxAge)
  BY DEF GateAgreesWithContract
<1> DEFINE opts == Only(a, c, maxAge)
<1>1. /\ opts.trusted = {a} /\ opts.trusted # Anyone /\ opts.trusted # {}
      /\ opts.want = c /\ c # AnyContent
      /\ opts.maxAge = maxAge /\ maxAge # 0
      /\ opts.allowUnknown = FALSE /\ opts.allowWarn = FALSE
  BY ClientAssumption DEF Only
<1> HIDE DEF opts
<1>2. Pool(r, opts) = {row \in {x \in r.attestors : x.attestor = a} :
                          now - row.timestamp <= maxAge /\ row.contentHash = c}
  BY <1>1 DEF Pool, Fresh
<1>3. CASE AnchorsOf(t, a) = {}
  <2>1. ~ IsCleared(t, c, a, maxAge)
    BY <1>3, AttestedIsAnchored DEF IsCleared, ClientInv, IndexInv
  <2>2. \A row \in r.attestors : row.attestor # a
    <3> TAKE row \in r.attestors
    <3>1. PICK i \in SeenRows(t) : row = Indexed(i)
      BY IndexAnswers DEF FromIndex
    <3>2. log[i].attestor # a
      BY <1>3, DecidedRows
    <3> QED BY <3>1, <3>2 DEF Indexed
  <2>3. Pool(r, opts) = {}
    BY <1>2, <2>2
  <2>4. ~ Gate(r, opts)
    BY <1>1, <2>3 DEF Gate
  <2> QED BY <2>1, <2>4 DEF opts
<1>4. CASE AnchorsOf(t, a) # {}
  <2>1. r.known
    BY <1>4, IndexRowIsStored
  <2>2. PICK p \in SeenRows(t) :
            /\ {row \in r.attestors : row.attestor = a} = {Indexed(p)}
            /\ log[p].attestor = a
            /\ Shows(latest[t][a], log[p])
            /\ log[p].timestamp \in 1..now
    BY <1>4, IndexRowIsStored
  <2>3. /\ Indexed(p).verdict = latest[t][a].verdict
        /\ Indexed(p).contentHash = latest[t][a].contentHash
        /\ Indexed(p).timestamp = latest[t][a].timestamp
    BY <2>2 DEF Indexed, Shows
  <2>4. latest[t][a].timestamp # 0
    BY <2>2 DEF Shows
  <2>5. CASE now - latest[t][a].timestamp <= maxAge /\ latest[t][a].contentHash = c
    <3>1. Pool(r, opts) = {Indexed(p)}
      BY <1>2, <2>2, <2>3, <2>5
    <3>2. Gate(r, opts) <=> Indexed(p).verdict = CLEAN
      <4>1. CLEAN # CRITICAL /\ CLEAN # WARN
        BY DEF CLEAN, CRITICAL, WARN
      <4>2. Clears(Indexed(p).verdict, opts) <=> Indexed(p).verdict = CLEAN
        BY <1>1 DEF Clears
      <4> QED BY <1>1, <2>1, <3>1, <4>1, <4>2 DEF Gate
    <3> QED BY <2>3, <2>4, <2>5, <3>2 DEF IsCleared, opts
  <2>6. CASE ~ (now - latest[t][a].timestamp <= maxAge /\ latest[t][a].contentHash = c)
    <3>1. Pool(r, opts) = {}
      BY <1>2, <2>2, <2>3, <2>6
    <3>2. ~ Gate(r, opts)
      BY <1>1, <3>1 DEF Gate
    <3> QED BY <2>6, <3>2 DEF IsCleared, opts
  <2> QED BY <2>5, <2>6
<1> QED BY <1>3, <1>4

\* The client's gate and the contract's isCleared say the same of every tool
\* whose history is indexed, within the query's row limit, and decided by its
\* blocks: for every attestor, manifest, age limit and order in which the rows
\* of a block arrive.
THEOREM GateAgreesWithContractHolds == ClientSpec => []GateAgreesWithContract
BY GatesAgree, InitClientInv, NextClientInv, PTL DEF ClientSpec

-----------------------------------------------------------------------------
(* What blocks                                                             *)

\* A row is in an answer that has room for it and for all that is as recent.
LEMMA RecentIsShown ==
    ASSUME ClientInv, NEW t \in Tools, NEW i \in SeenRows(t), NEW n \in Nat,
           Cardinality({q \in SeenRows(t) : log[i].timestamp <= log[q].timestamp}) <= n,
           NEW T \in NewestOf(SeenRows(t), BlockOf(t), n)
    PROVE  i \in T
<1> DEFINE all == SeenRows(t)
           recent == {q \in all : log[i].timestamp <= log[q].timestamp}
<1> SUFFICES ASSUME i \notin T PROVE FALSE
  OBVIOUS
<1>1. IsFiniteSet(all) /\ Cardinality(all) \in Nat
  <2>1. SeenRows(t) = SeenOf(t)
    BY RowsAreSeen DEF ClientInv
  <2>2. cursor \in Nat
    BY LenProperties DEF ClientInv, IndexInv, IndexTypeOK, KeyInv, TypeOK
  <2> QED BY <2>1, <2>2, SeenFinite, FS_CardinalityType
<1>2. IsFiniteSet(recent) /\ Cardinality(recent) \in Nat /\ Cardinality(recent) <= n
  <2>1. recent \subseteq all
    OBVIOUS
  <2> QED BY <1>1, <2>1, FS_Subset, FS_CardinalityType
<1>3. /\ T \subseteq all /\ Cardinality(T) = SmallerOf(n, Cardinality(all))
      /\ \A q \in T : log[i].timestamp <= log[q].timestamp
  BY DEF NewestOf, BlockOf
<1>4. i \in all /\ i \in recent
  <2>1. log[i].timestamp \in Nat
    <3>1. i \in AllAnchors
      BY RowIsAnchor DEF ClientInv
    <3>2. log[i].timestamp \in 1..now /\ now \in Nat
      BY <3>1 DEF ClientInv, BlocksOrdered, IndexInv, KeyInv, TypeOK
    <3> QED BY <3>2
  <2> QED BY <2>1
<1>5. T \subseteq recent \ {i}
  BY <1>3
<1>6. IsFiniteSet(recent \ {i}) /\ Cardinality(recent \ {i}) = Cardinality(recent) - 1
  <2> HIDE DEF recent
  <2> QED BY <1>2, <1>4, FS_RemoveElement
<1>7. IsFiniteSet(T) /\ Cardinality(T) <= Cardinality(recent \ {i})
  <2> HIDE DEF recent
  <2> QED BY <1>5, <1>6, FS_Subset
<1>8. Cardinality(T) \in Nat
  BY <1>7, FS_CardinalityType
<1> HIDE DEF recent, all
<1>9. Cardinality(T) <= n - 1
  BY <1>2, <1>6, <1>7, <1>8
<1>10. Cardinality(T) = Cardinality(all)
  BY <1>1, <1>3, <1>8, <1>9 DEF SmallerOf
<1>11. T = all
  BY <1>1, <1>3, <1>10, FS_Subset
<1> QED BY <1>4, <1>11

\* A row on top is in every answer an index gives.
LEMMA TopIsAnswered ==
    ASSUME ClientInv, NEW t \in Tools, NEW i \in SeenRows(t), OnTop(i, t),
           NEW r \in Lookup(t), r.source # "cache"
    PROVE  Indexed(i) \in r.attestors /\ r.known
<1>1. toolRow[t] # Undefined
  BY RowsAreSeen DEF ClientInv, IndexInv, LastSeenShown
<1>2. r.known
  BY <1>1, LookupAnswers DEF FromIndex
<1> DEFINE room(n) ==
      Cardinality({q \in SeenRows(t) : log[i].timestamp <= log[q].timestamp}) <= n
<1>3. room(SCAN_LIMIT) /\ SCAN_LIMIT \in Nat
  BY ClientAssumption DEF OnTop
<1>4. room(REST_LIMIT) /\ REST_LIMIT \in Nat
  <2>1. IsFiniteSet(SeenRows(t))
    <3>1. SeenRows(t) = SeenOf(t)
      BY RowsAreSeen DEF ClientInv
    <3>2. cursor \in Nat
      BY LenProperties DEF ClientInv, IndexInv, IndexTypeOK, KeyInv, TypeOK
    <3> QED BY <3>1, <3>2, SeenFinite
  <2>2. Cardinality({q \in SeenRows(t) : log[i].timestamp <= log[q].timestamp}) \in Nat
    <3>1. {q \in SeenRows(t) : log[i].timestamp <= log[q].timestamp} \subseteq SeenRows(t)
      OBVIOUS
    <3> QED BY <2>1, <3>1, FS_Subset, FS_CardinalityType
  <2> QED BY <1>3, <2>2, ClientAssumption
<1>5. CASE r \in AskIndex(t)
  <2>1. \E T \in NewestOf(SeenRows(t), BlockOf(t), SCAN_LIMIT) : \E P \in FirstOfAttestor(T) :
            r = Answer("index", t, TRUE, toolRow[t].latestVerdict, {Indexed(q) : q \in P})
    BY <1>1, <1>5 DEF AskIndex
  <2>2. PICK T \in NewestOf(SeenRows(t), BlockOf(t), SCAN_LIMIT) : \E P \in FirstOfAttestor(T) :
            r = Answer("index", t, TRUE, toolRow[t].latestVerdict, {Indexed(q) : q \in P})
    BY <2>1
  <2>3. PICK P \in FirstOfAttestor(T) :
            r = Answer("index", t, TRUE, toolRow[t].latestVerdict, {Indexed(q) : q \in P})
    BY <2>2
  <2>4. i \in T /\ T \subseteq SeenRows(t)
    BY <1>3, RecentIsShown DEF NewestOf
  <2> DEFINE a == log[i].attestor
  <2>5. a \in Attestors /\ i \in OwnRows(T, a)
    BY <2>4, RowIsAnchor DEF ClientInv, OwnRows
  <2>6. PICK p \in OwnRows(T, a) :
            OwnRows(P, a) = {p} /\ \A q \in OwnRows(T, a) : log[q].timestamp <= log[p].timestamp
    BY <2>5 DEF FirstOfAttestor
  <2>7. p = i
    BY <2>4, <2>5, <2>6 DEF OwnRows, OnTop
  <2>8. i \in P
    BY <2>6, <2>7 DEF OwnRows
  <2> QED BY <1>2, <2>3, <2>8 DEF Answer
<1>6. CASE r \in AskMirror(t)
  <2>1. PICK T \in NewestOf(SeenRows(t), BlockOf(t), REST_LIMIT) :
            r = Answer("mirror", t, TRUE, toolRow[t].latestVerdict, {Indexed(q) : q \in T})
    BY <1>6 DEF AskMirror
  <2>2. i \in T
    BY <1>4, RecentIsShown
  <2> QED BY <1>2, <2>1, <2>2 DEF Answer
<1> QED BY <1>5, <1>6, CacheAnswers DEF Lookup

\* A CRITICAL on top and in scope vetoes.
LEMMA CriticalsBlock == ClientInv => CriticalBlocks
<1> SUFFICES ASSUME ClientInv, NEW t \in Tools,
                    NEW i \in SeenRows(t), log[i].verdict = CRITICAL, OnTop(i, t),
                    NEW r \in Lookup(t), r.source # "cache", NEW opts \in Options,
                    opts.trusted = Anyone \/ log[i].attestor \in opts.trusted,
                    Fresh(Indexed(i), opts),
                    opts.want \in {AnyContent, log[i].contentHash}
             PROVE  ~ Gate(r, opts)
  BY DEF CriticalBlocks
<1>1. Indexed(i) \in r.attestors /\ r.known
  BY TopIsAnswered
<1>2. Indexed(i).attestor = log[i].attestor /\ Indexed(i).verdict = CRITICAL
      /\ Indexed(i).contentHash = log[i].contentHash
  BY DEF Indexed
<1>3. Indexed(i) \in Pool(r, opts)
  BY <1>1, <1>2 DEF Pool
<1> QED BY <1>1, <1>2, <1>3 DEF Gate

\* At any lag a CRITICAL of a trusted attestor, fresh and about the wanted
\* manifest, blocks under any options, as long as the query's row limit does
\* not cut it off and its attestor said nothing else in that block or later;
\* answers from the node's own table are excepted.
THEOREM CriticalBlocksHolds == ClientSpec => []CriticalBlocks
BY CriticalsBlock, InitClientInv, NextClientInv, PTL DEF ClientSpec
=============================================================================
