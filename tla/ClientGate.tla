----------------------------- MODULE ClientGate -----------------------------
(***************************************************************************)
(* client/index.js: what an agent is told about a tool before it connects. *)
(* The client asks an index and, when that fails, the REST mirror          *)
(* (GET /registry/:toolId of server/index.js), which asks an index itself  *)
(* and, failing that or when the tool is not indexed, answers from the     *)
(* node's own `scans` table.  Reading changes nothing, so a look-up is the *)
(* set of the answers it can give in a state; the chain, the index's lag   *)
(* and that table are the state.  client/cli.mjs and client/mcp.mjs turn   *)
(* an answer into an exit code and into advice.                            *)
(***************************************************************************)
EXTENDS RegistryIndex

CONSTANTS
    Scanned,        \* what strangers get scanned through POST /scan
    SCAN_LIMIT,     \* limit: 50 in the client's query
    REST_LIMIT,     \* limit: 100 in the server's
    CACHE_LIMIT,    \* LIMIT 50 in scansForTool
    Anyone,         \* opts.attestors not given
    AnyContent,     \* opts.contentHash not given
    Nobody          \* a row of the table names no attestor

\* An option left out is none of the values it can be given, and no attestor
\* is null; the server's limit is not the smaller one.
ASSUME ClientAssumption ==
    /\ \A S \in SUBSET Attestors : S # Anyone
    /\ AnyContent \notin Contents
    /\ Nobody \notin Attestors
    /\ SCAN_LIMIT \in Nat
    /\ REST_LIMIT \in Nat
    /\ CACHE_LIMIT \in Nat
    /\ SCAN_LIMIT <= REST_LIMIT

VARIABLE cache      \* rows of the node's table

clientVars == <<vars, indexVars, cache>>

ClientInit == IndexInit /\ cache = {}

\* POST /scan by anyone: a row, anchored later or never.
CacheScan(s) ==
    /\ cache' = cache \cup {[toolId |-> s.toolId, contentHash |-> s.contentHash,
                             verdict |-> s.verdict, receiptHash |-> s.receiptHash,
                             timestamp |-> now]}
    /\ \A row \in cache : row.receiptHash # s.receiptHash
    /\ UNCHANGED <<vars, indexVars>>

ClientNext ==
    \/ IndexNext /\ UNCHANGED cache
    \/ \E s \in Scanned : CacheScan(s)

ClientSpec == ClientInit /\ [][ClientNext]_clientVars

-----------------------------------------------------------------------------
(* Look-ups                                                                *)

SmallerOf(m, n) == IF m <= n THEN m ELSE n

\* order_by blockNumber (or created_at) desc, limit n: rows of one block come
\* in any order, so ties at the edge may fall either side.
NewestOf(S, at, n) ==
    {T \in SUBSET S :
        /\ Cardinality(T) = SmallerOf(n, Cardinality(S))
        /\ \A r \in T, q \in S \ T : at[q] <= at[r]}

OwnRows(T, a) == {p \in T : log[p].attestor = a}

\* MUTANT: the last row of an attestor is kept, not the first.
FirstOfAttestor_Last(T) ==
    {P \in SUBSET T :
        \A a \in Attestors : OwnRows(T, a) # {} =>
            \E p \in OwnRows(T, a) :
                /\ OwnRows(P, a) = {p}
                /\ \A q \in OwnRows(T, a) : log[p].timestamp <= log[q].timestamp}

\* byAttestor: the first row of each attestor in an answer ordered that way.
FirstOfAttestor(T) ==
    {P \in SUBSET T :
        \A a \in Attestors : OwnRows(T, a) # {} =>
            \E p \in OwnRows(T, a) :
                /\ OwnRows(P, a) = {p}
                /\ \A q \in OwnRows(T, a) : log[q].timestamp <= log[p].timestamp}

Indexed(i) ==
    [attestor |-> log[i].attestor, verdict |-> log[i].verdict,
     contentHash |-> log[i].contentHash, timestamp |-> log[i].timestamp]

Local(row) ==
    [attestor |-> Nobody, verdict |-> row.verdict,
     contentHash |-> row.contentHash, timestamp |-> row.timestamp]

Answer(source, t, known, verdict, rows) ==
    [source |-> source, toolId |-> t, known |-> known, verdict |-> verdict,
     attestors |-> rows]

SeenRows(t)   == {i \in scanRows : log[i].toolId = t}
BlockOf(t)    == [i \in SeenRows(t) |-> log[i].timestamp]
CachedRows(t) == {row \in cache : row.toolId = t}
AgeOf(t)      == [row \in CachedRows(t) |-> row.timestamp]

NewestIn(T) == {row \in T : \A other \in T : other.timestamp <= row.timestamp}

\* The index answers the client: one row per attestor.
AskIndex(t) ==
    IF toolRow[t] = Undefined THEN {Answer("index", t, FALSE, 0, {})}
    ELSE {Answer("index", t, TRUE, toolRow[t].latestVerdict, {Indexed(i) : i \in P}) :
             P \in UNION {FirstOfAttestor(T) : T \in NewestOf(SeenRows(t), BlockOf(t), SCAN_LIMIT)}}

\* The REST mirror has an index to ask: every row it got, as it is.
AskMirror(t) ==
    {Answer("mirror", t, TRUE, toolRow[t].latestVerdict, {Indexed(i) : i \in T}) :
        T \in NewestOf(SeenRows(t), BlockOf(t), REST_LIMIT)}

\* It has none, or the tool is not indexed: rows of the table, anchored or not.
AskCache(t) ==
    UNION {{Answer("cache", t, T # {}, v, {Local(row) : row \in T}) :
               v \in IF T = {} THEN {0} ELSE {row.verdict : row \in NewestIn(T)}} :
              T \in NewestOf(CachedRows(t), AgeOf(t), CACHE_LIMIT)}

Lookup(t) == AskIndex(t)
             \cup (IF toolRow[t] # Undefined THEN AskMirror(t) ELSE {})
             \cup AskCache(t)

-----------------------------------------------------------------------------
(* check and gate                                                          *)

\* MUTANT: hints are followed although the caller pinned a name.
Check_AlwaysAdopts(t, resolve) ==
    Lookup(t) \cup (IF \E r \in Lookup(t) : ~ r.known
                    THEN UNION {Lookup(u) : u \in Tools} ELSE {})

\* check of a named tool.  With opts.resolve = true a miss goes on to the
\* candidates (adoptOne); they are hints of one server, in any number and
\* order, so any tool's answer can be the one adopted.
Check(t, resolve) ==
    Lookup(t) \cup (IF resolve /\ \E r \in Lookup(t) : ~ r.known
                    THEN UNION {Lookup(u) : u \in Tools} ELSE {})

Options ==
    [trusted : (SUBSET Attestors) \cup {Anyone}, maxAge : 0..MaxTime,
     allowWarn : BOOLEAN, allowUnknown : BOOLEAN, want : Contents \cup {AnyContent}]

Fresh(row, opts) == opts.maxAge = 0 \/ now - row.timestamp <= opts.maxAge

\* MUTANT: a row without attestor is anyone's.
Pool_NobodyTrusted(r, opts) ==
    {row \in r.attestors :
        /\ opts.trusted = Anyone \/ row.attestor = Nobody \/ row.attestor \in opts.trusted
        /\ Fresh(row, opts)
        /\ opts.want = AnyContent \/ row.contentHash = opts.want}

\* The rows in scope: trusted, fresh, of the wanted manifest.
Pool(r, opts) ==
    {row \in r.attestors :
        /\ opts.trusted = Anyone \/ row.attestor \in opts.trusted
        /\ Fresh(row, opts)
        /\ opts.want = AnyContent \/ row.contentHash = opts.want}

Clears(verdict, opts) ==
    \/ verdict = CLEAN
    \/ opts.allowWarn /\ verdict = WARN
    \/ opts.allowUnknown /\ verdict = 0

\* MUTANT: a verdict the caller allows is enough, whatever else was said.
Gate_NoVeto(r, opts) ==
    /\ opts.trusted # {}
    /\ IF ~ r.known \/ Pool(r, opts) = {} THEN opts.allowUnknown
       ELSE \E row \in Pool(r, opts) : Clears(row.verdict, opts)

\* gate returns instead of throwing.
Gate(r, opts) ==
    /\ opts.trusted # {}
    /\ IF ~ r.known \/ Pool(r, opts) = {} THEN opts.allowUnknown
       ELSE /\ \A row \in Pool(r, opts) :
                  /\ row.verdict # CRITICAL
                  /\ row.verdict = WARN => opts.allowWarn
            /\ \E row \in Pool(r, opts) : Clears(row.verdict, opts)

-----------------------------------------------------------------------------
(* The front ends                                                          *)

Unreachable == [source |-> "error"]

\* check without a name: the answer about whichever candidate is adopted, or
\* none when the origin is known to nobody.
CheckOrigin ==
    {[source |-> "api", toolId |-> Nobody, known |-> FALSE, verdict |-> 0, attestors |-> {}]}
        \cup UNION {Lookup(u) : u \in Tools}

\* What either front end is told, with the name given or left out; neither
\* sets opts.resolve.
Outcomes(t, named) ==
    (IF named THEN Check(t, FALSE) ELSE CheckOrigin) \cup {Unreachable}

\* No --attestor reaches gate as undefined, never as an empty list; there is
\* no flag for allowUnknown or contentHash.
CliOptions ==
    {opts \in Options : /\ opts.trusted # {}
                        /\ ~ opts.allowUnknown
                        /\ opts.want = AnyContent}

\* cli.mjs: MonadGuardBlocked exits 1, any other error 2.
ExitCode(r, opts) ==
    IF r = Unreachable THEN 2 ELSE IF Gate(r, opts) THEN 0 ELSE 1

\* MUTANT: an answer without a verdict of its own is no bad news.
Advice_Optimistic(r) ==
    IF r = Unreachable THEN "unreachable"
    ELSE IF r.verdict \in {0, CLEAN} THEN "cleared" ELSE "flagged"

\* mcp.mjs: what check_tool advises.
Advice(r) ==
    IF r = Unreachable THEN "unreachable"
    ELSE CASE r.verdict = CLEAN -> "cleared"
           [] r.verdict = 0 -> "unscanned"
           [] OTHER -> "flagged"

-----------------------------------------------------------------------------
(* Properties                                                              *)

Only(a, c, maxAge) ==
    [trusted |-> {a}, maxAge |-> maxAge, allowWarn |-> FALSE,
     allowUnknown |-> FALSE, want |-> c]

StrictOptions == {opts \in Options : ~ opts.allowWarn /\ ~ opts.allowUnknown}

\* The index holds the whole history, the client's query returns all of it, and
\* which row of an attestor is its last follows from the blocks alone.
Decided(t) ==
    /\ cursor = Len(log)
    /\ Cardinality(SeenRows(t)) <= SCAN_LIMIT
    /\ \A i, j \in SeenRows(t) :
          (log[i].attestor = log[j].attestor /\ log[i].timestamp = log[j].timestamp) => i = j

\* client/index.js:237-238: gate clears by the same rule as the contract's
\* isCleared.  With one trusted attestor, a pinned manifest and an age limit
\* the two agree exactly on a Decided tool: the index has caught up, the tool
\* has no more rows than the query's limit, no attestor spoke twice in a block.
GateAgreesWithContract ==
    \A t \in Tools : Decided(t) =>
        \A r \in AskIndex(t), a \in Attestors, c \in Contents, maxAge \in 1..MaxTime :
            Gate(r, Only(a, c, maxAge)) <=> IsCleared(t, c, a, maxAge)

\* Whatever the options, the hints, the path and the lag: a strict gate fed by
\* an index lets a tool pass only on a CLEAN verdict that a trusted attestor's
\* registered key signed for that manifest and that is fresh, and a name the
\* caller gave is never traded for another without resolve.
PassIsVouched ==
    \A t \in Tools, resolve \in BOOLEAN :
        \A r \in {x \in Check(t, resolve) : x.source # "cache"}, opts \in StrictOptions :
            Gate(r, opts) =>
                /\ resolve \/ r.toolId = t
                /\ \E i \in SeenRows(r.toolId) :
                    /\ log[i].verdict = CLEAN
                    /\ opts.trusted = Anyone \/ log[i].attestor \in opts.trusted
                    /\ opts.want \in {AnyContent, log[i].contentHash}
                    /\ opts.maxAge = 0 \/ now - log[i].timestamp <= opts.maxAge
                    /\ \E j \in 1..i : SignedBy(j, i)

\* Row i is in every answer about t, as its attestor's last word: no more rows
\* than the client asks for are as recent, and none of those is its attestor's.
OnTop(i, t) ==
    LET recent == {q \in SeenRows(t) : log[i].timestamp <= log[q].timestamp}
    IN  /\ Cardinality(recent) <= SCAN_LIMIT
        /\ \A q \in recent : log[q].attestor = log[i].attestor => q = i

\* A CRITICAL of a trusted attestor that is fresh and about the wanted manifest
\* blocks, at any lag, with any options and any order of the rows of a block, as
\* long as it is on top.  It is not once 50 rows of others came after it or in
\* its block (client/index.js:128), nor when its attestor said something else in
\* the same block: then gate may let the tool pass.  And an answer from the
\* node's own table, which names no attestor, is excepted.
CriticalBlocks ==
    \A t \in Tools :
        \A i \in {j \in SeenRows(t) : log[j].verdict = CRITICAL /\ OnTop(j, t)},
           r \in {x \in Lookup(t) : x.source # "cache"}, opts \in Options :
            (/\ opts.trusted = Anyone \/ log[i].attestor \in opts.trusted
             /\ Fresh(Indexed(i), opts)
             /\ opts.want \in {AnyContent, log[i].contentHash})
                => ~ Gate(r, opts)

\* A caller of the command line who names attestors gets exit code 0 only on a
\* fresh verdict one of them signed and anchored on the very tool reported,
\* with or without a name and whatever was reachable: the index, the mirror,
\* the node's own table of strangers' requests, or nothing (cli.mjs:38-42).
PinnedExitIsOnChain ==
    \A t \in Tools, named \in BOOLEAN :
        \A r \in Outcomes(t, named), opts \in {o \in CliOptions : o.trusted # Anyone} :
            ExitCode(r, opts) = 0 =>
                \E i \in SeenRows(r.toolId) :
                    /\ named => r.toolId = t
                    /\ log[i].attestor \in opts.trusted
                    /\ log[i].verdict = CLEAN \/ (opts.allowWarn /\ log[i].verdict = WARN)
                    /\ opts.maxAge = 0 \/ now - log[i].timestamp <= opts.maxAge

\* On an index's answer, its own or the mirror's, an agent is advised that a
\* tool was cleared, or flagged, only if a registered attestor's last word on it
\* was just that at the point the index had reached; an outage is never an
\* all-clear (mcp.mjs:65-86).  On an answer from the node's own table (source
\* "cache") check_tool does advise on a scan that nobody anchored: section 4 of
\* the README, `mirror`.
AdviceIsOnRecord ==
    \A t \in Tools, named \in BOOLEAN :
        \A r \in {x \in Outcomes(t, named) : x.source # "cache"} :
            Advice(r) \in {"cleared", "flagged"} =>
                \E i \in SeenRows(r.toolId) :
                    /\ named => r.toolId = t
                    /\ \E j \in 1..i : SignedBy(j, i)
                    /\ IsLastAnchor(i, r.toolId, log[i].attestor, cursor)
                    /\ IF Advice(r) = "cleared" THEN log[i].verdict = CLEAN
                                                ELSE log[i].verdict \in {WARN, CRITICAL}

\* client/index.js:237-238 again, where the index is out of the client's reach
\* and the REST mirror "answers from the same chain data" (line 153): what it
\* lets a caller who pins the manifest pass, some attestor's isCleared grants.
MirrorClearsLikeContract ==
    \A t \in Tools : cursor = Len(log) =>
        \A r \in Lookup(t), c \in Contents, maxAge \in 1..MaxTime :
            (/\ r.source \in {"mirror", "cache"}
             /\ Gate(r, [trusted |-> Anyone, maxAge |-> maxAge, allowWarn |-> FALSE,
                         allowUnknown |-> FALSE, want |-> c]))
                => \E a \in Attestors : IsCleared(t, c, a, maxAge)
=============================================================================
