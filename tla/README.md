# MonadGuard in TLA+

MonadGuard scans AI tools (MCP server manifests and skill texts), signs a verdict with a P-256 key, anchors it
in an on-chain registry and lets clients and contracts gate on it. This directory holds TLA+ models of that
program, the TLC configurations that check them on small instances, and TLAPS proofs, for every value of the
constants, of every safety property that the passing runs check. Paths below are relative to the repository
root; `file:line` points into the source.

Run one check with `tlc -config <X>.cfg <module>` (the `runs` table of `PROJECT.json` pairs them) and the
proofs with `tlapm <X>Proofs.tla`; section 6 says which module holds which.

## 1. The system

### Components, their state and their operations

| component | state | operations that change it | what makes it correct |
|---|---|---|---|
| Registry contract (`contracts/ScanRegistry.sol`) | `latest`, `toolScanCount`, `attestorKey`, `totalAnchors`; events | `registerAttestor`, `anchorScan`, `anchorScanBatch` | nothing unsigned gets in; slots, events and counters agree; only an attestor's own word clears |
| Gated router (`contracts/examples/GatedRouter.sol`) | none of its own | `callTool` | a call goes through only on a fresh CLEAN of the exact manifest |
| Anchor queue (`server/db.js`, `server/schema.sql`) | `scans` rows: `anchor_state`, the client's signature, `anchor_tx` | `insertScan`, `setState`, `queueScan`, `markAnchored` | `confirmed` means on chain; nothing signed is lost |
| API (`server/index.js`) | handlers between awaits | `POST /scan`, `/anchor`, `/anchor/queue` | a request does not undo what the worker did; the server's key signs only for the operator |
| Batch worker (`server/worker.js`) | the batch in hand, `consecutiveFailures`, backoff | `drainOnce`, `drainOneByOne`, `tick` | every queued row with a valid signature gets through; an invalid one is isolated |
| Chain access (`server/chain.js`) | none | `anchorScan`, `anchorScanBatch`, `registerAttestor` | a hash is not a receipt; a receipt is not a success |
| Receipt store (`server/index.js`, `server/db.js`) | `scans`, `external_receipts`, `tools` | `POST /receipt`, `POST /scan`; read by `GET /receipt/:hash`, `/registry/resolve` | what is served is genuine and never changes; what was scanned is found |
| Rate limiters (`server/index.js`) | two maps of window counters | `limited`, the RPC proxy's counter | no caller gets past the rate |
| Faucet (`POST /faucet`) | `faucet_grants` | one handler | caps and one grant per address |
| Indexer (`indexer/src/EventHandlers.ts`) | `Tool`, `ToolVersion`, `Attestor`, `Scan` tables | two event handlers | aggregates equal what the audit trail says |
| Index selection (`server/envio.js`) | `chosen`, `checkedAt`, `eligible` | `pick`, `q` | no other chain's data; one healthy index is enough |
| Client library (`client/index.js`) | none | `check`, `gate` | what passes is what the contract would clear |
| Command line and MCP server (`client/cli.mjs`, `client/mcp.mjs`) | none | exit code, advice | both rest on what is on chain |
| Scanner and verdicts (`server/scanner/*`, `server/receipt.js`) | none (pure) | `scan`, `scanMCP`, `toVerdict`, `toGate` | a further match never makes a verdict milder |
| Browser attestor (`web/src/passkey.js`, `web/index.html`) | `state`, the panel, tasks between awaits | unlock, lock, refresh, register, scan and anchor, request gas | one identity's keys, receipts and transactions stay together |
| Operator's scripts (`survey`, `anchor-capture`, `seed`) | a run in progress | scan, look up, anchor | nothing is anchored that the report contradicts |

What remains (encodings, key loading, free scan, agent card, deployment and maintenance scripts, the rest of
the site) is listed in section 8 and, with a reason for each, in `PROJECT.json`.

### How they interact

    clients ──HTTP──▶ API ──SQL──▶ scans, tools, receipts ◀──SQL── worker
                      │  └──────────── RPC ───▶ registry ◀── RPC ──┘
                      │                         ▲   │ events
                      ▼                         │   ▼
                 index selection ──GraphQL──────┼─▶ local / cloud index
                      ▲                         │   ▲
    scripts ──HTTP────┘      client library ────┼───┴──(fallback: REST mirror of the API)
    browser attestor ──POST /receipt──▶ API     │      ▲ command line, MCP server
                     └──anchorScan──────────────┘    contracts ──isCleared──▶ registry

API and worker are two PM2 processes that share nothing but one SQLite file. Within the API, handlers
interleave at awaits; within the browser page, so do the buttons' tasks. The chain is reached by RPC calls
that may fail before or after the transaction is out. The index follows the chain's events at a distance; a
client reads the index, or a mirror of it, or, last of all, the node's own table.

### What is hard about it

* Two processes update the same rows with unconditional `UPDATE`s, with reads some statements earlier.
* A transaction can be out although the call that sent it failed; it can be mined and have reverted.
* The worker can die between marking rows `sent` and learning what became of them.
* One bad signature fails a whole batch.
* A batch can write one tool several times, with different verdicts.
* Keys rotate; signatures made for other senders, chains or contracts exist.
* An index lags, is down, or belongs to another chain; reads share one choice of index.
* Limits are read before awaits and recorded after them.
* An API may be restarted with other scanner rules in the middle of a script's run.
* A page is locked, or another passkey is unlocked, while its tasks await a network.
* The same receipt can be published in several forms, and a hash is looked up in two tables.

`PROJECT.json` lists each of these as a hazard, at its line, with the properties aimed at it.

## 2. The modules

    AttestationBoard                    what the registry promises
          ▲ implemented by
    RegistryBoard ──EXTENDS──▶ ScanRegistry ◀──EXTENDS── GatedRouter
                                 ▲       ▲
                   RegistryIndex ┘       └ PasskeyAttestor ──EXTENDS──▶ ReceiptStore
                         ▲
                     ClientGate
    AnchorPipeline    IndexSource    Faucet    RateLimit    OperatorRun    ScanVerdict
    *Proofs: theorems (section 6)      MC*: instances for TLC

**ScanRegistry** models the contract. A transaction is one action; a revert is an action that is not enabled.
The four storage variables keep their names; `log` is the sequence of events and `now` is `block.timestamp`.
The counters are unchecked in Solidity, so they are kept modulo `CountMod` (2^32) and `TotalMod` (2^64).
Hashes, keys and addresses are opaque. A signature is the pair (key, digest) it was made with, and
`VerifyP256` says that this is the digest of the submitted fields for this deployment and sender, under the
key now in storage; digests are records of the fields the contract encodes. `Signatures` is every signature a
key holder ever makes, `Calldata` what anybody may submit: these include the zero hash, an out-of-range
verdict or score, other deployments' signatures and stolen ones. A batch is one action whose effect on a slot
is that of the last element that writes it.

**AttestationBoard** and **RegistryBoard** state what a reader may rely on, without log, counters or keys: a
board of last statements that changes for an attestor only when it publishes something it vouched for. The
refinement maps a slot with timestamp 0 to silence.

**GatedRouter** adds `callTool`, a consumer contract, and remembers the calls it forwarded.

**RegistryIndex** adds the two event handlers and the four tables. `cursor` is how many events the index has
handled; every lag is a state. `toolsCovered` counts a tool again when attestors take turns on it
(EventHandlers.ts:72): that is translated as it is.

**ClientGate** adds the client. A look-up reads and changes nothing, so it is the set of answers possible in a
state: from the index (one row per attestor, the first in an answer ordered by block), from the mirror (every
row) or from the node's table (`cache`, which anybody fills through `POST /scan`). `Gate` takes every
combination of options. On top of it `ExitCode` is what the command line returns to a script and `Advice` what
the MCP server tells an agent.

**AnchorPipeline** is the queue: the `scans` table, API handlers, worker and the chain as they see it. Each
SQL statement the other process can observe is a step. Worker states: `mark` (one `UPDATE` per row), `submit`,
`wait`, `record` or `fail`, then `isolate`, `one`, `oneWait`, `poison` for the one-by-one pass. A row's
signature is `good` (the registry would accept it), `bad` (a call carrying it reverts in estimation) or none,
and the worker then signs with the server's key. A call throws before the transaction is out (`fault`), loses
its answer after (`lost`), or the transaction is mined and reverts (`revert`). `RegistryHasCode` says whether
there is a registry at the configured address, which single anchors check and batches do not. `warrants`,
`taken` and `operator` are history: how often a POST request asked for a row to be anchored (and how often an
answer was lost), which rows the worker found `pending` and took unasked, and for which rows the operator
asked.

**ReceiptStore** keeps the three tables the node serves receipts and tools from. A hash stands for the payload
it is the hash of. A JWS has a form, because the payload may be signed in bytes that are not its canonical
form; the first one published under a hash stays.

**PasskeyAttestor** composes the page, the receipt store and the registry. `opened` is every identity the page
derived, `state` the index of the current one; lock and unlock change it while `tasks` wait for answers. What
a task captured (`anchors`) and what it reads anew after an await (`state`) are told apart as the code does:
`scanAndAnchor` signs for the identity of its start, `send` uses the wallet of whoever is current, `status`
compares with the current key what it read of an earlier address. Transactions are mined later, in nonce
order, and may fail by then; the same passkey may register on another device.

**IndexSource** keeps the module variables of `envio.js` and every concurrent read's place between its awaits.
**Faucet** does the same for `POST /faucet`. **RateLimit** is the fixed windows of both limiters, with the
purge past 5000 entries. **OperatorRun** runs the anchoring scripts in any order against an API whose rules
change on restart, an index that lags or is silent, and other attestors who anchor on the same tools. An entry
has its own file (`Own`) and what the survey posts for it (`Reread`): survey.mjs:190 takes the first file
whose name starts like the package's, which for `@azure/mcp` may be another package's. Two entries may be
snapshots of one tool. **ScanVerdict** abstracts a regular expression to the set of rules a chunk of text
matches, which an edit may enlarge and also reduce, and keeps everything that follows: which finding a chunk
reports, severities, score, level, verdict, gate and size cap.

**MCNode** instantiates six modules that share no variable (faucet, limiters, index choice, receipt store,
scanners, scripts) in one run. A property of one of them does not depend on the order of steps of two, so a
behaviour moves one part and leaves the others at rest: the sum of their states and not the product.

Definitions with an underscore suffix (`FailRow_OneMore`, ...) are deliberate mistakes, one per property: with
the definition of that name replaced by it, the property fails. They are marked `MUTANT`.

## 3. The runs

### Registry and its readers

**registry** (`MCRegistry`, `Registry.cfg`; 18 610 states). `LatestIsLastEvent`, `CountersMatchLog`,
`KeyIsLastRegistered`, `Authentic`, `ClearanceIsOwnWord`, `CallsWereCleared` and the refinement
`ImplementsBoard`. Bounds: four events are enough for two registrations of one attestor around an anchor, or a
batch of two between single anchors; counters wrap at 3, so a history of four events crosses the boundary;
batches of two write one tool twice; three block times make an age limit of 1 matter. Two attestors, of which
the second has two keys, and one signature of each kind the contract must refuse.

**client** (`MCClientGate`, `ClientGate.cfg`; 69 261 states). `AggregatesMatchTrail` and
`CaughtUpIndexMatchesStorage` relate the index to the history at every lag; `GateAgreesWithContract`,
`PassIsVouched` and `CriticalBlocks` relate the gate to the contract and to the events; `PinnedExitIsOnChain`
says that a command line run that pins its attestors succeeds only on a verdict that is on chain, mirror or
not, and `AdviceIsOnRecord` that the MCP server's advice quotes a registered attestor's last word (answers
from the node's own table excepted: section 4, `mirror`). Query limits are 2 and 3, with up to four events: an
answer can be cut and can leave an attestor out. `GateAgreesWithContract` is stated where blocks and the limit
decide which row of an attestor is its last (`Decided`). `CriticalBlocks` holds at any lag and for any order
of rows, of an index's or the mirror's answer, for a CRITICAL that is on top of it (`OnTop`): no more rows
than the limit are as recent, and none of them is another of its attestor's. What the client does outside
these conditions is in section 7.

### Pipeline

**pipeline** (`Pipeline.cfg`; 2.5 million states). `ConfirmedIsAnchored`, `AnchoredPerRequest`, `SentIsHeld`
and `ServerSignsOnlyInTheGap` over two rows, a direct request, two queue requests (of either signature, also
for one row twice), `AUTO_ANCHOR` on and off. Each behaviour meets accidents of one kind (`Mix = 1`): a fault,
a lost answer, a revert, a crash of either process, or a repeated scan. These combine with signatures that
revert, so a batch can fail and an isolated pass can follow. Kinds of accident in combination are left to the
proofs: they only multiply the states. `POISON_AFTER` is 1 so that one failure reaches the isolated pass.

**pipeline_drains** (`PipelineDrains.cfg`; 124 456 states). Without accidents `QueuedIsConfirmed`,
`QueueDrains` and `PoisonIsBad` hold, for every choice of signatures on three rows in batches of two: rows
beyond a batch wait behind a bad one, and `POISON_AFTER` is 2 so that failures are counted. A receipt is
queued once (`Resubmit = FALSE`); section 7 says what a second signature can do in the isolated pass. `MaxTx`
is 9, more than calm behaviours send, so the bound does not cut off progress.

### The node's other parts

**node** (`MCNode`, `Node.cfg`; 1.9 million states), one part at a time:

* faucet: two requests in flight, caps of 1 and 2, a day of one clock unit, one restart or lost answer.
  `CapsOvershootByFlight` counts transfers and not rows: those paid for a day's requests are at most the daily
  cap and the mishaps, times the requests in flight at once, since several transfers to one address leave one
  row. An address is funded at most once per request in flight and mishap (`GrantsPerAddressBounded`).
* rate limiters: two callers and one without an address, windows of two units, a purge past one entry, a
  restart. `ServedPerMinute`: at most twice the rate in any span of a window, and the rate once more for each
  restart, whatever is purged.
* index choice: two reads, two outages, every initial assignment of chains and availability.
  `CloudServesThisChain` and `OneHealthyIndexIsEnough` depend on `eligible` surviving interleaved checks.
* receipt store: one origin, three names, a spelling with a slash; a passkey's receipt in two forms, one that
  names the node's key without being signed by it, one about another tool than it says. `ServedIsGenuine`,
  `ServedNeverChanges`.
* scanners: chunks at every band and boundary, two of them, one edit in place that may end a match.
  `ReceiptNeverSoftens`, `StrongTextIsFlagged`, `ManifestIsJudgedAsStrictly`.
* scripts: three scripts in any order, four entries on which old and new rules differ as they may, one of them
  an older snapshot of another's tool and one whose file the survey does not find again; another attestor, two
  API restarts, three anchors. `SurveyAnchorsItsReport`, `CriticalIsReviewed`, `RepeatsOnlyBlind`.

### Browser attestor

**browser** (`MCPasskeyAttestor`, `Browser.cfg`; 3.1 million states). Two passkeys, two slots for tasks, two
unlocks, two transactions, three events, and a third key that may be registered from elsewhere. That is enough
to lock or switch at every await of an anchor, to have a refresh of one identity answered while the other is
current, and to have a key replaced between the two reads of a refresh. `AnchorsOwnReceipt`,
`PublishedBeforeAnchored`, `ShownIsRegistered`, `OnlyCurrentSigns`.

Deadlock checking is off in every run: bounded histories end, and all of these systems may rest.

## 4. Where code and text disagree

Six runs check what a comment or a document says and find it violated by what the code does.

| run | said | what the code does |
|---|---|---|
| `worker_crash` | worker.js:13-14, db.js:2-4: a failed anchor is retried, not lost | rows marked `sent` (worker.js:83) when the worker dies are selected by no query again |
| `failed_request` | README.md:327-330: the server's key signs only behind `ADMIN_TOKEN` | a failed `POST /anchor` leaves `failed` without the signature (index.js:218); the worker signs it with the server's key |
| `no_registry` | chain.js:48-54, 62-64: where a write lands is checked before the first write | `anchorScanBatch` (chain.js:132) does not check; a batch to an address without code succeeds and its rows are called `confirmed` |
| `mirror` | client/index.js:153, 237-238: the mirror answers from the same chain data, and `gate` clears by the contract's rule | the mirror adds superseded verdicts and unanchored scans; who names no attestors passes on them |
| `wrong_chain` | envio.js:37-38: an index on the wrong chain is not a fallback | with no index of this chain the local one is asked without looking at `eligible` |
| `resolve` | index.js:310: an origin is mapped to the identities this node has scanned | `tools` keeps the origin as it was spelled last, slash included (index.js:142, db.js:34-37); the query drops the slash and compares (index.js:318, db.js:64) |

## 5. Fairness

Only `AnchorPipeline` has liveness properties. `Fairness` is weak fairness of the API's own steps, of the
worker's own steps and of mining each transaction. PM2 restarts both processes (ecosystem.config.cjs:17-45),
the worker sets its timer again after every tick whatever happened (worker.js:151-161), handlers go on when
their await is over, and a chain mines what it accepted. Nothing is assumed of clients, the operator or
accidents: they may stop or never act. Backoff delays a tick and is not modelled, since a tick may come at any
time.

## 6. What is proved

Every theorem is for all values of the constants under the named assumptions; the bounds of the runs
(`MaxLog`, `MaxTx`, `Mix`, ...) are constants too, so no proof depends on their being small. Each safety
property below was first checked by TLC, and so was each inductive invariant that had to be found for it.

| module | about |
|---|---|
| `ScanRegistryProofs` | the contract |
| `RegistryReadersProofs` | who reads it: the example router, and the abstract board |
| `RegistryIndexProofs` | the index |
| `ClientGateProofs` | client library, command line, MCP server |
| `AnchorPipelineProofs` | API, worker, table and chain |
| `NodeProofs` | index choice, receipt store, operator's scripts |
| `EndpointProofs` | rate limiters, faucet, scanners and verdicts |
| `PasskeyAttestorProofs` | the browser attestor |

### The registry (`ScanRegistryProofs`, `RegistryReadersProofs`)

* **TypeCorrect**: `Spec => []TypeOK`. What needs work is that an accepted verdict and score are in range,
  that unchecked counters stay within their width, and that the element a batch stores exists: a non-empty set
  of positions has a largest one (`LargestIndex`, by well-foundedness of the naturals).
* **AuthenticHolds**: `Authentic` is not inductive: a new anchor is signed by the key in *storage*, while the
  property speaks of the key in the *history*. `KeyInv` adds `KeyIsLastRegistered`, which ties the two, and
  `RegistrationsSigned`, which says that no registration entered the history without its key's consent. The
  step lemmas use `LogGrows`: a step appends to the log and rewrites nothing, so the last registration before
  an old anchor stays.
* **KeyIsLastRegisteredHolds**, from the same invariant.
* **LatestIsLastEventHolds**: with `TypeOK` it is inductive; the anchor step rests on `AnchorsAfter` (the
  anchors of a tool after a batch are those before plus the batch's writes, shifted) and `LastWriteIsLast`.
* **CountersMatchLogHolds**: the log's new positions are the batch's, shifted by the old length, so they are
  as many as the counter was raised by; that two numbers agree modulo a width survives adding the same to
  both.
* **ClearanceIsOwnWordHolds**: what makes `isCleared` true is the attestor's own CLEAN anchor, from
  `LatestIsLastEvent` and the effect of a batch on a slot.
* **CallsWereClearedHolds** (`RegistryReadersProofs`): each call the router let through has its verdict, and
  the signature behind it, in the history at that moment; `RouterInv` adds to `KeyInv` and `LatestIsLastEvent`
  that a recorded call points to a position of a log that only grows.
* **ImplementsBoardHolds** (`RegistryReadersProofs`): every step of the contract is, on the board, a step in
  which one attestor publishes statements it vouched for, or nothing. An anchor maps to the statement its
  batch writes last in each slot; a registration maps to a stutter, because the board has no keys.

### The index (`RegistryIndexProofs`)

* **AggregatesMatchTrailHolds** and **CaughtUpIndexMatchesStorageHolds**. `IndexInv` ties each row to the
  events seen (`SeenOf`) and not to the contract's storage: last word, key, versions, counts. Counts of clean,
  warn and critical are cardinalities of sets that gain the new position or do not. The delicate one is
  coverage: the handler takes an anchor for an attestor's first on a tool unless the tool's *latest* attestor
  is the same; where it sees no first time, the tool's last anchor was that attestor's own, so no tool is ever
  missing from the coverage, though one may count twice.

### The client (`ClientGateProofs`)

The client keeps no state, so its theorems are about what `Gate`, `ExitCode` and `Advice` return in every
reachable state: `ClientInv` is the invariant of the index with `BlocksOrdered` (later events are in no
earlier blocks).

* **PassIsVouchedHolds**, **PinnedExitIsOnChainHolds** and **AdviceIsOnRecordHolds** trace the row an answer
  rests on back through the index's tables to an event, and from there by `Authentic` to a signature.
* **GateAgreesWithContractHolds** is an equivalence. From right to left a row that the query limit cut off
  would be a counterexample, so `Decided` is used: within it the attestor's last event comes first in every
  order the index may give, and the gate's tests on it are the contract's tests on the slot
  (`LatestIsLastEvent`).
* **CriticalBlocksHolds**: a CRITICAL that is `OnTop` is among the rows of every answer, because the rows an
  answer may prefer to it are fewer than the limit (a count of sets, for every limit; TLC meets the boundary
  with limits of 2 and 3), and it is its attestor's first; no option removes it from what the gate looks at.

### The pipeline (`AnchorPipelineProofs`)

* **TypeCorrect**, **ConfirmedIsAnchoredHolds**, **ConfirmedIsOnChainIfDeployed**, for any number of rows,
  requests and accidents of every kind in combination. What makes a `confirmed` row true is the transaction
  that a request or the worker was waiting for when it wrote it, so `PipelineInv` says what each of them may
  be waiting for: its parts are about scans, API, calls, worker, chain and history. Transactions lose neither
  rows nor their fate (`TxsGrow`), and so nothing established about one is lost while somebody waits.
* **SentIsHeldHolds**: without a crash, a row is `sent` only while the worker has it in hand. `HeldInv`
  follows a batch through marking, sending, waiting, recording, failing and the one-by-one pass.
* **AnchoredPerRequestHolds**: the invariant is an account. For each row there is a set of tokens, one for
  everybody who may yet anchor it for a request already made: a transaction not mined, a request that has not
  sent or will write `failed`, the handler about to queue it, a row a query will find, the worker with the row
  in hand. `AccountInv` says that the anchors made and the tokens left are together no more than the requests,
  the lost answers and one for a row the worker took while it was `pending`. Taking it a second time costs
  nothing: a taken row that is `pending` still holds its token. Each step passes at most one token of a row on
  (`Settles`, `Balanced`); the two lemmas for a step of each kind say from whom to whom. Only `Mine` could
  hand one transaction's revert to two who wait for it, which `OneWaiter` excludes. A crash between sending in
  the one-by-one pass and writing the result counts as a lost answer, because the row is still selectable; a
  crash after `sent` does not.
* **ServerSignsOnlyInTheGapHolds**: `GapInv` says that a queued row has a signature and that a pending row is
  the operator's or in the gap of `POST /scan`. `RowSteps` lists the only statements that make a row pending,
  queued or poison.
* **PoisonIsBadWhenCalm**: the code marks `poison` on any error (section 7), so the theorem has the conditions
  under which that says something of the signature: a registry at the address, no fault and no lost answer, no
  second signature for a receipt. Reverts and crashes may happen. `PoisonInv` follows the signature from the
  row to the pass and back.

### The node's other parts (`NodeProofs`)

* **CloudServesThisChainHolds**: if the cloud index is another chain's then no read, wherever it is between
  its awaits, has it as its choice, its other choice or its source (`SourceInv`); the argument is that a head
  at or above zero is reported for this chain only, and only such heads make an index eligible.
* **OneHealthyIndexIsEnoughHolds**: `CheckInv` follows an index that has stayed up since a read began its own
  check: two reads never probe at once (`OneProber`), so it is seen by whatever check was made since and stays
  eligible, and it is not the one that failed to answer when the query is sent to the other.
* **ServedIsGenuineHolds**, **ServedNeverChangesHolds**: `StoreInv` says what a row of either table is. For
  immutability it needs that no row of the second table names the node's key: then the first table, asked
  first, never hides one of the second that was served before.
* **SurveyAnchorsItsReportHolds**, **CriticalIsReviewedHolds**: `OperatorInv` keeps, for each run, what it
  compared with its own checkout before it asked for the anchor. **RepeatsOnlyBlindHolds**: `RepeatInv` adds
  what the index had shown a run when it looked up an entry. The anchor that is a tool's latest when the
  script's own is mined was so already in any shorter past it is part of, so the script would have found it.

### The endpoints and the verdicts (`EndpointProofs`)

* **ServedPerMinuteHolds**: a span as long as a window meets at most two windows, and a counter that is purged
  had expired; `RateInv` bounds what a caller was served in a window, and in two in a row, by the counter and
  the restarts.
* **CapsOvershootByFlightHolds**, **GrantsPerAddressBoundedHolds**: `FaucetInv` keeps, for each network, the
  grants recorded together with those that may still be; for each address, what was sent before it has its row
  and after; and, for each moment a day may begin, the transfers paid since with those still to be paid,
  against the rows since (`GasKept`): a row stands for as many transfers as there are handlers, and a mishap
  for as many again.
* **StrongTextIsFlaggedHolds**, **ManifestIsJudgedAsStrictlyHolds**, **ReceiptNeverSoftensHolds**: levels are
  decided by how many findings have at least some severity, so two texts are compared by an injection of
  findings, position by position (`NumAtLeast`). A text whose chunks match what they matched loses no finding
  and each remaining one is no milder; `VerdictInv` says what text each receipt is of.

### The browser attestor (`PasskeyAttestorProofs`)

* **OnlyCurrentSignsHolds**, **AnchorsOwnReceiptHolds**, **PublishedBeforeAnchoredHolds**,
  **ShownIsRegisteredHolds**, for any number of identities, tasks and transactions. The heart of `PageInv` is
  that a task holds either the identity in use (the panel is shown and no dialog is open) or one that was
  wiped and whose session has ended; a dialog opens only from the locked view, and only lock leads back to it,
  so an identity never leaves use otherwise (`PageAdvances`). Hence the identity that still can sign at
  `SignAnchor` is the current one, and the wallet it is handed to is its own. A panel's verdict on a key
  survives the switch of identities because no key is registered but by the address it belongs to
  (`KeysLogged`).

### Assumptions

`ZeroAssumption` (the zero hash is no tool, manifest or key: the contract rejects it), `WidthAssumption`
(widths and bounds are naturals), `CalldataAssumption` (calldata has the type of `ScanInput`),
`RouterAssumption`, `ClientAssumption`, `PipelineAssumption`, `SourceAssumption`, `StoreAssumption`,
`OperatorAssumption`, `FaucetAssumption`, `RateAssumption` (types and bounds of constants, and that "anyone",
"nobody" and "any content" are no attestor or content), `VerdictAssumption` (a chunk's content is the rules it
matches; one that is a builtin's name is one word, and matches no other), `UndefinedAssumption` (no row is no
row of any type), `NodeKeyAssumption` (what the node did not sign is not signed with its key),
`PasskeyAssumption` (an address yields one key, and no two the same one) and `ConsentAssumption` (a passkey's
key signs no registration of another address). No assumption is made on `Signatures` in the registry: whatever
set of signatures exists. Unforgeability enters by `VerifyP256` only accepting a signature made with the key
over the digest.

### Model-checked only

The liveness properties `QueuedIsConfirmed` and `QueueDrains`: fairness is defined with `ENABLED`, which is
outside the prover's reach. The six violations of section 4 are counterexamples and need no proof.

## 7. Assumptions, and other disagreements

Assumed: the node holds a key (without one the worker skips unsigned rows); one API and one worker process, as
ecosystem.config.cjs:4-12 demands; the index sees no rollback (HyperIndex undoes those itself); a block is a
second where blocks order rows; the operator's scripts run with `AUTO_ANCHOR` off; the platform's passkey
dialog is modal, so nothing on the page is clicked under it.

Seen while modelling, not among the runs:

* Between the insert of a public scan (`pending`, index.js:143) and `unanchored` (index.js:158) a worker tick
  may select the row and sign it with the server's key, and a crash there leaves it selectable;
  index.js:155-157 says public scans stay off-chain. `ServerSignsOnlyInTheGap` says that nothing but this, a
  failed request or a crash has the server sign what nobody asked it to.
* The isolated pass marks `poison` on any error (worker.js:125), and no query selects `poison`: after
  `POISON_AFTER` failed batches and one more RPC fault a validly signed row is given up, although
  worker.js:100-105 speaks of the row whose signature is genuinely invalid. With a budget of `POISON_AFTER +
  1` faults, `PoisonIsBad` is violated; the passing run has none.
* A batch that is mined but reverts counts as success of the tick (worker.js:135): failures are reset, the
  isolated pass never comes, and rows that revert for ever are retried for ever.
* The isolated pass reads a row's signature before it sends and marks the row after: a signature submitted in
  between may be valid while the row is marked `poison` for the old one.
* "One grant per address, forever" (index.js:416) holds for one request at a time; two in flight for one
  address can both be paid. `GrantsPerAddressBounded` is the bound that does hold. The second transfer's
  INSERT fails on the primary key, so the caps never count it; nor do they count one whose answer is lost.
* With `AUTO_ANCHOR` one `POST /scan` can be anchored twice, by its handler and by the worker that takes the
  row while it is `pending`; without it the same gap gives a public scan one anchor nobody asked for.
  `AnchoredPerRequest` allows these.
* The seeder compares rules before it starts, not before each anchor as the survey does.
* The survey reads a manifest again by the beginning of its file's name (survey.mjs:190). Where another
  package's file comes first, that manifest is posted under this package's origin, and anchored if the API
  judges it alike, CRITICAL too although the review was of the package's own. The look-up compares with the
  package's own manifest, so each run anchors it again.
* A seed that is an older snapshot of a tool the survey covers (seed.mjs:12-16) displaces the survey's anchor
  and is displaced by it, at each run of either. `RepeatsOnlyBlind` is not about these two: it says that what
  a script was shown as the latest word, if it says what the script would say, is left alone.
* Rows of one block come in any order from the index, so "most recent" of an attestor with two verdicts in one
  block may be the older one.
* The client asks the index for 50 rows (client/index.js:128). A trusted attestor's CRITICAL is left out of
  the answer once 50 later rows of anybody's are there, and `gate` then passes what the others clear. With its
  attestor's other verdict in the same block it may be left out too. `CriticalBlocks` excludes both, and
  answers from the node's own table, which show no anchored verdict at all.
* An informational rule (M008, a long text) that matches first hides a stronger one (M009) of the same chunk.
* Text that is only appended can end a match: rules look at word boundaries and at what follows (engine.js:9,
  26, 40; mcp.js:39), so "more text is never judged milder" is not true. `ReceiptNeverSoftens` speaks of texts
  that go on matching what they matched.
* The MCP server's advice says that an attestor "cleared this exact version" although no content hash is
  compared there, and "Nobody has scanned this tool" where an attestor's verdict is UNKNOWN.
* `--max-age-days` that is no number, or zero, turns the age limit off.
* The page can be unlocked twice before its first refresh ends; the first key is then dropped without being
  wiped. A panel may combine the balance of one identity with the name of another. A wait that times out is
  reported as a failure although the transaction may be mined.

## 8. Not modelled

| part | reason |
|---|---|
| canonical JSON, hashes, ES256 (`server/receipt.js`) | encoding and cryptography, abstracted to equality |
| `server/keys.js` | reads a key at startup |
| RPC proxy's method filter, `scan_manifest` of the MCP server | stateless pass-through |
| free scan, agent card, the rest of the site | stateless or presentation |
| attestor, deployment, capture and maintenance scripts | one-shot sequences of calls; `attestor.mjs` derives the key the page uses, which is modelled there |
| rule texts, edit distance, manifest download | the set of matching rules is an input |
| the passkey ceremony, gas and nonces below `send` | the platform's and the wallet library's |

## 9. Plan

Order of work: what a wrong answer would cost first. Done: registry, its promise and proofs; pipeline and its
proofs; index, client and front ends; index choice; receipt store; browser attestor; faucet and limiters;
scripts; verdicts.

Next, models:

1. `RelayedAnchor`: the digest's attestor and the sender on the relay path. A client's signature relayed by
   `POST /anchor` (index.js:207) is sent from the node's address, so it verifies only under the key that
   address registered. `Authentic` is its safety side.
2. The pipeline composed with the registry: rows with verdicts, so that an old CLEAN retried after a newer
   CRITICAL is in scope (worker.js:69).
3. An abstract specification of the queue (each asked-for row is pending, done or given up) and the refinement
   from `AnchorPipeline`.
4. What the seeder promises beyond its preflight (seed.mjs:73), once its text says so.

Proofs: every safety property of the passing runs has its theorem. Next come the refinement of point 3, with
`AccountInv` as its bookkeeping, and theorems for what the six runs of section 4 leave standing: under which
conditions each of the statements they refute does hold, as `ConfirmedIsOnChainIfDeployed` says for
`no_registry`.
