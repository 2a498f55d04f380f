--------------------------- MODULE AnchorPipeline ---------------------------
(***************************************************************************)
(* From a scan to the chain: the `scans` table (server/db.js), the API     *)
(* handlers that write it (server/index.js), the batch worker              *)
(* (server/worker.js) and the calls both make to the chain                 *)
(* (server/chain.js).  API and worker are two processes on one SQLite      *)
(* file, so every statement is a step of its own when the other process    *)
(* can see the difference; within the API, handlers interleave at awaits.  *)
(*                                                                         *)
(* A row is a receipt hash, numbered in the order of created_at.  Of a     *)
(* signature only this matters: the registry accepts it ("good") or a call *)
(* that carries it reverts ("bad"); "server" is one made with this node's  *)
(* key.  Timers and backoff only delay the worker's next tick, which may   *)
(* come at any time here.                                                  *)
(***************************************************************************)
EXTENDS Integers, Sequences, FiniteSets

CONSTANTS
    NumRows,        \* bound: receipts
    Calls,          \* bound: POST /anchor requests (each served once)
    ClientSigs,     \* what clients submit: a subset of {"good", "bad"}
    BATCH_MAX,
    POISON_AFTER,
    AUTO_ANCHOR,    \* the settings of this flag an API process may start with
    Resubmit,       \* may a client queue a receipt a second time
    RegistryHasCode,    \* there is a contract at the registry's address
    MaxTx,          \* bound: transactions sent
    Budget,         \* bound: how often each thing of Kinds may happen
    Mix             \* bound: how many different accidents one run combines

Rows  == 1..NumRows
Kinds == {"fault",      \* an RPC call fails before the transaction is sent
          "lost",       \* a transaction is sent, its answer never comes
          "revert",     \* it is mined and reverts (key rotated, out of gas)
          "crash",      \* a process dies and is restarted
          "rescan",     \* the same content is scanned again within a second
          "queue"}      \* POST /anchor/queue

ASSUME PipelineAssumption ==
    /\ NumRows \in Nat
    /\ ClientSigs \subseteq {"good", "bad"}
    /\ BATCH_MAX \in Nat \ {0}
    /\ POISON_AFTER \in Nat \ {0}
    /\ AUTO_ANCHOR \subseteq BOOLEAN
    /\ Resubmit \in BOOLEAN
    /\ RegistryHasCode \in BOOLEAN
    /\ MaxTx \in Nat
    /\ Budget \in [Kinds -> Nat]
    /\ Mix \in Nat

States == {"absent", "pending", "unanchored", "queued", "sent",
           "confirmed", "failed", "poison"}
NoTx   == 0
NoRow  == 0

VARIABLES
    scans,      \* row => anchor_state, the stored client signature, anchor_tx
    api,        \* the handler the API process is in between two statements,
                \* and the AUTO_ANCHOR it was started with
    calls,      \* POST /anchor (or auto-anchor) requests waiting for the chain
    worker,     \* the worker process
    txs,        \* the transactions sent, with the signature of every row in it
    anchors,    \* row => ScanAnchored events
    \* history, read by properties only:
    warrants,   \* row => requests that ask for it to be anchored (POST /scan
                \* with AUTO_ANCHOR, /anchor, /anchor/queue), plus answers
                \* lost after which the row could be sent again
    taken,      \* rows the worker's query found 'pending': taken unasked
    operator,   \* rows the operator asked to anchor with the server's key
    spent       \* of the Budget

history == <<warrants, taken, operator>>
vars == <<scans, api, calls, worker, txs, anchors, history, spent>>

Waiting == [pc |-> "free", row |-> NoRow, sig |-> "none", tx |-> NoTx, auto |-> FALSE]
Served  == [Waiting EXCEPT !.pc = "done"]
NoBatch == [r \in {} |-> "none"]
Resting == [pc |-> "idle", batch |-> NoBatch, todo |-> {}, tx |-> NoTx,
            outcome |-> "none", fails |-> 0]

Init ==
    /\ scans = [r \in Rows |-> [state |-> "absent", sig |-> "none", tx |-> NoTx]]
    /\ api \in {[op |-> "none", row |-> NoRow, sig |-> "none", auto |-> a] : a \in AUTO_ANCHOR}
    /\ calls = [c \in Calls |-> Waiting]
    /\ worker = Resting
    /\ txs = <<>>
    /\ anchors = [r \in Rows |-> 0]
    /\ warrants = [r \in Rows |-> 0]
    /\ taken = {}
    /\ operator = {}
    /\ spent = [k \in Kinds |-> 0]

Met == {k \in Kinds \ {"queue"} : spent[k] > 0}

Spend(kind) ==
    /\ spent[kind] < Budget[kind]
    /\ kind \in Met \cup {"queue"} \/ Cardinality(Met) < Mix
    /\ spent' = [spent EXCEPT ![kind] = @ + 1]

\* One more anchor of each of these rows is accounted for.
Warrant(S) ==
    /\ warrants' = [r \in Rows |-> IF r \in S THEN warrants[r] + 1 ELSE warrants[r]]
    /\ UNCHANGED taken

-----------------------------------------------------------------------------
(* The statements of server/db.js                                          *)

SetState(r, state) == scans' = [scans EXCEPT ![r].state = state]

QueueScan(r, sig) ==
    scans' = [scans EXCEPT ![r].sig = sig, ![r].state = "queued"]

MarkAnchored(r, tx, state) ==
    scans' = [scans EXCEPT ![r].tx = tx, ![r].state = state]

\* ORDER BY created_at LIMIT n
FirstOf(S, n) == {r \in S : Cardinality({q \in S : q < r}) < n}

PendingScans(n) ==
    FirstOf({r \in Rows : scans[r].state \in {"pending", "failed"}}, n)

\* MUTANT: failed rows are left to the other query.
QueuedScans_NotFailed(n) ==
    FirstOf({r \in Rows : scans[r].state = "queued" /\ scans[r].sig # "none"}, n)

QueuedScans(n) ==
    FirstOf({r \in Rows : /\ scans[r].state \in {"queued", "failed"}
                          /\ scans[r].sig # "none"}, n)

-----------------------------------------------------------------------------
(* The chain, as server/chain.js sees it                                   *)

\* An address without code reverts nothing.
Reverts(sigs) == RegistryHasCode /\ \E r \in DOMAIN sigs : sigs[r] = "bad"

\* writeContract returns a hash: gas estimation did not revert, and the node
\* took the transaction.
Sends(sigs) ==
    /\ ~ Reverts(sigs)
    /\ Len(txs) < MaxTx
    /\ txs' = Append(txs, [sigs |-> sigs, status |-> "pending"])

\* It throws and nothing was sent: estimation reverts, or the RPC fails.
Throws(sigs) ==
    /\ \/ Reverts(sigs) /\ UNCHANGED spent
       \/ Spend("fault")
    /\ UNCHANGED txs

\* anchorScan calls assertChain first, anchorScanBatch does not.
SendsOne(sigs)  == RegistryHasCode /\ Sends(sigs)
ThrowsOne(sigs) == Throws(sigs) \/ (~ RegistryHasCode /\ UNCHANGED <<txs, spent>>)

Mined(tx) == txs[tx].status # "pending"

\* What the receipt's status makes of the row.
StateOf(tx) == IF txs[tx].status = "success" THEN "confirmed" ELSE "failed"

Mine(i) ==
    /\ txs[i].status = "pending"
    /\ \/ /\ txs' = [txs EXCEPT ![i].status = "success"]
          /\ anchors' = [r \in Rows |->
                IF RegistryHasCode /\ r \in DOMAIN txs[i].sigs
                THEN anchors[r] + 1 ELSE anchors[r]]
          /\ UNCHANGED spent
       \/ /\ RegistryHasCode
          /\ Spend("revert")
          /\ txs' = [txs EXCEPT ![i].status = "reverted"]
          /\ UNCHANGED anchors
    /\ UNCHANGED <<scans, api, calls, worker, history>>

-----------------------------------------------------------------------------
(* The API process: one handler at a time, until its next await            *)

AtRest == api.op = "none"
Enter(op, r, sig) == api' = [api EXCEPT !.op = op, !.row = r, !.sig = sig]
Leave == Enter("none", NoRow, "none")

\* POST /scan: INSERT ... 'pending' ON CONFLICT DO NOTHING.  With AUTO_ANCHOR
\* the handler goes on to the chain by itself.
ScanInsert(r) ==
    /\ AtRest
    /\ \/ /\ scans[r].state = "absent"
          /\ \A q \in Rows : q < r => scans[q].state # "absent"
          /\ SetState(r, "pending")
          /\ UNCHANGED spent
       \/ /\ scans[r].state # "absent"
          /\ Spend("rescan")
          /\ UNCHANGED scans
    /\ IF api.auto
       THEN \E c \in Calls :
              /\ calls[c].pc = "free"
              /\ calls' = [calls EXCEPT ![c] =
                    [pc |-> "submit", row |-> r, sig |-> "server", tx |-> NoTx, auto |-> TRUE]]
              /\ operator' = operator \cup {r}
              /\ Warrant({r})
              /\ UNCHANGED api
       ELSE /\ Enter("scan", r, "none")
            /\ UNCHANGED <<calls, history>>
    /\ UNCHANGED <<worker, txs, anchors>>

\* MUTANT: public scans stay where the worker finds them.
ScanUnanchored_Skipped ==
    /\ api.op = "scan"
    /\ Leave
    /\ UNCHANGED <<scans, calls, worker, txs, anchors, history, spent>>

\* ... then, without AUTO_ANCHOR, setState(receiptHash, 'unanchored').
ScanUnanchored ==
    /\ api.op = "scan"
    /\ SetState(api.row, "unanchored")
    /\ Leave
    /\ UNCHANGED <<calls, worker, txs, anchors, history, spent>>

\* POST /anchor: a client's signature, or none and the operator's token.
AnchorRequest(c, r, sig) ==
    /\ AtRest
    /\ calls[c].pc = "free"
    /\ scans[r].state \notin {"absent", "confirmed"}
    /\ calls' = [calls EXCEPT ![c] =
          [pc |-> "submit", row |-> r, sig |-> sig, tx |-> NoTx, auto |-> FALSE]]
    /\ operator' = IF sig = "server" THEN operator \cup {r} ELSE operator
    /\ Warrant({r})
    /\ UNCHANGED <<scans, api, worker, txs, anchors, spent>>

CallSigs(c) == [r \in {calls[c].row} |-> calls[c].sig]

CallSubmit(c) ==
    /\ calls[c].pc = "submit"
    /\ \/ /\ SendsOne(CallSigs(c))
          /\ calls' = [calls EXCEPT ![c].pc = "wait", ![c].tx = Len(txs')]
          /\ UNCHANGED spent
       \/ /\ ThrowsOne(CallSigs(c))
          /\ calls' = [calls EXCEPT ![c].pc = "catch"]
    /\ UNCHANGED <<scans, api, worker, anchors, history>>

\* The receipt is there: markAnchored(hash, block, confirmed or failed).
CallRecord(c) ==
    /\ AtRest
    /\ calls[c].pc = "wait"
    /\ Mined(calls[c].tx)
    /\ MarkAnchored(calls[c].row, calls[c].tx, StateOf(calls[c].tx))
    /\ calls' = [calls EXCEPT ![c] = Served]
    /\ UNCHANGED <<api, worker, txs, anchors, history, spent>>

\* waitForTransactionReceipt gives up, whatever became of the transaction.
CallGivesUp(c) ==
    /\ calls[c].pc = "wait"
    /\ Spend("lost")
    /\ calls' = [calls EXCEPT ![c].pc = "catch"]
    /\ Warrant({calls[c].row})
    /\ UNCHANGED <<scans, api, worker, txs, anchors, operator>>

\* catch: markAnchored(receiptHash, null, null, 'failed').  The auto-anchor
\* branch of POST /scan only reports the error.
CallCatch(c) ==
    /\ AtRest
    /\ calls[c].pc = "catch"
    /\ IF calls[c].auto THEN UNCHANGED scans
                        ELSE MarkAnchored(calls[c].row, NoTx, "failed")
    /\ calls' = [calls EXCEPT ![c] = Served]
    /\ UNCHANGED <<api, worker, txs, anchors, history, spent>>

\* POST /anchor/queue reads the row, then stores the signature.
QueueRead(r, sig) ==
    /\ AtRest
    /\ scans[r].state \notin {"absent", "confirmed"}
    /\ Resubmit \/ scans[r].sig = "none"
    /\ Spend("queue")
    /\ Enter("queue", r, sig)
    /\ Warrant({r})
    /\ UNCHANGED <<scans, calls, worker, txs, anchors, operator>>

QueueWrite ==
    /\ api.op = "queue"
    /\ QueueScan(api.row, api.sig)
    /\ Leave
    /\ UNCHANGED <<calls, worker, txs, anchors, history, spent>>

\* The API restarts: what its handlers were waiting for is forgotten.
ApiCrash ==
    /\ Spend("crash")
    /\ Leave
    /\ calls' = [c \in Calls |->
          IF calls[c].pc = "free" THEN calls[c] ELSE Served]
    /\ UNCHANGED <<scans, worker, txs, anchors, history>>

-----------------------------------------------------------------------------
(* The worker process: tick, drainOnce, drainOneByOne                      *)

\* Signed rows first, then rows this node signs itself, BATCH_MAX in all.
Batch ==
    LET signed   == QueuedScans(BATCH_MAX)
        unsigned == PendingScans(BATCH_MAX) \ signed
    IN  signed \cup FirstOf(unsigned, BATCH_MAX - Cardinality(signed))

\* toScanInput: the client's signature if the row has one, else the server's.
InputOf(r) == IF scans[r].sig = "none" THEN "server" ELSE scans[r].sig

\* The timer fires and drainOnce reads its rows.  Nothing to do counts as a
\* success.
Select ==
    /\ worker.pc = "idle"
    /\ IF Batch = {}
       THEN worker' = [worker EXCEPT !.fails = 0]
       ELSE worker' = [worker EXCEPT !.pc = "mark", !.todo = Batch,
                                     !.batch = [r \in Batch |-> InputOf(r)]]
    /\ taken' = taken \cup {r \in Batch : scans[r].state = "pending"}
    /\ UNCHANGED <<scans, api, calls, txs, anchors, warrants, operator, spent>>

\* One UPDATE of a loop over the batch; the loop ends in `next`.
OneRow(r, next) ==
    /\ r \in worker.todo
    /\ worker' = [worker EXCEPT !.todo = @ \ {r},
                                !.pc = IF worker.todo = {r} THEN next ELSE @]

\* MUTANT: rows stay eligible while their batch is sent.
MarkSent_Skipped(r) ==
    /\ worker.pc = "mark"
    /\ OneRow(r, "submit")
    /\ UNCHANGED <<scans, api, calls, txs, anchors, history, spent>>

MarkSent(r) ==
    /\ worker.pc = "mark"
    /\ SetState(r, "sent")
    /\ OneRow(r, "submit")
    /\ UNCHANGED <<api, calls, txs, anchors, history, spent>>

SubmitBatch ==
    /\ worker.pc = "submit"
    /\ \/ /\ Sends(worker.batch)
          /\ worker' = [worker EXCEPT !.pc = "wait", !.tx = Len(txs')]
          /\ UNCHANGED spent
       \/ /\ Throws(worker.batch)
          /\ worker' = [worker EXCEPT !.pc = "fail", !.todo = DOMAIN worker.batch]
    /\ UNCHANGED <<scans, api, calls, anchors, history>>

\* MUTANT: a hash is taken for a receipt.
BatchMined_Eager ==
    /\ worker.pc = "wait"
    /\ worker' = [worker EXCEPT !.pc = "record", !.todo = DOMAIN worker.batch,
                                !.outcome = "confirmed"]
    /\ UNCHANGED <<scans, api, calls, txs, anchors, history, spent>>

BatchMined ==
    /\ worker.pc = "wait"
    /\ Mined(worker.tx)
    /\ worker' = [worker EXCEPT !.pc = "record", !.todo = DOMAIN worker.batch,
                                !.outcome = StateOf(worker.tx)]
    /\ UNCHANGED <<scans, api, calls, txs, anchors, history, spent>>

BatchGivesUp ==
    /\ worker.pc = "wait"
    /\ Spend("lost")
    /\ worker' = [worker EXCEPT !.pc = "fail", !.todo = DOMAIN worker.batch]
    /\ Warrant(DOMAIN worker.batch)
    /\ UNCHANGED <<scans, api, calls, txs, anchors, operator>>

\* The tick ends well, whether the transaction succeeded or reverted.
RecordRow(r) ==
    /\ worker.pc = "record"
    /\ r \in worker.todo
    /\ MarkAnchored(r, worker.tx, worker.outcome)
    /\ worker' = IF worker.todo = {r} THEN Resting
                 ELSE [worker EXCEPT !.todo = @ \ {r}]
    /\ UNCHANGED <<api, calls, txs, anchors, history, spent>>

\* tick counts the failure and, when there were enough, isolates rows at once.
AfterFailure(isolate) ==
    [Resting EXCEPT !.fails = worker.fails + 1, !.pc = IF isolate THEN "isolate" ELSE "idle"]

\* MUTANTS: one failure too many before the one-by-one pass; never one; only
\* the first row is put back.
FailRow_OneMore(r) ==
    /\ worker.pc = "fail"
    /\ r \in worker.todo
    /\ SetState(r, "failed")
    /\ worker' = IF worker.todo # {r} THEN [worker EXCEPT !.todo = @ \ {r}]
                 ELSE AfterFailure(worker.fails + 1 > POISON_AFTER)
    /\ UNCHANGED <<api, calls, txs, anchors, history, spent>>
FailRow_NoFallback(r) ==
    /\ worker.pc = "fail"
    /\ r \in worker.todo
    /\ SetState(r, "failed")
    /\ worker' = IF worker.todo # {r} THEN [worker EXCEPT !.todo = @ \ {r}]
                 ELSE [Resting EXCEPT !.pc = "idle"]
    /\ UNCHANGED <<api, calls, txs, anchors, history, spent>>
FailRow_FirstOnly(r) ==
    /\ worker.pc = "fail"
    /\ r \in worker.todo
    /\ SetState(r, "failed")
    /\ worker' = AfterFailure(worker.fails + 1 >= POISON_AFTER)
    /\ UNCHANGED <<api, calls, txs, anchors, history, spent>>

\* drainOnce threw: every row back to 'failed', and tick counts the failure.
FailRow(r) ==
    /\ worker.pc = "fail"
    /\ r \in worker.todo
    /\ SetState(r, "failed")
    /\ worker' = IF worker.todo # {r} THEN [worker EXCEPT !.todo = @ \ {r}]
                 ELSE AfterFailure(worker.fails + 1 >= POISON_AFTER)
    /\ UNCHANGED <<api, calls, txs, anchors, history, spent>>

\* drainOneByOne reads the signed rows ...
Isolate ==
    /\ worker.pc = "isolate"
    /\ LET rows == QueuedScans(BATCH_MAX)
       IN  worker' = IF rows = {} THEN Resting
                     ELSE [worker EXCEPT !.pc = "one", !.todo = rows,
                             !.batch = [r \in rows |-> InputOf(r)]]
    /\ UNCHANGED <<scans, api, calls, txs, anchors, history, spent>>

Current == CHOOSE r \in worker.todo : \A q \in worker.todo : r <= q

\* MUTANT: the whole batch is sent again instead of one row.
OneSubmit_All ==
    /\ worker.pc = "one"
    /\ \/ /\ SendsOne(worker.batch)
          /\ worker' = [worker EXCEPT !.pc = "oneWait", !.tx = Len(txs')]
          /\ UNCHANGED spent
       \/ /\ ThrowsOne(worker.batch)
          /\ worker' = [worker EXCEPT !.pc = "poison"]
    /\ UNCHANGED <<scans, api, calls, anchors, history>>

\* ... and anchors them in turn: state stays as it was while one is sent.
OneSubmit ==
    /\ worker.pc = "one"
    /\ LET sigs == [r \in {Current} |-> worker.batch[Current]]
       IN  \/ /\ SendsOne(sigs)
              /\ worker' = [worker EXCEPT !.pc = "oneWait", !.tx = Len(txs')]
              /\ UNCHANGED spent
           \/ /\ ThrowsOne(sigs)
              /\ worker' = [worker EXCEPT !.pc = "poison"]
    /\ UNCHANGED <<scans, api, calls, anchors, history>>

OneGivesUp ==
    /\ worker.pc = "oneWait"
    /\ Spend("lost")
    /\ worker' = [worker EXCEPT !.pc = "poison"]
    /\ Warrant({Current})
    /\ UNCHANGED <<scans, api, calls, txs, anchors, operator>>

NextRow == worker' = IF worker.todo = {Current} THEN Resting
                     ELSE [worker EXCEPT !.pc = "one", !.todo = @ \ {Current}]

OneRecord ==
    /\ worker.pc = "oneWait"
    /\ Mined(worker.tx)
    /\ MarkAnchored(Current, worker.tx, StateOf(worker.tx))
    /\ NextRow
    /\ UNCHANGED <<api, calls, txs, anchors, history, spent>>

\* Whatever the error was, the row is marked 'poison'.
OnePoison ==
    /\ worker.pc = "poison"
    /\ MarkAnchored(Current, NoTx, "poison")
    /\ NextRow
    /\ UNCHANGED <<api, calls, txs, anchors, history, spent>>

\* The worker dies and is restarted: its memory is gone, the table and the
\* transactions it sent are not.  In the one-by-one pass the row is still
\* marked as it was before it was sent.
WorkerCrash ==
    /\ worker.pc # "idle"
    /\ Spend("crash")
    /\ worker' = Resting
    /\ Warrant(IF worker.pc = "oneWait" THEN {Current} ELSE {})
    /\ UNCHANGED <<scans, api, calls, txs, anchors, operator>>

-----------------------------------------------------------------------------

ApiStep ==
    \/ ScanUnanchored
    \/ QueueWrite
    \/ \E c \in Calls : CallSubmit(c) \/ CallRecord(c) \/ CallCatch(c)

WorkerStep ==
    \/ Select \/ SubmitBatch \/ BatchMined \/ Isolate
    \/ OneSubmit \/ OneRecord \/ OnePoison
    \/ \E r \in Rows : MarkSent(r) \/ RecordRow(r) \/ FailRow(r)

\* What clients, the operator and accidents do.
Environment ==
    \/ \E r \in Rows : ScanInsert(r)
    \/ \E c \in Calls, r \in Rows, sig \in ClientSigs \cup {"server"} :
          AnchorRequest(c, r, sig)
    \/ \E r \in Rows, sig \in ClientSigs : QueueRead(r, sig)
    \/ \E c \in Calls : CallGivesUp(c)
    \/ BatchGivesUp \/ OneGivesUp
    \/ ApiCrash \/ WorkerCrash

Next ==
    \/ ApiStep
    \/ WorkerStep
    \/ Environment
    \/ \E i \in DOMAIN txs : Mine(i)

Spec == Init /\ [][Next]_vars

\* PM2 keeps both processes running, the worker's timer is set again after
\* every tick, and the chain mines what it took.  Nothing obliges a client, an
\* operator or an accident to do anything.
Fairness ==
    /\ WF_vars(ApiStep)
    /\ WF_vars(WorkerStep)
    /\ \A i \in 1..MaxTx : WF_vars(i \in DOMAIN txs /\ Mine(i))

FairSpec == Spec /\ Fairness

-----------------------------------------------------------------------------
(* Properties                                                              *)

Sigs == {"none", "good", "bad", "server"}

\* Every variable holds a value the program can give it.
TypeOK ==
    /\ scans \in [Rows -> [state : States, sig : {"none"} \cup ClientSigs, tx : 0..MaxTx]]
    /\ api \in [op : {"none", "scan", "queue"}, row : Rows \cup {NoRow}, sig : Sigs,
               auto : AUTO_ANCHOR]
    /\ calls \in [Calls ->
          [pc : {"free", "submit", "wait", "catch", "done"}, row : Rows \cup {NoRow},
           sig : Sigs, tx : 0..MaxTx, auto : BOOLEAN]]
    /\ worker.pc \in {"idle", "mark", "submit", "wait", "record", "fail",
                      "isolate", "one", "oneWait", "poison"}
    /\ DOMAIN worker.batch \subseteq Rows
    /\ worker.todo \subseteq DOMAIN worker.batch
    /\ worker.tx \in 0..MaxTx
    /\ worker.outcome \in {"none", "confirmed", "failed"}
    /\ worker.fails \in 0..POISON_AFTER
    /\ \A i \in DOMAIN txs : /\ txs[i].status \in {"pending", "success", "reverted"}
                             /\ DOMAIN txs[i].sigs \subseteq Rows
    /\ Len(txs) <= MaxTx
    /\ anchors \in [Rows -> Nat]
    /\ warrants \in [Rows -> Nat]
    /\ taken \subseteq Rows
    /\ operator \subseteq Rows
    /\ \A k \in Kinds : spent[k] \in 0..Budget[k]

\* A row says 'confirmed' only when the transaction it names is one that
\* carried this very receipt and succeeded, under every race of the API with
\* the worker, crash, lost answer and repeated request.
ConfirmedIsAnchored ==
    \A r \in Rows :
        scans[r].state = "confirmed" =>
            /\ scans[r].tx \in DOMAIN txs
            /\ txs[scans[r].tx].status = "success"
            /\ r \in DOMAIN txs[scans[r].tx].sigs

\* What a row may be anchored: once for each request and lost answer, and once
\* in all if the worker ever found it 'pending' (worker.js:69), which it takes
\* without being asked.
Allowed(r) == warrants[r] + (IF r \in taken THEN 1 ELSE 0)

\* Retrying never multiplies anchors: a receipt is on chain at most once for
\* each POST request to anchor it, once for each answer that was lost, and once
\* more if the worker took it while it was 'pending', however often it did.
\* That last one is no request: with AUTO_ANCHOR it races the handler of the
\* same POST /scan, without it a public scan can be taken before it is
\* 'unanchored' (ServerSignsOnlyInTheGap).
AnchoredPerRequest == \A r \in Rows : anchors[r] <= Allowed(r)

\* While nothing crashes, a row marked 'sent' is in the worker's hands: no
\* query ever selects 'sent', so nobody else would bring it back.
SentIsHeld ==
    spent["crash"] = 0 =>
        \A r \in Rows :
            scans[r].state = "sent" =>
                r \in DOMAIN worker.batch /\ worker.pc \in {"mark", "submit", "wait", "record", "fail"}

\* worker.js:100-105 and README 254-256: what the one-by-one pass marks
\* 'poison' is the row with the invalid signature.
PoisonIsBad == \A r \in Rows : scans[r].state = "poison" => scans[r].sig = "bad"

\* worker.js:13-14 and db.js:2-4: a failed anchor is retried, not lost.  A
\* receipt queued with a valid signature is eventually confirmed.
QueuedIsConfirmed ==
    \A r \in Rows :
        (scans[r].state = "queued" /\ scans[r].sig = "good")
            ~> (scans[r].state = "confirmed")

\* The worker gets past an invalid signature: no row stays in the queue for
\* ever, failing every batch it is in.
QueueDrains ==
    \A r \in Rows :
        (scans[r].state = "queued") ~> (scans[r].state \in {"confirmed", "poison"})

\* index.js:155-158: a public scan is not signed with the server's key.  The
\* worker does sign a row nobody asked for, but only one whose anchoring
\* failed, or in the instant between the two statements of POST /scan, or when
\* a process died in that instant: no other order of API and worker does it.
ServerSignsOnlyInTheGap ==
    [][\A r \in Rows :
          (/\ worker.pc = "idle" /\ worker'.pc = "mark"
           /\ r \in DOMAIN worker'.batch /\ worker'.batch[r] = "server")
              => \/ r \in operator
                 \/ scans[r].state = "failed"
                 \/ api.op = "scan" /\ api.row = r
                 \/ spent["crash"] > 0]_vars

\* chain.js:48-54: where a write lands is checked "before the first write".  A
\* row says 'confirmed' only when its verdict is on chain.
ConfirmedIsOnChain ==
    \A r \in Rows : scans[r].state = "confirmed" => anchors[r] > 0

\* README 327-330: an anchor under the server's key is made only behind the
\* operator's token, so a row whose POST /anchor failed is not
\* anchored under the server's key unless the operator asked for that.
RetryIsNotServerSigned ==
    [][\A r \in Rows :
          (/\ worker.pc = "idle" /\ worker'.pc = "mark"
           /\ scans[r].state = "failed"
           /\ r \in DOMAIN worker'.batch /\ worker'.batch[r] = "server")
              => r \in operator]_vars
=============================================================================
