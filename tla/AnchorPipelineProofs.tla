------------------------ MODULE AnchorPipelineProofs ------------------------
(***************************************************************************)
(* The anchor queue for any number of receipts and requests, any batch     *)
(* size and any number of crashes and lost answers: types, what a          *)
(* 'confirmed' row vouches for and what that says of the chain, where a    *)
(* row marked 'sent' is, how often a receipt is anchored, which rows this  *)
(* node signs, and what the one-by-one pass calls poison.                  *)
(***************************************************************************)
EXTENDS AnchorPipeline, WellFoundedInduction, SequenceTheorems, FiniteSetTheorems, TLAPS

\* Signatures of some rows: what a transaction or the worker's batch carries.
SigMaps == UNION {[S -> Sigs] : S \in SUBSET Rows}

RowState  == [state : States, sig : {"none"} \cup ClientSigs, tx : 0..MaxTx]
ApiState  == [op : {"none", "scan", "queue"}, row : Rows \cup {NoRow}, sig : Sigs,
              auto : AUTO_ANCHOR]
CallState == [pc : {"free", "submit", "wait", "catch", "done"}, row : Rows \cup {NoRow},
              sig : Sigs, tx : 0..MaxTx, auto : BOOLEAN]
TxState   == [sigs : SigMaps, status : {"pending", "success", "reverted"}]

Batching   == {"idle", "mark", "submit", "wait", "record", "fail"}
Isolating  == {"isolate", "one", "oneWait", "poison"}
WorkerState == [pc : Batching \cup Isolating, batch : SigMaps, todo : SUBSET Rows,
                tx : 0..MaxTx, outcome : {"none", "confirmed", "failed"},
                fails : 0..POISON_AFTER]

-----------------------------------------------------------------------------
(* The inductive invariant, part by part                                   *)

\* Transaction i was sent, with the row in it; and it succeeded.
Sent(r, i)    == i \in DOMAIN txs /\ r \in DOMAIN txs[i].sigs
Carries(r, i) == Sent(r, i) /\ txs[i].status = "success"

ScansInv ==
    /\ scans \in [Rows -> RowState]
    /\ \A r \in Rows : scans[r].state = "confirmed" => Carries(r, scans[r].tx)

ApiInv ==
    /\ api \in ApiState
    /\ api.op # "none" => api.row \in Rows
    /\ api.op = "queue" => api.sig \in ClientSigs

\* A request that waits for a receipt waits for that of its own transaction.
CallOK(call) ==
    /\ call \in CallState
    /\ call.pc \in {"submit", "wait", "catch"} => call.row \in Rows
    /\ call.pc = "wait" => Sent(call.row, call.tx)

CallsInv == calls \in [Calls -> CallState] /\ \A c \in Calls : CallOK(calls[c])

\* So does the worker, for every row it still has to write down.
WorkerOK(w) ==
    /\ w \in WorkerState
    /\ w.todo \subseteq DOMAIN w.batch
    /\ w.pc \in Batching => w.fails < POISON_AFTER
    /\ w.pc \in {"one", "oneWait", "poison"} => w.todo # {}
    /\ w.pc \in {"wait", "record"} => \A r \in DOMAIN w.batch : Sent(r, w.tx)
    /\ (w.pc = "record" /\ w.outcome = "confirmed") =>
          \A r \in DOMAIN w.batch : Carries(r, w.tx)
    /\ w.pc = "record" => w.outcome # "none"
    /\ w.pc = "oneWait" =>
          Sent(CHOOSE r \in w.todo : \A q \in w.todo : r <= q, w.tx)

WorkerInv == WorkerOK(worker)

\* What succeeded at a registry that is there left its events.
ChainInv ==
    /\ txs \in Seq(TxState)
    /\ Len(txs) <= MaxTx
    /\ anchors \in [Rows -> Nat]
    /\ RegistryHasCode =>
          \A i \in DOMAIN txs, r \in Rows : Carries(r, i) => anchors[r] > 0

HistoryInv ==
    /\ warrants \in [Rows -> Nat]
    /\ taken \subseteq Rows
    /\ operator \subseteq Rows
    /\ spent \in [Kinds -> Nat]
    /\ \A k \in Kinds : spent[k] <= Budget[k]

PipelineInv ==
    ScansInv /\ ApiInv /\ CallsInv /\ WorkerInv /\ ChainInv /\ HistoryInv

-----------------------------------------------------------------------------
(* Facts about the operators                                               *)

LEMMA SigsKnown == /\ {"none", "server"} \cup ClientSigs \subseteq Sigs
                   /\ 0 \in 0..MaxTx
BY PipelineAssumption DEF Sigs

LEMMA NoBatchTyped == NoBatch \in SigMaps /\ DOMAIN NoBatch = {}
<1>1. NoBatch \in [{} -> Sigs] /\ {} \in SUBSET Rows
  BY DEF NoBatch
<1> QED BY <1>1 DEF SigMaps

\* Signatures put together row by row.
LEMMA SigMapTyped ==
    ASSUME NEW S \in SUBSET Rows, NEW f \in [S -> Sigs]
    PROVE  f \in SigMaps
BY DEF SigMaps

LEMMA SigMapDomain ==
    ASSUME NEW f \in SigMaps
    PROVE  DOMAIN f \in SUBSET Rows /\ \A r \in DOMAIN f : f[r] \in Sigs
BY DEF SigMaps

LEMMA RestingOK == WorkerOK(Resting) /\ Resting.pc = "idle"
BY NoBatchTyped, SigsKnown, PipelineAssumption
   DEF WorkerOK, WorkerState, Resting, Batching, Isolating, NoTx

LEMMA FreeOK == CallOK(Waiting) /\ CallOK(Served)
BY SigsKnown DEF CallOK, CallState, Waiting, Served, NoRow, NoTx, Sigs

\* The row whose turn it is in the one-by-one pass is one of those left.
LEMMA SmallestRow ==
    ASSUME NEW S \in SUBSET Rows, S # {}
    PROVE  (CHOOSE r \in S : \A q \in S : r <= q) \in S
<1> DEFINE Less == {ss \in Nat \X Nat : ss[1] < ss[2]}
<1>1. IsWellFoundedOn(Less, Nat)
  BY NatLessThanWellFounded DEF OpToRel
<1>2. S \subseteq Nat
  BY PipelineAssumption DEF Rows
<1>3. PICK m \in S : \A k \in S : ~ (<<k, m>> \in Less)
  <2> HIDE DEF Less
  <2> QED BY <1>1, <1>2, WFMin
<1>4. \A k \in S : m <= k
  <2> TAKE k \in S
  <2>1. k \in Nat /\ m \in Nat
    BY <1>2
  <2>2. ~ (k < m)
    BY <1>3, <2>1
  <2> QED BY <2>1, <2>2
<1> QED BY <1>4

LEMMA CurrentIsLeft ==
    ASSUME WorkerInv, worker.pc \in {"one", "oneWait", "poison"}
    PROVE  Current \in worker.todo /\ Current \in Rows
BY SmallestRow DEF WorkerInv, WorkerOK, WorkerState, Current

\* The batch the worker reads is made of rows.
LEMMA BatchTyped == /\ Batch \in SUBSET Rows
                    /\ QueuedScans(BATCH_MAX) \in SUBSET Rows
BY DEF Batch, QueuedScans, PendingScans, FirstOf

LEMMA InputTyped ==
    ASSUME ScansInv, NEW r \in Rows
    PROVE  InputOf(r) \in Sigs
BY SigsKnown DEF ScansInv, RowState, InputOf

-----------------------------------------------------------------------------
(* The chain                                                               *)

\* Transactions are never forgotten, nor their rows or their fate.
TxsGrow ==
    \A i \in DOMAIN txs :
        /\ i \in DOMAIN txs'
        /\ txs'[i].sigs = txs[i].sigs
        /\ txs[i].status # "pending" => txs'[i].status = txs[i].status

\* What was sent stays sent, what was carried stays carried.
LEMMA SentStays ==
    ASSUME TxsGrow, NEW r, NEW i
    PROVE  (Sent(r, i) => Sent(r, i)') /\ (Carries(r, i) => Carries(r, i)')
BY DEF TxsGrow, Sent, Carries

\* A transaction is sent.
LEMMA SendsKeeps ==
    ASSUME ChainInv, NEW sigs \in SigMaps, Sends(sigs), anchors' = anchors
    PROVE  /\ ChainInv' /\ TxsGrow
           /\ Len(txs') \in 0..MaxTx
           /\ (\A r \in DOMAIN sigs : Sent(r, Len(txs)))'
<1> DEFINE tx == [sigs |-> sigs, status |-> "pending"]
<1>1. tx \in TxState /\ tx.sigs = sigs /\ tx.status = "pending"
  BY DEF TxState
<1>2. txs' = Append(txs, tx) /\ Len(txs) < MaxTx
  BY DEF Sends
<1> HIDE DEF tx
<1>3. /\ txs' \in Seq(TxState)
      /\ Len(txs') = Len(txs) + 1 /\ Len(txs) \in Nat
      /\ DOMAIN txs = 1..Len(txs) /\ DOMAIN txs' = 1..(Len(txs) + 1)
      /\ \A i \in 1..Len(txs) : txs'[i] = txs[i]
      /\ txs'[Len(txs) + 1] = tx
  BY <1>1, <1>2, AppendProperties, LenProperties DEF ChainInv
<1>4. TxsGrow
  BY <1>3 DEF TxsGrow
<1>5. Len(txs') \in 0..MaxTx /\ Len(txs') <= MaxTx
  BY <1>2, <1>3, PipelineAssumption
<1>6. (\A r \in DOMAIN sigs : Sent(r, Len(txs)))'
  BY <1>1, <1>3 DEF Sent
<1>7. ASSUME RegistryHasCode, NEW i \in DOMAIN txs', NEW r \in Rows, Carries(r, i)'
      PROVE  anchors'[r] > 0
  <2>1. i # Len(txs) + 1
    BY <1>1, <1>3, <1>7 DEF Carries
  <2>2. i \in DOMAIN txs /\ txs'[i] = txs[i]
    BY <1>3, <2>1
  <2>3. Carries(r, i)
    BY <1>7, <2>2 DEF Carries, Sent
  <2> QED BY <1>7, <2>2, <2>3 DEF ChainInv
<1> QED BY <1>3, <1>4, <1>5, <1>6, <1>7 DEF ChainInv

\* A transaction is mined, or reverts.
LEMMA MineKeeps ==
    ASSUME ChainInv, NEW i \in DOMAIN txs, Mine(i)
    PROVE  ChainInv' /\ TxsGrow
<1>1. PICK status \in {"success", "reverted"} :
         /\ txs' = [txs EXCEPT ![i].status = status]
         /\ status = "success" =>
               anchors' = [r \in Rows |->
                  IF RegistryHasCode /\ r \in DOMAIN txs[i].sigs
                  THEN anchors[r] + 1 ELSE anchors[r]]
         /\ status = "reverted" => anchors' = anchors
  BY DEF Mine
<1> DEFINE tx == [txs[i] EXCEPT !.status = status]
<1>2. txs[i] \in TxState
  BY DEF ChainInv
<1>3. tx \in TxState /\ tx.sigs = txs[i].sigs /\ tx.status = status
  BY <1>2 DEF TxState
<1>4. txs' = [txs EXCEPT ![i] = tx]
  BY <1>1
<1> HIDE DEF tx
<1>5. /\ txs' \in Seq(TxState) /\ Len(txs') = Len(txs)
      /\ DOMAIN txs' = DOMAIN txs
      /\ txs'[i] = tx
      /\ \A j \in DOMAIN txs : j # i => txs'[j] = txs[j]
  BY <1>3, <1>4, ExceptSeq DEF ChainInv
<1>6. TxsGrow
  BY <1>3, <1>5 DEF TxsGrow, Mine
<1>7. /\ anchors' \in [Rows -> Nat]
      /\ \A r \in Rows : anchors'[r] >= anchors[r]
      /\ RegistryHasCode /\ status = "success" =>
            \A r \in Rows : r \in DOMAIN txs[i].sigs => anchors'[r] > 0
  BY <1>1 DEF ChainInv
<1>8. ASSUME RegistryHasCode, NEW j \in DOMAIN txs', NEW r \in Rows, Carries(r, j)'
      PROVE  anchors'[r] > 0
  <2>1. CASE j = i
    BY <1>3, <1>5, <1>7, <1>8, <2>1 DEF Carries, Sent
  <2>2. CASE j # i
    <3>1. Carries(r, j) /\ j \in DOMAIN txs
      BY <1>5, <1>8, <2>2 DEF Carries, Sent
    <3>2. anchors[r] > 0 /\ anchors[r] \in Nat /\ anchors'[r] \in Nat
      BY <1>7, <1>8, <3>1 DEF ChainInv
    <3> QED BY <1>7, <3>2
  <2> QED BY <2>1, <2>2
<1> QED BY <1>5, <1>6, <1>7, <1>8 DEF ChainInv

\* Neither happens.
LEMMA ChainStays ==
    ASSUME ChainInv, UNCHANGED <<txs, anchors>>
    PROVE  ChainInv' /\ TxsGrow
BY DEF ChainInv, TxsGrow, Carries, Sent

-----------------------------------------------------------------------------
(* The table                                                               *)

\* A statement of db.js writes one row.
LEMMA RowWritten ==
    ASSUME ScansInv, TxsGrow, NEW r \in Rows, NEW row \in RowState,
           scans' = [scans EXCEPT ![r] = row],
           row.state = "confirmed" => Carries(r, row.tx)
    PROVE  ScansInv'
<1>1. /\ scans' \in [Rows -> RowState]
      /\ \A q \in Rows : (q = r /\ scans'[q] = row) \/ scans'[q] = scans[q]
  BY DEF ScansInv
<1>2. \A q \in Rows : scans'[q].state = "confirmed" => Carries(q, scans'[q].tx)
  BY <1>1 DEF ScansInv
<1> QED BY <1>1, <1>2, SentStays DEF ScansInv

LEMMA TableStays ==
    ASSUME ScansInv, TxsGrow, scans' = scans
    PROVE  ScansInv'
BY SentStays DEF ScansInv

LEMMA StateSet ==
    ASSUME ScansInv, TxsGrow, NEW r \in Rows, NEW state \in States,
           SetState(r, state), state # "confirmed"
    PROVE  ScansInv'
<1> DEFINE row == [scans[r] EXCEPT !.state = state]
<1>1. row \in RowState /\ row.state = state
  BY DEF ScansInv, RowState
<1>2. scans' = [scans EXCEPT ![r] = row]
  BY DEF SetState
<1> HIDE DEF row
<1> QED BY <1>1, <1>2, RowWritten

LEMMA Queued ==
    ASSUME ScansInv, TxsGrow, NEW r \in Rows, NEW sig \in ClientSigs, QueueScan(r, sig)
    PROVE  ScansInv'
<1> DEFINE row == [scans[r] EXCEPT !.sig = sig, !.state = "queued"]
<1>1. row \in RowState /\ row.state = "queued"
  BY DEF ScansInv, RowState, States
<1>2. scans' = [scans EXCEPT ![r] = row]
  BY DEF QueueScan
<1> HIDE DEF row
<1> QED BY <1>1, <1>2, RowWritten

LEMMA Marked ==
    ASSUME ScansInv, TxsGrow, NEW r \in Rows, NEW tx \in 0..MaxTx, NEW state \in States,
           MarkAnchored(r, tx, state),
           state = "confirmed" => Carries(r, tx)
    PROVE  ScansInv'
<1> DEFINE row == [scans[r] EXCEPT !.tx = tx, !.state = state]
<1>1. row \in RowState /\ row.state = state /\ row.tx = tx
  BY DEF ScansInv, RowState
<1>2. scans' = [scans EXCEPT ![r] = row]
  BY DEF MarkAnchored
<1> HIDE DEF row
<1> QED BY <1>1, <1>2, RowWritten

-----------------------------------------------------------------------------
(* Requests, the worker, the handler, the history                          *)

LEMMA CallsStay ==
    ASSUME CallsInv, TxsGrow, calls' = calls
    PROVE  CallsInv'
<1> SUFFICES ASSUME NEW c \in Calls PROVE CallOK(calls[c])'
  BY DEF CallsInv
<1>1. CallOK(calls[c])
  BY DEF CallsInv
<1>2. Sent(calls[c].row, calls[c].tx) => Sent(calls[c].row, calls[c].tx)'
  BY DEF TxsGrow, Sent
<1> QED BY <1>1, <1>2 DEF CallOK

\* One request moves on.
LEMMA CallWritten ==
    ASSUME CallsInv, TxsGrow, NEW c \in Calls, NEW call \in CallState,
           calls' = [calls EXCEPT ![c] = call],
           call.pc \in {"submit", "wait", "catch"} => call.row \in Rows,
           call.pc = "wait" => /\ call.tx \in DOMAIN txs'
                               /\ call.row \in DOMAIN txs'[call.tx].sigs
    PROVE  CallsInv'
<1>1. /\ calls' \in [Calls -> CallState]
      /\ calls'[c] = call
      /\ \A d \in Calls : d # c => calls'[d] = calls[d]
  BY DEF CallsInv
<1>2. ASSUME NEW d \in Calls PROVE CallOK(calls[d])'
  <2>1. CASE d = c
    BY <1>1, <2>1 DEF CallOK, Sent
  <2>2. CASE d # c
    <3>1. CallOK(calls[d]) /\ calls'[d] = calls[d]
      BY <1>1, <2>2 DEF CallsInv
    <3> QED BY <3>1 DEF CallOK, TxsGrow, Sent
  <2> QED BY <2>1, <2>2
<1> QED BY <1>1, <1>2 DEF CallsInv

LEMMA WorkerStays ==
    ASSUME WorkerInv, TxsGrow, worker' = worker
    PROVE  WorkerInv'
BY DEF WorkerInv, WorkerOK, TxsGrow, Sent, Carries

\* The worker waits for nothing.
LEMMA WorkerWritten ==
    ASSUME NEW w \in WorkerState, worker' = w,
           w.todo \subseteq DOMAIN w.batch,
           w.pc \in Batching => w.fails < POISON_AFTER,
           w.pc \in {"one", "oneWait", "poison"} => w.todo # {},
           w.pc \notin {"wait", "record", "oneWait"}
    PROVE  WorkerInv'
BY DEF WorkerInv, WorkerOK

LEMMA HandlerStays == ASSUME ApiInv, api' = api PROVE ApiInv'
BY DEF ApiInv

LEMMA Entered ==
    ASSUME ApiInv, NEW op \in {"none", "scan", "queue"}, NEW r \in Rows \cup {NoRow},
           NEW sig \in Sigs, Enter(op, r, sig),
           op # "none" => r \in Rows, op = "queue" => sig \in ClientSigs
    PROVE  ApiInv'
<1> DEFINE a == [api EXCEPT !.op = op, !.row = r, !.sig = sig]
<1>1. a \in ApiState /\ a.op = op /\ a.row = r /\ a.sig = sig
  BY DEF ApiInv, ApiState
<1>2. api' = a
  BY DEF Enter
<1> HIDE DEF a
<1> QED BY <1>1, <1>2 DEF ApiInv

LEMMA Left == ASSUME ApiInv, Leave PROVE ApiInv'
BY Entered, SigsKnown DEF Leave

LEMMA Warranted ==
    ASSUME HistoryInv, NEW S, Warrant(S)
    PROVE  warrants' \in [Rows -> Nat] /\ taken' \subseteq Rows
BY DEF HistoryInv, Warrant

LEMMA Spent ==
    ASSUME HistoryInv, NEW kind \in Kinds, Spend(kind)
    PROVE  spent' \in [Kinds -> Nat] /\ \A k \in Kinds : spent'[k] <= Budget[k]
<1>1. spent[kind] < Budget[kind] /\ spent' = [spent EXCEPT ![kind] = spent[kind] + 1]
  BY DEF Spend
<1>2. spent \in [Kinds -> Nat] /\ Budget \in [Kinds -> Nat]
  BY PipelineAssumption DEF HistoryInv
<1>3. /\ spent' \in [Kinds -> Nat] /\ spent'[kind] = spent[kind] + 1
      /\ \A k \in Kinds : k # kind => spent'[k] = spent[k]
  BY <1>1, <1>2
<1>4. spent[kind] + 1 <= Budget[kind]
  BY <1>1, <1>2
<1> QED BY <1>3, <1>4 DEF HistoryInv

LEMMA HistoryStays ==
    ASSUME HistoryInv, UNCHANGED <<history, spent>>
    PROVE  HistoryInv'
BY DEF HistoryInv, history

-----------------------------------------------------------------------------
(* Steps of the API                                                        *)

LEMMA ScanInsertInv ==
    ASSUME PipelineInv, NEW r \in Rows, ScanInsert(r) PROVE PipelineInv'
<1>1. ScansInv /\ ApiInv /\ CallsInv /\ WorkerInv /\ ChainInv /\ HistoryInv
  BY DEF PipelineInv
<1>2. ChainInv' /\ TxsGrow
  BY <1>1, ChainStays DEF ScanInsert
<1>3. ScansInv'
  <2>1. SetState(r, "pending") \/ scans' = scans
    BY DEF ScanInsert
  <2> QED BY <1>1, <1>2, <2>1, StateSet, TableStays DEF States
<1>4. WorkerInv'
  BY <1>1, <1>2, WorkerStays DEF ScanInsert
<1>5. spent' \in [Kinds -> Nat] /\ \A k \in Kinds : spent'[k] <= Budget[k]
  <2>1. Spend("rescan") \/ spent' = spent
    BY DEF ScanInsert
  <2> QED BY <1>1, <2>1, Spent DEF HistoryInv, Kinds
<1>6. CASE api.auto
  <2>1. PICK c \in Calls :
           calls' = [calls EXCEPT ![c] = [pc |-> "submit", row |-> r, sig |-> "server",
                                          tx |-> NoTx, auto |-> TRUE]]
    BY <1>6 DEF ScanInsert
  <2>2. operator' = operator \cup {r} /\ Warrant({r}) /\ api' = api
    BY <1>6 DEF ScanInsert
  <2> DEFINE call == [pc |-> "submit", row |-> r, sig |-> "server", tx |-> NoTx, auto |-> TRUE]
  <2>3. call \in CallState /\ call.pc = "submit" /\ call.row \in Rows
    BY SigsKnown DEF CallState, NoTx
  <2>4. calls' = [calls EXCEPT ![c] = call]
    BY <2>1
  <2> HIDE DEF call
  <2>5. CallsInv'
    BY <1>1, <1>2, <2>3, <2>4, CallWritten
  <2>6. HistoryInv'
    BY <1>1, <1>5, <2>2, Warranted DEF HistoryInv
  <2> QED BY <1>1, <1>2, <1>3, <1>4, <2>2, <2>5, <2>6, HandlerStays DEF PipelineInv
<1>7. CASE ~ api.auto
  <2>1. Enter("scan", r, "none") /\ UNCHANGED <<calls, history>>
    BY <1>7 DEF ScanInsert
  <2>2. ApiInv'
    BY <1>1, <2>1, Entered, SigsKnown
  <2>3. HistoryInv'
    BY <1>1, <1>5, <2>1 DEF HistoryInv, history
  <2> QED BY <1>1, <1>2, <1>3, <1>4, <2>1, <2>2, <2>3, CallsStay DEF PipelineInv
<1> QED BY <1>6, <1>7

LEMMA ScanUnanchoredInv == ASSUME PipelineInv, ScanUnanchored PROVE PipelineInv'
<1>1. ScansInv /\ ApiInv /\ CallsInv /\ WorkerInv /\ ChainInv /\ HistoryInv
  BY DEF PipelineInv
<1>2. ChainInv' /\ TxsGrow
  BY <1>1, ChainStays DEF ScanUnanchored
<1>3. api.row \in Rows
  BY <1>1 DEF ApiInv, ScanUnanchored
<1>4. ScansInv'
  BY <1>1, <1>2, <1>3, StateSet DEF ScanUnanchored, States
<1> QED BY <1>1, <1>2, <1>4, Left, CallsStay, WorkerStays, HistoryStays
        DEF PipelineInv, ScanUnanchored

LEMMA AnchorRequestInv ==
    ASSUME PipelineInv, NEW c \in Calls, NEW r \in Rows,
           NEW sig \in ClientSigs \cup {"server"}, AnchorRequest(c, r, sig)
    PROVE  PipelineInv'
<1>1. ScansInv /\ ApiInv /\ CallsInv /\ WorkerInv /\ ChainInv /\ HistoryInv
  BY DEF PipelineInv
<1>2. ChainInv' /\ TxsGrow
  BY <1>1, ChainStays DEF AnchorRequest
<1> DEFINE call == [pc |-> "submit", row |-> r, sig |-> sig, tx |-> NoTx, auto |-> FALSE]
<1>3. call \in CallState /\ call.pc = "submit" /\ call.row \in Rows
  BY SigsKnown DEF CallState, NoTx
<1>4. calls' = [calls EXCEPT ![c] = call]
  BY DEF AnchorRequest
<1> HIDE DEF call
<1>5. CallsInv'
  BY <1>1, <1>2, <1>3, <1>4, CallWritten
<1>6. HistoryInv'
  <2>1. warrants' \in [Rows -> Nat] /\ taken' \subseteq Rows
    BY <1>1, Warranted DEF AnchorRequest
  <2> QED BY <1>1, <2>1 DEF AnchorRequest, HistoryInv
<1> QED BY <1>1, <1>2, <1>5, <1>6, TableStays, HandlerStays, WorkerStays
        DEF PipelineInv, AnchorRequest

\* What a call throws changes nothing but what may still go wrong.
LEMMA Thrown ==
    ASSUME HistoryInv, NEW sigs, ThrowsOne(sigs) \/ Throws(sigs)
    PROVE  /\ txs' = txs
           /\ spent' \in [Kinds -> Nat] /\ \A k \in Kinds : spent'[k] <= Budget[k]
<1>1. txs' = txs /\ (spent' = spent \/ Spend("fault"))
  BY DEF ThrowsOne, Throws
<1> QED BY <1>1, Spent DEF HistoryInv, Kinds

LEMMA CallSubmitInv == ASSUME PipelineInv, NEW c \in Calls, CallSubmit(c) PROVE PipelineInv'
<1>1. ScansInv /\ ApiInv /\ CallsInv /\ WorkerInv /\ ChainInv /\ HistoryInv
  BY DEF PipelineInv
<1>2. calls[c] \in CallState /\ calls[c].row \in Rows /\ calls[c].pc = "submit"
  BY <1>1 DEF CallsInv, CallOK, CallSubmit
<1>3. UNCHANGED <<scans, api, worker, anchors, history>>
  BY DEF CallSubmit
<1>4. CASE Sends(CallSigs(c)) /\ calls' = [calls EXCEPT ![c].pc = "wait", ![c].tx = Len(txs')]
           /\ spent' = spent
  <2> DEFINE call == [calls[c] EXCEPT !.pc = "wait", !.tx = Len(txs')]
             sigs == CallSigs(c)
  <2>1. sigs \in SigMaps /\ DOMAIN sigs = {calls[c].row}
    <3>1. calls[c].sig \in Sigs
      BY <1>2 DEF CallState
    <3>2. sigs \in [{calls[c].row} -> Sigs] /\ {calls[c].row} \in SUBSET Rows
      BY <1>2, <3>1 DEF CallSigs
    <3> HIDE DEF sigs
    <3> QED BY <3>2, SigMapTyped
  <2> HIDE DEF sigs
  <2>2. /\ ChainInv' /\ TxsGrow /\ Len(txs') \in 0..MaxTx
        /\ \A r \in DOMAIN sigs : r \in DOMAIN txs'[Len(txs')].sigs /\ Len(txs') \in DOMAIN txs'
    BY <1>1, <1>3, <1>4, <2>1, SendsKeeps DEF sigs, Sent
  <2>3. /\ call \in CallState /\ call.pc = "wait" /\ call.tx = Len(txs')
        /\ call.row = calls[c].row
    BY <1>2, <2>2 DEF CallState
  <2>4. calls' = [calls EXCEPT ![c] = call]
    BY <1>4
  <2> HIDE DEF call
  <2>5. CallsInv'
    BY <1>1, <1>2, <2>1, <2>2, <2>3, <2>4, CallWritten
  <2> QED BY <1>1, <1>3, <1>4, <2>2, <2>5, TableStays, HandlerStays, WorkerStays, HistoryStays
          DEF PipelineInv
<1>5. CASE ThrowsOne(CallSigs(c)) /\ calls' = [calls EXCEPT ![c].pc = "catch"]
  <2> DEFINE call == [calls[c] EXCEPT !.pc = "catch"]
  <2>1. call \in CallState /\ call.pc = "catch" /\ call.row \in Rows
    BY <1>2 DEF CallState
  <2>2. calls' = [calls EXCEPT ![c] = call]
    BY <1>5
  <2> HIDE DEF call
  <2>3. HistoryInv' /\ txs' = txs
    BY <1>1, <1>3, <1>5, Thrown DEF HistoryInv, history
  <2>4. ChainInv' /\ TxsGrow
    BY <1>1, <1>3, <2>3, ChainStays
  <2>5. CallsInv'
    BY <1>1, <2>1, <2>2, <2>4, CallWritten
  <2> QED BY <1>1, <1>3, <2>3, <2>4, <2>5, TableStays, HandlerStays, WorkerStays DEF PipelineInv
<1> QED BY <1>4, <1>5 DEF CallSubmit, SendsOne

\* What a receipt makes of a row.
LEMMA StateOfTyped ==
    ASSUME NEW tx
    PROVE  /\ StateOf(tx) \in {"confirmed", "failed"}
           /\ StateOf(tx) = "confirmed" => txs[tx].status = "success"
BY DEF StateOf

LEMMA CallRecordInv == ASSUME PipelineInv, NEW c \in Calls, CallRecord(c) PROVE PipelineInv'
<1>1. ScansInv /\ ApiInv /\ CallsInv /\ WorkerInv /\ ChainInv /\ HistoryInv
  BY DEF PipelineInv
<1>2. ChainInv' /\ TxsGrow
  BY <1>1, ChainStays DEF CallRecord
<1>3. /\ calls[c].row \in Rows /\ calls[c].tx \in 0..MaxTx
      /\ Sent(calls[c].row, calls[c].tx)
  BY <1>1 DEF CallsInv, CallOK, CallState, CallRecord
<1>4. ScansInv'
  <2>1. MarkAnchored(calls[c].row, calls[c].tx, StateOf(calls[c].tx))
    BY DEF CallRecord
  <2>2. StateOf(calls[c].tx) = "confirmed" => Carries(calls[c].row, calls[c].tx)
    BY <1>3, StateOfTyped DEF Carries
  <2>3. StateOf(calls[c].tx) \in States
    BY StateOfTyped DEF States
  <2> QED BY <1>1, <1>2, <1>3, <2>1, <2>2, <2>3, Marked
<1>5. CallsInv'
  BY <1>1, <1>2, FreeOK, CallWritten DEF CallRecord, CallOK, Served, Waiting
<1> QED BY <1>1, <1>2, <1>4, <1>5, HandlerStays, WorkerStays, HistoryStays
        DEF PipelineInv, CallRecord

LEMMA CallGivesUpInv == ASSUME PipelineInv, NEW c \in Calls, CallGivesUp(c) PROVE PipelineInv'
<1>1. ScansInv /\ ApiInv /\ CallsInv /\ WorkerInv /\ ChainInv /\ HistoryInv
  BY DEF PipelineInv
<1>2. ChainInv' /\ TxsGrow
  BY <1>1, ChainStays DEF CallGivesUp
<1> DEFINE call == [calls[c] EXCEPT !.pc = "catch"]
<1>3. call \in CallState /\ call.pc = "catch" /\ call.row \in Rows
  BY <1>1 DEF CallsInv, CallOK, CallState, CallGivesUp
<1>4. calls' = [calls EXCEPT ![c] = call]
  BY DEF CallGivesUp
<1> HIDE DEF call
<1>5. CallsInv'
  BY <1>1, <1>2, <1>3, <1>4, CallWritten
<1>6. HistoryInv'
  BY <1>1, Warranted, Spent DEF CallGivesUp, HistoryInv, Kinds
<1> QED BY <1>1, <1>2, <1>5, <1>6, TableStays, HandlerStays, WorkerStays
        DEF PipelineInv, CallGivesUp

LEMMA CallCatchInv == ASSUME PipelineInv, NEW c \in Calls, CallCatch(c) PROVE PipelineInv'
<1>1. ScansInv /\ ApiInv /\ CallsInv /\ WorkerInv /\ ChainInv /\ HistoryInv
  BY DEF PipelineInv
<1>2. ChainInv' /\ TxsGrow
  BY <1>1, ChainStays DEF CallCatch
<1>3. ScansInv'
  <2>1. scans' = scans \/ MarkAnchored(calls[c].row, NoTx, "failed")
    BY DEF CallCatch
  <2>2. calls[c].row \in Rows /\ NoTx \in 0..MaxTx /\ "failed" \in States
    BY <1>1, SigsKnown DEF CallsInv, CallOK, CallCatch, NoTx, States
  <2> QED BY <1>1, <1>2, <2>1, <2>2, Marked, TableStays
<1>4. CallsInv'
  BY <1>1, <1>2, FreeOK, CallWritten DEF CallCatch, CallOK, Served, Waiting
<1> QED BY <1>1, <1>2, <1>3, <1>4, HandlerStays, WorkerStays, HistoryStays
        DEF PipelineInv, CallCatch

LEMMA QueueReadInv ==
    ASSUME PipelineInv, NEW r \in Rows, NEW sig \in ClientSigs, QueueRead(r, sig)
    PROVE  PipelineInv'
<1>1. ScansInv /\ ApiInv /\ CallsInv /\ WorkerInv /\ ChainInv /\ HistoryInv
  BY DEF PipelineInv
<1>2. ChainInv' /\ TxsGrow
  BY <1>1, ChainStays DEF QueueRead
<1>3. ApiInv'
  BY <1>1, SigsKnown, Entered DEF QueueRead
<1>4. HistoryInv'
  BY <1>1, Warranted, Spent DEF QueueRead, HistoryInv, Kinds
<1> QED BY <1>1, <1>2, <1>3, <1>4, TableStays, CallsStay, WorkerStays DEF PipelineInv, QueueRead

LEMMA QueueWriteInv == ASSUME PipelineInv, QueueWrite PROVE PipelineInv'
<1>1. ScansInv /\ ApiInv /\ CallsInv /\ WorkerInv /\ ChainInv /\ HistoryInv
  BY DEF PipelineInv
<1>2. ChainInv' /\ TxsGrow
  BY <1>1, ChainStays DEF QueueWrite
<1>3. ScansInv'
  BY <1>1, <1>2, Queued DEF ApiInv, QueueWrite
<1> QED BY <1>1, <1>2, <1>3, Left, CallsStay, WorkerStays, HistoryStays
        DEF PipelineInv, QueueWrite

LEMMA ApiCrashInv == ASSUME PipelineInv, ApiCrash PROVE PipelineInv'
<1>1. ScansInv /\ ApiInv /\ CallsInv /\ WorkerInv /\ ChainInv /\ HistoryInv
  BY DEF PipelineInv
<1>2. ChainInv' /\ TxsGrow
  BY <1>1, ChainStays DEF ApiCrash
<1>3. CallsInv'
  <2>1. calls' = [c \in Calls |-> IF calls[c].pc = "free" THEN calls[c] ELSE Served]
    BY DEF ApiCrash
  <2>2. Served \in CallState /\ Served.pc = "done"
    BY FreeOK DEF CallOK, Served, Waiting
  <2>3. /\ calls' \in [Calls -> CallState]
        /\ \A c \in Calls : calls'[c].pc \in {"free", "done"}
    BY <1>1, <2>1, <2>2 DEF CallsInv
  <2> QED BY <2>3 DEF CallsInv, CallOK
<1>4. HistoryInv'
  BY <1>1, Spent DEF ApiCrash, HistoryInv, history, Kinds
<1> QED BY <1>1, <1>2, <1>3, <1>4, Left, TableStays, WorkerStays DEF PipelineInv, ApiCrash

-----------------------------------------------------------------------------
(* Steps of the worker                                                     *)

\* What the worker reads becomes its batch.
LEMMA BatchRead ==
    ASSUME PipelineInv, NEW S \in SUBSET Rows, S # {}, NEW pc \in {"mark", "one"},
           worker.pc \in Batching \/ pc = "one",
           worker' = [worker EXCEPT !.pc = pc, !.todo = S, !.batch = [r \in S |-> InputOf(r)]]
    PROVE  WorkerInv'
<1> DEFINE batch == [r \in S |-> InputOf(r)]
           w == [worker EXCEPT !.pc = pc, !.todo = S, !.batch = batch]
<1>1. worker \in WorkerState /\ (worker.pc \in Batching => worker.fails < POISON_AFTER)
  BY DEF PipelineInv, WorkerInv, WorkerOK
<1>2. batch \in SigMaps /\ DOMAIN batch = S
  <2>1. batch \in [S -> Sigs]
    BY InputTyped DEF PipelineInv
  <2> HIDE DEF batch
  <2> QED BY <2>1, SigMapTyped
<1>3. worker' = w
  OBVIOUS
<1> HIDE DEF batch
<1>4. /\ w \in WorkerState /\ w.pc = pc /\ w.todo = S /\ w.batch = batch
      /\ w.fails = worker.fails
  BY <1>1, <1>2 DEF WorkerState, Batching, Isolating
<1> HIDE DEF w
<1> QED BY <1>1, <1>2, <1>3, <1>4, WorkerWritten DEF Batching

LEMMA SelectInv == ASSUME PipelineInv, Select PROVE PipelineInv'
<1>1. ScansInv /\ ApiInv /\ CallsInv /\ WorkerInv /\ ChainInv /\ HistoryInv
  BY DEF PipelineInv
<1>2. ChainInv' /\ TxsGrow
  BY <1>1, ChainStays DEF Select
<1>3. WorkerInv'
  <2>1. CASE Batch = {}
    <3> DEFINE w == [worker EXCEPT !.fails = 0]
    <3>1. /\ worker \in WorkerState /\ worker.todo \subseteq DOMAIN worker.batch
          /\ worker.pc = "idle"
      BY <1>1 DEF WorkerInv, WorkerOK, Select
    <3>2. /\ w \in WorkerState /\ w.pc = "idle" /\ w.fails = 0
          /\ w.todo = worker.todo /\ w.batch = worker.batch
      BY <3>1, PipelineAssumption DEF WorkerState
    <3>3. worker' = w
      BY <2>1 DEF Select
    <3> HIDE DEF w
    <3> QED BY <3>1, <3>2, <3>3, WorkerWritten, PipelineAssumption
  <2>2. CASE Batch # {}
    BY <2>2, BatchTyped, BatchRead DEF Select, Batching
  <2> QED BY <2>1, <2>2
<1>4. HistoryInv'
  BY <1>1, BatchTyped DEF Select, HistoryInv
<1> QED BY <1>1, <1>2, <1>3, <1>4, TableStays, HandlerStays, CallsStay DEF PipelineInv, Select

\* One row fewer to write down, in the same or another loop.
LEMMA RowDone ==
    ASSUME WorkerInv, TxsGrow, NEW r \in worker.todo, NEW pc \in Batching,
           worker' = [worker EXCEPT !.todo = @ \ {r}, !.pc = pc],
           worker.pc \in Batching,
           pc = worker.pc \/ pc = "submit", pc # "wait"
    PROVE  WorkerInv'
<1> DEFINE w == [worker EXCEPT !.todo = @ \ {r}, !.pc = pc]
<1>1. WorkerOK(worker) /\ worker \in WorkerState /\ worker.todo \in SUBSET Rows
  BY DEF WorkerInv, WorkerOK, WorkerState
<1>2. worker.todo \ {r} \in SUBSET Rows
  BY <1>1
<1>3. /\ w \in WorkerState /\ w.pc = pc /\ w.todo = worker.todo \ {r}
      /\ w.batch = worker.batch /\ w.tx = worker.tx /\ w.outcome = worker.outcome
      /\ w.fails = worker.fails
  BY <1>1, <1>2 DEF WorkerState
<1>4. worker' = w
  OBVIOUS
<1> HIDE DEF w
<1>5. worker' \in WorkerState /\ worker'.pc \in Batching
  BY <1>3, <1>4
<1>6. pc = "record" => worker.pc = "record"
  OBVIOUS
<1> QED BY <1>1, <1>3, <1>4, <1>5, <1>6 DEF WorkerInv, WorkerOK, TxsGrow, Sent, Carries, Batching

LEMMA MarkSentInv == ASSUME PipelineInv, NEW r \in Rows, MarkSent(r) PROVE PipelineInv'
<1>1. ScansInv /\ ApiInv /\ CallsInv /\ WorkerInv /\ ChainInv /\ HistoryInv
  BY DEF PipelineInv
<1>2. ChainInv' /\ TxsGrow
  BY <1>1, ChainStays DEF MarkSent
<1>3. ScansInv'
  BY <1>1, <1>2, StateSet DEF MarkSent, States
<1>4. WorkerInv'
  <2> DEFINE pc == IF worker.todo = {r} THEN "submit" ELSE "mark"
  <2>1. worker.pc = "mark" /\ r \in worker.todo
        /\ worker' = [worker EXCEPT !.todo = @ \ {r}, !.pc = pc]
    BY DEF MarkSent, OneRow
  <2>2. pc \in Batching /\ (pc = worker.pc \/ pc = "submit") /\ pc # "wait"
    BY <2>1 DEF Batching
  <2> HIDE DEF pc
  <2> QED BY <1>1, <1>2, <2>1, <2>2, RowDone DEF Batching
<1> QED BY <1>1, <1>2, <1>3, <1>4, HandlerStays, CallsStay, HistoryStays DEF PipelineInv, MarkSent

LEMMA SubmitBatchInv == ASSUME PipelineInv, SubmitBatch PROVE PipelineInv'
<1>1. ScansInv /\ ApiInv /\ CallsInv /\ WorkerInv /\ ChainInv /\ HistoryInv
  BY DEF PipelineInv
<1>2. /\ worker \in WorkerState /\ worker.batch \in SigMaps /\ worker.pc = "submit"
      /\ worker.todo \subseteq DOMAIN worker.batch /\ worker.fails < POISON_AFTER
  BY <1>1 DEF WorkerInv, WorkerOK, WorkerState, SubmitBatch, Batching
<1>3. UNCHANGED <<scans, api, calls, anchors, history>>
  BY DEF SubmitBatch
<1>4. CASE Sends(worker.batch) /\ worker' = [worker EXCEPT !.pc = "wait", !.tx = Len(txs')]
           /\ spent' = spent
  <2> DEFINE w == [worker EXCEPT !.pc = "wait", !.tx = Len(txs')]
             sigs == worker.batch
  <2> HIDE DEF sigs
  <2>1. /\ ChainInv' /\ TxsGrow /\ Len(txs') \in 0..MaxTx
        /\ \A r \in DOMAIN sigs : r \in DOMAIN txs'[Len(txs')].sigs /\ Len(txs') \in DOMAIN txs'
    BY <1>1, <1>2, <1>3, <1>4, SendsKeeps DEF sigs, Sent
  <2>2. /\ w \in WorkerState /\ w.pc = "wait" /\ w.tx = Len(txs')
        /\ w.batch = worker.batch /\ w.todo = worker.todo /\ w.fails = worker.fails
    BY <1>2, <2>1 DEF WorkerState, Batching
  <2>3. worker' = w
    BY <1>4
  <2> HIDE DEF w
  <2>4. WorkerInv'
    BY <1>2, <2>1, <2>2, <2>3 DEF WorkerInv, WorkerOK, Sent, sigs
  <2> QED BY <1>1, <1>3, <1>4, <2>1, <2>4, TableStays, HandlerStays, CallsStay, HistoryStays
          DEF PipelineInv
<1>5. CASE Throws(worker.batch)
           /\ worker' = [worker EXCEPT !.pc = "fail", !.todo = DOMAIN worker.batch]
  <2> DEFINE w == [worker EXCEPT !.pc = "fail", !.todo = DOMAIN worker.batch]
  <2>1. DOMAIN worker.batch \in SUBSET Rows
    BY <1>2, SigMapDomain
  <2>2. /\ w \in WorkerState /\ w.pc = "fail" /\ w.todo = DOMAIN worker.batch
        /\ w.batch = worker.batch /\ w.fails = worker.fails
    BY <1>2, <2>1 DEF WorkerState, Batching
  <2>3. worker' = w
    BY <1>5
  <2> HIDE DEF w
  <2>4. WorkerInv'
    BY <1>2, <2>2, <2>3, WorkerWritten
  <2>5. HistoryInv' /\ txs' = txs
    BY <1>1, <1>3, <1>5, Thrown DEF HistoryInv, history
  <2>6. ChainInv' /\ TxsGrow
    BY <1>1, <1>3, <2>5, ChainStays
  <2> QED BY <1>1, <1>3, <2>4, <2>5, <2>6, TableStays, HandlerStays, CallsStay DEF PipelineInv
<1> QED BY <1>4, <1>5 DEF SubmitBatch

LEMMA BatchMinedInv == ASSUME PipelineInv, BatchMined PROVE PipelineInv'
<1>1. ScansInv /\ ApiInv /\ CallsInv /\ WorkerInv /\ ChainInv /\ HistoryInv
  BY DEF PipelineInv
<1>2. ChainInv' /\ TxsGrow
  BY <1>1, ChainStays DEF BatchMined
<1>3. /\ worker \in WorkerState /\ worker.batch \in SigMaps /\ worker.pc = "wait"
      /\ worker.fails < POISON_AFTER /\ \A r \in DOMAIN worker.batch : Sent(r, worker.tx)
      /\ DOMAIN worker.batch \in SUBSET Rows
  BY <1>1, SigMapDomain DEF WorkerInv, WorkerOK, WorkerState, BatchMined, Batching
<1> DEFINE outcome == StateOf(worker.tx)
           w == [worker EXCEPT !.pc = "record", !.todo = DOMAIN worker.batch, !.outcome = outcome]
<1>4. worker' = w
  BY DEF BatchMined
<1>5. outcome \in {"confirmed", "failed"}
      /\ (outcome = "confirmed" => txs[worker.tx].status = "success")
  BY StateOfTyped
<1> HIDE DEF outcome
<1>6. /\ w \in WorkerState /\ w.pc = "record" /\ w.todo = DOMAIN worker.batch
      /\ w.batch = worker.batch /\ w.tx = worker.tx /\ w.outcome = outcome
      /\ w.fails = worker.fails
  BY <1>3, <1>5 DEF WorkerState, Batching
<1> HIDE DEF w
<1>7. WorkerInv'
  BY <1>2, <1>3, <1>4, <1>5, <1>6 DEF WorkerInv, WorkerOK, Sent, Carries, TxsGrow
<1> QED BY <1>1, <1>2, <1>7, TableStays, HandlerStays, CallsStay, HistoryStays
        DEF PipelineInv, BatchMined

LEMMA BatchGivesUpInv == ASSUME PipelineInv, BatchGivesUp PROVE PipelineInv'
<1>1. ScansInv /\ ApiInv /\ CallsInv /\ WorkerInv /\ ChainInv /\ HistoryInv
  BY DEF PipelineInv
<1>2. ChainInv' /\ TxsGrow
  BY <1>1, ChainStays DEF BatchGivesUp
<1>3. /\ worker \in WorkerState /\ worker.batch \in SigMaps
      /\ worker.fails < POISON_AFTER /\ DOMAIN worker.batch \in SUBSET Rows
  BY <1>1, SigMapDomain DEF WorkerInv, WorkerOK, WorkerState, BatchGivesUp, Batching
<1> DEFINE w == [worker EXCEPT !.pc = "fail", !.todo = DOMAIN worker.batch]
<1>4. /\ w \in WorkerState /\ w.pc = "fail" /\ w.todo = DOMAIN worker.batch
      /\ w.batch = worker.batch /\ w.fails = worker.fails
  BY <1>3 DEF WorkerState, Batching
<1>5. worker' = w
  BY DEF BatchGivesUp
<1> HIDE DEF w
<1>6. WorkerInv'
  BY <1>3, <1>4, <1>5, WorkerWritten
<1>7. HistoryInv'
  BY <1>1, Warranted, Spent DEF BatchGivesUp, HistoryInv, Kinds
<1> QED BY <1>1, <1>2, <1>6, <1>7, TableStays, HandlerStays, CallsStay
        DEF PipelineInv, BatchGivesUp

LEMMA RecordRowInv == ASSUME PipelineInv, NEW r \in Rows, RecordRow(r) PROVE PipelineInv'
<1>1. ScansInv /\ ApiInv /\ CallsInv /\ WorkerInv /\ ChainInv /\ HistoryInv
  BY DEF PipelineInv
<1>2. ChainInv' /\ TxsGrow
  BY <1>1, ChainStays DEF RecordRow
<1>3. /\ worker.tx \in 0..MaxTx /\ worker.outcome \in {"none", "confirmed", "failed"}
      /\ worker.outcome = "confirmed" => Carries(r, worker.tx)
  BY <1>1 DEF WorkerInv, WorkerOK, WorkerState, RecordRow
<1>4. worker.outcome \in {"confirmed", "failed"}
  BY <1>1, <1>3 DEF RecordRow, WorkerInv, WorkerOK
<1>5. ScansInv'
  BY <1>1, <1>2, <1>3, <1>4, Marked DEF RecordRow, States
<1>6. WorkerInv'
  <2>1. CASE worker' = Resting
    BY <2>1, RestingOK, WorkerWritten DEF WorkerOK
  <2>2. CASE worker' = [worker EXCEPT !.todo = @ \ {r}]
    <3>1. worker' = [worker EXCEPT !.todo = @ \ {r}, !.pc = "record"]
      BY <1>1, <2>2 DEF RecordRow, WorkerInv, WorkerOK, WorkerState
    <3> QED BY <1>1, <1>2, <3>1, RowDone DEF RecordRow, Batching
  <2> QED BY <2>1, <2>2 DEF RecordRow
<1> QED BY <1>1, <1>2, <1>5, <1>6, HandlerStays, CallsStay, HistoryStays
        DEF PipelineInv, RecordRow

\* The worker comes to rest after a failed batch, or goes on row by row.
LEMMA FailureCounted ==
    ASSUME WorkerInv, worker.pc = "fail",
           worker' = AfterFailure(worker.fails + 1 >= POISON_AFTER)
    PROVE  WorkerInv'
<1> DEFINE fails == worker.fails + 1
           pc    == IF fails >= POISON_AFTER THEN "isolate" ELSE "idle"
           w     == [Resting EXCEPT !.fails = fails, !.pc = pc]
<1>1. worker.fails \in 0..POISON_AFTER /\ worker.fails < POISON_AFTER
  BY DEF WorkerInv, WorkerOK, WorkerState, Batching
<1>2. fails \in 0..POISON_AFTER /\ (pc # "isolate" => fails < POISON_AFTER)
  BY <1>1, PipelineAssumption
<1>3. worker' = w
  BY DEF AfterFailure
<1>4. pc \in {"isolate", "idle"}
  OBVIOUS
<1> HIDE DEF fails, pc
<1>5. Resting \in WorkerState /\ Resting.todo = {}
  BY RestingOK DEF WorkerOK, Resting
<1>6. w \in WorkerState /\ w.pc = pc /\ w.fails = fails /\ w.todo = {}
  BY <1>2, <1>4, <1>5 DEF WorkerState, Batching, Isolating
<1> HIDE DEF w
<1> QED BY <1>2, <1>3, <1>4, <1>6, WorkerWritten DEF Batching

LEMMA FailRowInv == ASSUME PipelineInv, NEW r \in Rows, FailRow(r) PROVE PipelineInv'
<1>1. ScansInv /\ ApiInv /\ CallsInv /\ WorkerInv /\ ChainInv /\ HistoryInv
  BY DEF PipelineInv
<1>2. ChainInv' /\ TxsGrow
  BY <1>1, ChainStays DEF FailRow
<1>3. ScansInv'
  BY <1>1, <1>2, StateSet DEF FailRow, States
<1>4. WorkerInv'
  <2>1. CASE worker' = [worker EXCEPT !.todo = @ \ {r}]
    <3>1. worker' = [worker EXCEPT !.todo = @ \ {r}, !.pc = "fail"]
      BY <1>1, <2>1 DEF FailRow, WorkerInv, WorkerOK, WorkerState
    <3> QED BY <1>1, <1>2, <3>1, RowDone DEF FailRow, Batching
  <2>2. CASE worker' = AfterFailure(worker.fails + 1 >= POISON_AFTER)
    BY <1>1, <2>2, FailureCounted DEF FailRow
  <2> QED BY <2>1, <2>2 DEF FailRow
<1> QED BY <1>1, <1>2, <1>3, <1>4, HandlerStays, CallsStay, HistoryStays
        DEF PipelineInv, FailRow

LEMMA IsolateInv == ASSUME PipelineInv, Isolate PROVE PipelineInv'
<1>1. ScansInv /\ ApiInv /\ CallsInv /\ WorkerInv /\ ChainInv /\ HistoryInv
  BY DEF PipelineInv
<1>2. ChainInv' /\ TxsGrow
  BY <1>1, ChainStays DEF Isolate
<1>3. WorkerInv'
  <2> DEFINE rows == QueuedScans(BATCH_MAX)
  <2>1. rows \in SUBSET Rows
    BY BatchTyped
  <2>2. worker' = IF rows = {} THEN Resting
                  ELSE [worker EXCEPT !.pc = "one", !.todo = rows,
                                      !.batch = [r \in rows |-> InputOf(r)]]
    BY DEF Isolate
  <2> HIDE DEF rows
  <2>3. CASE rows = {}
    BY <2>2, <2>3, RestingOK, WorkerWritten DEF WorkerOK
  <2>4. CASE rows # {}
    BY <2>1, <2>2, <2>4, BatchRead
  <2> QED BY <2>3, <2>4
<1> QED BY <1>1, <1>2, <1>3, TableStays, HandlerStays, CallsStay, HistoryStays
        DEF PipelineInv, Isolate

\* The row in turn cannot be anchored.
LEMMA TurnsToPoison ==
    ASSUME WorkerInv, worker.pc \in {"one", "oneWait"},
           worker' = [worker EXCEPT !.pc = "poison"]
    PROVE  WorkerInv'
<1> DEFINE w == [worker EXCEPT !.pc = "poison"]
<1>1. /\ worker \in WorkerState /\ worker.todo # {} /\ worker.todo \subseteq DOMAIN worker.batch
  BY DEF WorkerInv, WorkerOK
<1>2. w \in WorkerState /\ w.pc = "poison" /\ w.todo = worker.todo /\ w.batch = worker.batch
  BY <1>1 DEF WorkerState, Isolating
<1>3. worker' = w
  OBVIOUS
<1> HIDE DEF w
<1> QED BY <1>1, <1>2, <1>3, WorkerWritten DEF Batching

LEMMA OneSubmitInv == ASSUME PipelineInv, OneSubmit PROVE PipelineInv'
<1>1. ScansInv /\ ApiInv /\ CallsInv /\ WorkerInv /\ ChainInv /\ HistoryInv
  BY DEF PipelineInv
<1> DEFINE sigs == [r \in {Current} |-> worker.batch[Current]]
<1>2. /\ worker \in WorkerState /\ worker.batch \in SigMaps /\ worker.pc = "one"
      /\ worker.todo # {} /\ worker.todo \subseteq DOMAIN worker.batch
      /\ Current \in worker.todo /\ Current \in Rows
  BY <1>1, CurrentIsLeft DEF WorkerInv, WorkerOK, WorkerState, OneSubmit
<1>3. sigs \in SigMaps /\ DOMAIN sigs = {Current}
  <2>1. worker.batch[Current] \in Sigs
    BY <1>2, SigMapDomain
  <2>2. sigs \in [{Current} -> Sigs] /\ {Current} \in SUBSET Rows
    BY <1>2, <2>1
  <2> HIDE DEF sigs
  <2> QED BY <2>2, SigMapTyped
<1>4. /\ UNCHANGED <<scans, api, calls, anchors, history>>
      /\ \/ /\ Sends(sigs) /\ worker' = [worker EXCEPT !.pc = "oneWait", !.tx = Len(txs')]
            /\ spent' = spent
         \/ ThrowsOne(sigs) /\ worker' = [worker EXCEPT !.pc = "poison"]
  BY DEF OneSubmit, SendsOne
<1> HIDE DEF sigs
<1>5. CASE Sends(sigs) /\ worker' = [worker EXCEPT !.pc = "oneWait", !.tx = Len(txs')]
           /\ spent' = spent
  <2> DEFINE w == [worker EXCEPT !.pc = "oneWait", !.tx = Len(txs')]
  <2>1. /\ ChainInv' /\ TxsGrow /\ Len(txs') \in 0..MaxTx
        /\ Len(txs') \in DOMAIN txs' /\ Current \in DOMAIN txs'[Len(txs')].sigs
    BY <1>1, <1>3, <1>4, <1>5, SendsKeeps DEF Sent
  <2>2. /\ w \in WorkerState /\ w.pc = "oneWait" /\ w.tx = Len(txs')
        /\ w.batch = worker.batch /\ w.todo = worker.todo
    BY <1>2, <2>1 DEF WorkerState, Isolating
  <2>3. worker' = w
    BY <1>5
  <2> HIDE DEF w
  <2>4. (CHOOSE r \in w.todo : \A q \in w.todo : r <= q) = Current
    BY <2>2 DEF Current
  <2>5. WorkerInv'
    BY <1>2, <2>1, <2>2, <2>3, <2>4 DEF WorkerInv, WorkerOK, Sent, Batching
  <2> QED BY <1>1, <1>4, <1>5, <2>1, <2>5, TableStays, HandlerStays, CallsStay, HistoryStays
          DEF PipelineInv
<1>6. CASE ThrowsOne(sigs) /\ worker' = [worker EXCEPT !.pc = "poison"]
  <2>1. HistoryInv' /\ txs' = txs
    BY <1>1, <1>4, <1>6, Thrown DEF HistoryInv, history
  <2>2. ChainInv' /\ TxsGrow
    BY <1>1, <1>4, <2>1, ChainStays
  <2>3. WorkerInv'
    BY <1>1, <1>2, <1>6, TurnsToPoison
  <2> QED BY <1>1, <1>4, <2>1, <2>2, <2>3, TableStays, HandlerStays, CallsStay DEF PipelineInv
<1> QED BY <1>4, <1>5, <1>6

LEMMA OneGivesUpInv == ASSUME PipelineInv, OneGivesUp PROVE PipelineInv'
<1>1. ScansInv /\ ApiInv /\ CallsInv /\ WorkerInv /\ ChainInv /\ HistoryInv
  BY DEF PipelineInv
<1>2. ChainInv' /\ TxsGrow
  BY <1>1, ChainStays DEF OneGivesUp
<1>3. WorkerInv'
  BY <1>1, TurnsToPoison DEF OneGivesUp
<1>4. HistoryInv'
  BY <1>1, Warranted, Spent DEF OneGivesUp, HistoryInv, Kinds
<1> QED BY <1>1, <1>2, <1>3, <1>4, TableStays, HandlerStays, CallsStay
        DEF PipelineInv, OneGivesUp

\* On to the next row, if one is left.
LEMMA NextRowOK ==
    ASSUME WorkerInv, worker.pc \in {"one", "oneWait", "poison"}, NextRow
    PROVE  WorkerInv'
<1>1. CASE worker' = Resting
  BY <1>1, RestingOK, WorkerWritten DEF WorkerOK
<1>2. CASE worker.todo # {Current}
           /\ worker' = [worker EXCEPT !.pc = "one", !.todo = worker.todo \ {Current}]
  <2> DEFINE todo == worker.todo \ {Current}
             w    == [worker EXCEPT !.pc = "one", !.todo = todo]
  <2>1. /\ worker \in WorkerState /\ worker.todo \subseteq DOMAIN worker.batch
        /\ Current \in worker.todo /\ worker.todo \in SUBSET Rows
    BY CurrentIsLeft DEF WorkerInv, WorkerOK, WorkerState
  <2>2. todo \in SUBSET Rows /\ todo # {} /\ todo \subseteq DOMAIN worker.batch
    BY <1>2, <2>1
  <2>3. worker' = w
    BY <1>2
  <2> HIDE DEF todo
  <2>4. w \in WorkerState /\ w.pc = "one" /\ w.todo = todo /\ w.batch = worker.batch
    BY <2>1, <2>2 DEF WorkerState, Isolating
  <2> HIDE DEF w
  <2> QED BY <2>2, <2>3, <2>4, WorkerWritten DEF Batching
<1> QED BY <1>1, <1>2 DEF NextRow

LEMMA OneRecordInv == ASSUME PipelineInv, OneRecord PROVE PipelineInv'
<1>1. ScansInv /\ ApiInv /\ CallsInv /\ WorkerInv /\ ChainInv /\ HistoryInv
  BY DEF PipelineInv
<1>2. ChainInv' /\ TxsGrow
  BY <1>1, ChainStays DEF OneRecord
<1>3. /\ Current \in Rows /\ worker.tx \in 0..MaxTx /\ Sent(Current, worker.tx)
  BY <1>1, CurrentIsLeft DEF WorkerInv, WorkerOK, WorkerState, OneRecord, Current
<1>4. ScansInv'
  <2>1. StateOf(worker.tx) = "confirmed" => Carries(Current, worker.tx)
    BY <1>3, StateOfTyped DEF Carries
  <2>2. StateOf(worker.tx) \in States
    BY StateOfTyped DEF States
  <2> QED BY <1>1, <1>2, <1>3, <2>1, <2>2, Marked DEF OneRecord
<1>5. WorkerInv'
  BY <1>1, NextRowOK DEF OneRecord
<1> QED BY <1>1, <1>2, <1>4, <1>5, HandlerStays, CallsStay, HistoryStays
        DEF PipelineInv, OneRecord

LEMMA OnePoisonInv == ASSUME PipelineInv, OnePoison PROVE PipelineInv'
<1>1. ScansInv /\ ApiInv /\ CallsInv /\ WorkerInv /\ ChainInv /\ HistoryInv
  BY DEF PipelineInv
<1>2. ChainInv' /\ TxsGrow
  BY <1>1, ChainStays DEF OnePoison
<1>3. ScansInv'
  <2>1. Current \in Rows /\ NoTx \in 0..MaxTx /\ "poison" \in States
    BY <1>1, CurrentIsLeft, SigsKnown DEF OnePoison, NoTx, States
  <2> QED BY <1>1, <1>2, <2>1, Marked DEF OnePoison
<1>4. WorkerInv'
  BY <1>1, NextRowOK DEF OnePoison
<1> QED BY <1>1, <1>2, <1>3, <1>4, HandlerStays, CallsStay, HistoryStays
        DEF PipelineInv, OnePoison

LEMMA WorkerCrashInv == ASSUME PipelineInv, WorkerCrash PROVE PipelineInv'
<1>1. ScansInv /\ ApiInv /\ CallsInv /\ WorkerInv /\ ChainInv /\ HistoryInv
  BY DEF PipelineInv
<1>2. ChainInv' /\ TxsGrow
  BY <1>1, ChainStays DEF WorkerCrash
<1>3. WorkerInv'
  BY RestingOK, WorkerWritten DEF WorkerOK, WorkerCrash
<1>4. HistoryInv'
  BY <1>1, Warranted, Spent DEF WorkerCrash, HistoryInv, Kinds
<1> QED BY <1>1, <1>2, <1>3, <1>4, TableStays, HandlerStays, CallsStay
        DEF PipelineInv, WorkerCrash

-----------------------------------------------------------------------------
(* The theorems                                                            *)

LEMMA MineInv == ASSUME PipelineInv, NEW i \in DOMAIN txs, Mine(i) PROVE PipelineInv'
<1>1. ScansInv /\ ApiInv /\ CallsInv /\ WorkerInv /\ ChainInv /\ HistoryInv
  BY DEF PipelineInv
<1>2. ChainInv' /\ TxsGrow
  BY <1>1, MineKeeps
<1>3. HistoryInv'
  BY <1>1, Spent DEF Mine, HistoryInv, history, Kinds
<1> QED BY <1>1, <1>2, <1>3, TableStays, HandlerStays, CallsStay, WorkerStays
        DEF PipelineInv, Mine

LEMMA StutterInv == ASSUME PipelineInv, UNCHANGED vars PROVE PipelineInv'
<1>1. ScansInv /\ ApiInv /\ CallsInv /\ WorkerInv /\ ChainInv /\ HistoryInv
  BY DEF PipelineInv
<1>2. ChainInv' /\ TxsGrow
  BY <1>1, ChainStays DEF vars
<1> QED BY <1>1, <1>2, TableStays, HandlerStays, CallsStay, WorkerStays, HistoryStays
        DEF PipelineInv, vars

LEMMA InitInv == Init => PipelineInv
<1> SUFFICES ASSUME Init PROVE PipelineInv
  OBVIOUS
<1>1. ScansInv /\ ApiInv
  BY SigsKnown DEF Init, ScansInv, RowState, States, NoTx, ApiInv, ApiState, NoRow, Sigs
<1>2. CallsInv
  BY FreeOK DEF Init, CallsInv, CallOK
<1>3. WorkerInv
  BY RestingOK DEF Init, WorkerInv
<1>4. ChainInv
  BY PipelineAssumption DEF Init, ChainInv
<1>5. HistoryInv
  BY PipelineAssumption DEF Init, HistoryInv
<1> QED BY <1>1, <1>2, <1>3, <1>4, <1>5 DEF PipelineInv

LEMMA NextInv == PipelineInv /\ [Next]_vars => PipelineInv'
<1> SUFFICES ASSUME PipelineInv, [Next]_vars PROVE PipelineInv'
  OBVIOUS
<1>1. ApiStep => PipelineInv'
  BY ScanUnanchoredInv, QueueWriteInv, CallSubmitInv, CallRecordInv, CallCatchInv DEF ApiStep
<1>2. WorkerStep => PipelineInv'
  BY SelectInv, SubmitBatchInv, BatchMinedInv, IsolateInv, OneSubmitInv, OneRecordInv,
     OnePoisonInv, MarkSentInv, RecordRowInv, FailRowInv DEF WorkerStep
<1>3. Environment => PipelineInv'
  BY ScanInsertInv, AnchorRequestInv, QueueReadInv, CallGivesUpInv, BatchGivesUpInv,
     OneGivesUpInv, ApiCrashInv, WorkerCrashInv DEF Environment
<1> QED BY <1>1, <1>2, <1>3, MineInv, StutterInv DEF Next

THEOREM PipelineInvHolds == Spec => []PipelineInv
BY InitInv, NextInv, PTL DEF Spec

\* Every variable holds a value of its type.
THEOREM TypeCorrect == Spec => []TypeOK
<1>1. PipelineInv => TypeOK
  <2> SUFFICES ASSUME PipelineInv PROVE TypeOK
    OBVIOUS
  <2>1. /\ scans \in [Rows -> RowState] /\ api \in ApiState /\ calls \in [Calls -> CallState]
        /\ anchors \in [Rows -> Nat] /\ warrants \in [Rows -> Nat] /\ taken \subseteq Rows
        /\ operator \subseteq Rows /\ Len(txs) <= MaxTx
    BY DEF PipelineInv, ScansInv, ApiInv, CallsInv, ChainInv, HistoryInv
  <2>2. /\ worker \in WorkerState /\ worker.todo \subseteq DOMAIN worker.batch
        /\ DOMAIN worker.batch \subseteq Rows
    BY SigMapDomain DEF PipelineInv, WorkerInv, WorkerOK, WorkerState
  <2>3. ASSUME NEW i \in DOMAIN txs
        PROVE  txs[i].status \in {"pending", "success", "reverted"} /\ DOMAIN txs[i].sigs \subseteq Rows
    <3>1. txs[i] \in TxState
      BY DEF PipelineInv, ChainInv
    <3> QED BY <3>1, SigMapDomain DEF TxState
  <2>4. ASSUME NEW k \in Kinds PROVE spent[k] \in 0..Budget[k]
    BY PipelineAssumption DEF PipelineInv, HistoryInv
  <2> QED BY <2>1, <2>2, <2>3, <2>4
          DEF TypeOK, RowState, ApiState, CallState, WorkerState, Batching, Isolating
<1> QED BY <1>1, PipelineInvHolds, PTL

\* A row that says 'confirmed' names a transaction that carried this receipt
\* and succeeded: for any number of receipts and requests, any batch size, any
\* crashes, faults, reverts and lost answers.
THEOREM ConfirmedIsAnchoredHolds == Spec => []ConfirmedIsAnchored
<1>1. PipelineInv => ConfirmedIsAnchored
  BY DEF PipelineInv, ScansInv, Carries, Sent, ConfirmedIsAnchored
<1> QED BY <1>1, PipelineInvHolds, PTL

\* And its verdict is on chain, if there is a registry at the address at all.
THEOREM ConfirmedIsOnChainIfDeployed ==
    ASSUME RegistryHasCode
    PROVE  Spec => []ConfirmedIsOnChain
<1>1. PipelineInv => ConfirmedIsOnChain
  BY DEF PipelineInv, ScansInv, ChainInv, Carries, Sent, ConfirmedIsOnChain
<1> QED BY <1>1, PipelineInvHolds, PTL

-----------------------------------------------------------------------------
(* Rows marked 'sent'                                                      *)

\* While it marks, sends and waits the worker holds its batch; while it writes
\* down the outcome, what is left of it.
Held(r) ==
    \/ worker.pc \in {"mark", "submit", "wait"} /\ r \in DOMAIN worker.batch
    \/ worker.pc \in {"record", "fail"} /\ r \in worker.todo

HeldInv == spent["crash"] = 0 => \A r \in Rows : scans[r].state = "sent" => Held(r)

NoNewSent  == \A r \in Rows : scans'[r].state = "sent" => scans[r].state = "sent"
CrashGrows == spent'["crash"] = 0 => spent["crash"] = 0

LEMMA SpendGrows ==
    ASSUME HistoryInv, (\E kind \in Kinds : Spend(kind)) \/ UNCHANGED spent
    PROVE  CrashGrows
<1>1. ASSUME NEW kind \in Kinds, Spend(kind) PROVE CrashGrows
  <2>1. /\ spent' = [spent EXCEPT ![kind] = spent[kind] + 1]
        /\ spent \in [Kinds -> Nat] /\ "crash" \in Kinds
    BY <1>1 DEF Spend, HistoryInv, Kinds
  <2>2. spent'["crash"] = spent["crash"] \/ spent'["crash"] = spent["crash"] + 1
    BY <2>1
  <2> QED BY <2>1, <2>2 DEF CrashGrows
<1> QED BY <1>1 DEF CrashGrows

\* No statement but the worker's writes 'sent'.
LEMMA WritesNoSent ==
    ASSUME ScansInv, NEW r, NEW state, NEW sig, NEW tx, state # "sent",
           SetState(r, state) \/ QueueScan(r, sig) \/ MarkAnchored(r, tx, state)
                              \/ UNCHANGED scans
    PROVE  NoNewSent
<1>1. \A q \in Rows : scans[q] \in RowState
  BY DEF ScansInv
<1>2. SetState(r, state) => NoNewSent
  BY <1>1 DEF SetState, NoNewSent, ScansInv, RowState
<1>3. QueueScan(r, sig) => NoNewSent
  BY <1>1 DEF QueueScan, NoNewSent, ScansInv, RowState
<1>4. MarkAnchored(r, tx, state) => NoNewSent
  BY <1>1 DEF MarkAnchored, NoNewSent, ScansInv, RowState
<1> QED BY <1>2, <1>3, <1>4 DEF NoNewSent

\* Steps that leave the worker alone.
LEMMA OthersHold ==
    ASSUME PipelineInv,
           \/ ApiStep \/ UNCHANGED vars \/ ApiCrash
           \/ \E i \in DOMAIN txs : Mine(i)
           \/ \E r \in Rows : ScanInsert(r)
           \/ \E c \in Calls, r \in Rows, sig \in ClientSigs \cup {"server"} : AnchorRequest(c, r, sig)
           \/ \E r \in Rows, sig \in ClientSigs : QueueRead(r, sig)
           \/ \E c \in Calls : CallGivesUp(c)
    PROVE  worker' = worker /\ NoNewSent /\ CrashGrows
<1>1. ScansInv /\ HistoryInv
  BY DEF PipelineInv
<1>2. /\ ScanUnanchored => worker' = worker /\ spent' = spent /\ NoNewSent
      /\ QueueWrite => worker' = worker /\ spent' = spent /\ NoNewSent
  BY <1>1, WritesNoSent DEF ScanUnanchored, QueueWrite
<1>3. ASSUME NEW c \in Calls, CallSubmit(c)
      PROVE  worker' = worker /\ NoNewSent /\ (UNCHANGED spent \/ Spend("fault"))
  BY <1>3 DEF CallSubmit, ThrowsOne, Throws, NoNewSent
<1>4. ASSUME NEW c \in Calls, CallRecord(c)
      PROVE  worker' = worker /\ spent' = spent /\ NoNewSent
  BY <1>1, <1>4, WritesNoSent, StateOfTyped DEF CallRecord
<1>5. ASSUME NEW c \in Calls, CallCatch(c)
      PROVE  worker' = worker /\ spent' = spent /\ NoNewSent
  BY <1>1, <1>5, WritesNoSent DEF CallCatch
<1>6. ASSUME NEW r \in Rows, ScanInsert(r)
      PROVE  worker' = worker /\ NoNewSent /\ (UNCHANGED spent \/ Spend("rescan"))
  BY <1>1, <1>6, WritesNoSent DEF ScanInsert
<1>7. ASSUME NEW c \in Calls, CallGivesUp(c)
      PROVE  worker' = worker /\ NoNewSent /\ Spend("lost")
  BY <1>7 DEF CallGivesUp, NoNewSent
<1>8. ASSUME NEW c \in Calls, NEW r \in Rows, NEW sig, AnchorRequest(c, r, sig)
      PROVE  worker' = worker /\ NoNewSent /\ UNCHANGED spent
  BY <1>8 DEF AnchorRequest, NoNewSent
<1>9. ASSUME NEW r \in Rows, NEW sig, QueueRead(r, sig)
      PROVE  worker' = worker /\ NoNewSent /\ Spend("queue")
  BY <1>9 DEF QueueRead, NoNewSent
<1>10. ASSUME NEW i \in DOMAIN txs, Mine(i)
       PROVE  worker' = worker /\ NoNewSent /\ (UNCHANGED spent \/ Spend("revert"))
  BY <1>10 DEF Mine, NoNewSent
<1>11. /\ ApiCrash => worker' = worker /\ NoNewSent /\ Spend("crash")
       /\ UNCHANGED vars => worker' = worker /\ NoNewSent /\ UNCHANGED spent
  BY DEF ApiCrash, vars, NoNewSent
<1>12. worker' = worker /\ NoNewSent /\ ((\E kind \in Kinds : Spend(kind)) \/ UNCHANGED spent)
  BY <1>2, <1>3, <1>4, <1>5, <1>6, <1>7, <1>8, <1>9, <1>10, <1>11 DEF ApiStep, Kinds
<1> QED BY <1>1, <1>12, SpendGrows

\* A worker that keeps its batch, or has written the outcome of all of it, or
\* had none, loses no row.
LEMMA HeldKept ==
    ASSUME HeldInv, NoNewSent, CrashGrows,
           spent["crash"] = 0 => \A r \in Rows :
              (Held(r) /\ scans'[r].state = "sent") => Held(r)'
    PROVE  HeldInv'
BY DEF HeldInv, NoNewSent, CrashGrows

LEMMA WorkerHolds == ASSUME PipelineInv, HeldInv, WorkerStep PROVE HeldInv'
<1>1. ScansInv /\ WorkerInv /\ HistoryInv /\ worker \in WorkerState
      /\ worker.todo \subseteq DOMAIN worker.batch
  BY DEF PipelineInv, WorkerInv, WorkerOK
<1>2. CASE Select \/ BatchMined \/ Isolate
  <2>1. NoNewSent /\ CrashGrows
    BY <1>2 DEF Select, BatchMined, Isolate, NoNewSent, CrashGrows
  <2>2. ASSUME NEW r \in Rows, Held(r) PROVE Held(r)'
    <3>1. worker.pc = "wait" /\ r \in DOMAIN worker.batch /\ BatchMined
      BY <1>2, <2>2 DEF Held, Select, BatchMined, Isolate
    <3>2. worker'.pc = "record" /\ worker'.todo = DOMAIN worker.batch
      BY <1>1, <3>1 DEF BatchMined, WorkerState
    <3> QED BY <3>1, <3>2 DEF Held
  <2> QED BY <2>1, <2>2, HeldKept
<1>3. ASSUME NEW q \in Rows, MarkSent(q) PROVE HeldInv'
  <2>1. /\ worker.pc = "mark" /\ q \in worker.todo /\ spent' = spent
        /\ worker'.pc \in {"mark", "submit"} /\ worker'.batch = worker.batch
    BY <1>1, <1>3 DEF MarkSent, OneRow, WorkerState
  <2>2. \A r \in Rows : r # q => scans'[r] = scans[r]
    BY <1>1, <1>3 DEF MarkSent, SetState, ScansInv
  <2>3. ASSUME spent["crash"] = 0, NEW r \in Rows, scans'[r].state = "sent"
        PROVE  r \in DOMAIN worker.batch
    BY <1>1, <2>1, <2>2, <2>3 DEF HeldInv, Held
  <2> QED BY <2>1, <2>3 DEF HeldInv, Held
<1>4. CASE SubmitBatch
  <2>1. worker.pc = "submit" /\ scans' = scans /\ (UNCHANGED spent \/ Spend("fault"))
    BY <1>4 DEF SubmitBatch, Throws
  <2>2. NoNewSent /\ CrashGrows
    BY <1>1, <2>1, SpendGrows DEF NoNewSent, Kinds
  <2>3. \/ worker' = [worker EXCEPT !.pc = "wait", !.tx = Len(txs')]
        \/ worker' = [worker EXCEPT !.pc = "fail", !.todo = DOMAIN worker.batch]
    BY <1>4 DEF SubmitBatch
  <2>4. \/ worker'.pc = "wait" /\ worker'.batch = worker.batch
        \/ worker'.pc = "fail" /\ worker'.todo = DOMAIN worker.batch
    BY <1>1, <2>3 DEF WorkerState
  <2>5. \A r \in Rows : Held(r) => Held(r)'
    BY <2>1, <2>4 DEF Held
  <2> QED BY <2>2, <2>5, HeldKept
<1>5. ASSUME NEW q \in Rows, RecordRow(q) \/ FailRow(q) PROVE HeldInv'
  <2>1. /\ worker.pc \in {"record", "fail"} /\ q \in worker.todo /\ spent' = spent
        /\ worker.todo = {q} \/ worker' = [worker EXCEPT !.todo = @ \ {q}]
    BY <1>5 DEF RecordRow, FailRow
  <2>2. worker.pc = "record" => worker.outcome \in {"confirmed", "failed"}
    BY <1>1 DEF WorkerInv, WorkerOK, WorkerState
  <2>3. NoNewSent /\ scans'[q].state # "sent"
    <3>1. ASSUME RecordRow(q) PROVE NoNewSent /\ scans'[q].state # "sent"
      <4>1. MarkAnchored(q, worker.tx, worker.outcome) /\ worker.outcome # "sent"
        BY <2>2, <3>1 DEF RecordRow
      <4> QED BY <1>1, <4>1, WritesNoSent DEF MarkAnchored, ScansInv, RowState
    <3>2. ASSUME FailRow(q) PROVE NoNewSent /\ scans'[q].state # "sent"
      <4>1. SetState(q, "failed")
        BY <3>2 DEF FailRow
      <4> QED BY <1>1, <4>1, WritesNoSent DEF SetState, ScansInv, RowState
    <3> QED BY <1>5, <3>1, <3>2
  <2>4. ASSUME NEW r \in Rows, Held(r), scans'[r].state = "sent" PROVE Held(r)'
    <3>1. r # q /\ r \in worker.todo
      BY <2>1, <2>3, <2>4 DEF Held
    <3>2. worker'.pc = worker.pc /\ worker'.todo = worker.todo \ {q}
      BY <1>1, <2>1, <3>1 DEF WorkerState
    <3> QED BY <2>1, <3>1, <3>2 DEF Held
  <2> QED BY <2>1, <2>3, <2>4, HeldKept DEF CrashGrows
<1>6. CASE OneSubmit \/ OneRecord \/ OnePoison
  <2>1. worker.pc \in {"one", "oneWait", "poison"} /\ (UNCHANGED spent \/ Spend("fault"))
    BY <1>6 DEF OneSubmit, OneRecord, OnePoison, ThrowsOne, Throws
  <2>2. NoNewSent
    <3>1. OneSubmit => NoNewSent
      BY DEF OneSubmit, NoNewSent
    <3>2. OneRecord => NoNewSent
      BY <1>1, WritesNoSent, StateOfTyped DEF OneRecord
    <3>3. OnePoison => NoNewSent
      BY <1>1, WritesNoSent DEF OnePoison
    <3> QED BY <1>6, <3>1, <3>2, <3>3
  <2>3. \A r \in Rows : ~ Held(r)
    BY <2>1 DEF Held
  <2> QED BY <1>1, <2>1, <2>2, <2>3, HeldKept, SpendGrows DEF Kinds
<1> QED BY <1>2, <1>3, <1>4, <1>5, <1>6 DEF WorkerStep

LEMMA AccidentsHold ==
    ASSUME PipelineInv, HeldInv, BatchGivesUp \/ OneGivesUp \/ WorkerCrash
    PROVE  HeldInv'
<1>1. HistoryInv /\ worker \in WorkerState
  BY DEF PipelineInv, WorkerInv, WorkerOK
<1>2. CASE WorkerCrash
  <2>1. /\ spent' = [spent EXCEPT !["crash"] = spent["crash"] + 1]
        /\ spent \in [Kinds -> Nat] /\ "crash" \in Kinds
    BY <1>1, <1>2 DEF WorkerCrash, Spend, HistoryInv, Kinds
  <2>2. spent'["crash"] # 0
    BY <2>1
  <2> QED BY <2>2 DEF HeldInv
<1>3. CASE BatchGivesUp \/ OneGivesUp
  <2>1. NoNewSent /\ Spend("lost")
    BY <1>3 DEF BatchGivesUp, OneGivesUp, NoNewSent
  <2>2. CrashGrows
    BY <1>1, <2>1, SpendGrows DEF Kinds
  <2>3. ASSUME NEW r \in Rows, Held(r) PROVE Held(r)'
    <3>1. BatchGivesUp /\ worker.pc = "wait" /\ r \in DOMAIN worker.batch
      BY <1>3, <2>3 DEF Held, BatchGivesUp, OneGivesUp
    <3>2. worker'.pc = "fail" /\ worker'.todo = DOMAIN worker.batch
      BY <1>1, <3>1 DEF BatchGivesUp, WorkerState
    <3> QED BY <3>1, <3>2 DEF Held
  <2> QED BY <2>1, <2>2, <2>3, HeldKept
<1> QED BY <1>2, <1>3

LEMMA NextHeld == PipelineInv /\ HeldInv /\ [Next]_vars => HeldInv'
<1> SUFFICES ASSUME PipelineInv, HeldInv, [Next]_vars PROVE HeldInv'
  OBVIOUS
<1>1. ASSUME worker' = worker, NoNewSent, CrashGrows PROVE HeldInv'
  BY <1>1, HeldKept DEF Held
<1> QED BY <1>1, OthersHold, WorkerHolds, AccidentsHold DEF Next, Environment

\* While nothing crashes, a row marked 'sent' is in the worker's hands: every
\* way out of a batch (receipt, revert, error, lost answer) puts each of its
\* rows back where somebody looks for it.
THEOREM SentIsHeldHolds == Spec => []SentIsHeld
<1>1. Init => HeldInv
  BY DEF Init, HeldInv
<1>2. PipelineInv /\ HeldInv => SentIsHeld
  BY DEF PipelineInv, WorkerInv, WorkerOK, HeldInv, Held, SentIsHeld
<1> QED BY <1>1, <1>2, InitInv, NextInv, NextHeld, PTL DEF Spec

-----------------------------------------------------------------------------
(* What a step may do to a row                                             *)

\* A statement writes another row.
LEMMA OtherRow ==
    ASSUME PipelineInv, NEW q, NEW tx, NEW state, NEW r \in Rows, r # q,
           MarkAnchored(q, tx, state) \/ SetState(q, state)
    PROVE  scans'[r] = scans[r]
BY DEF PipelineInv, ScansInv, MarkAnchored, SetState

LEMMA ThisRow ==
    ASSUME PipelineInv, NEW tx, NEW state, NEW r \in Rows,
           MarkAnchored(r, tx, state) \/ SetState(r, state)
    PROVE  scans'[r].state = state
BY DEF PipelineInv, ScansInv, RowState, MarkAnchored, SetState

\* The only statements that make a row pending, queued or poison.
RowStep(r) ==
    \/ scans'[r] = scans[r]
    \/ scans'[r].sig = scans[r].sig /\ scans'[r].state \notin {"absent", "pending", "queued", "poison"}
    \/ ScanInsert(r) /\ scans'[r].sig = scans[r].sig /\ scans'[r].state = "pending"
    \/ QueueWrite /\ r = api.row /\ scans'[r].sig = api.sig /\ scans'[r].state = "queued"
    \/ OnePoison /\ r = Current /\ scans'[r].sig = scans[r].sig /\ scans'[r].state = "poison"

LEMMA Written ==
    ASSUME PipelineInv, NEW q, NEW tx, NEW state, NEW r \in Rows,
           SetState(q, state) \/ MarkAnchored(q, tx, state)
    PROVE  \/ scans'[r] = scans[r]
           \/ r = q /\ scans'[r].sig = scans[r].sig /\ scans'[r].state = state
<1>1. scans \in [Rows -> RowState]
  BY DEF PipelineInv, ScansInv
<1>2. scans[r] \in RowState
  BY <1>1
<1>3. CASE r = q
  BY <1>1, <1>2, <1>3 DEF SetState, MarkAnchored, RowState
<1>4. CASE r # q
  BY <1>4, OtherRow
<1> QED BY <1>3, <1>4

LEMMA RowSteps ==
    ASSUME PipelineInv, [Next]_vars, NEW r \in Rows
    PROVE  RowStep(r)
<1>1. ASSUME UNCHANGED scans PROVE RowStep(r)
  BY <1>1 DEF RowStep
<1>2. ASSUME NEW q, NEW tx, NEW state, SetState(q, state) \/ MarkAnchored(q, tx, state),
             state \notin {"absent", "pending", "queued", "poison"}
      PROVE  RowStep(r)
  BY <1>2, Written DEF RowStep
<1>3. ASSUME NEW q \in Rows, ScanInsert(q) PROVE RowStep(r)
  <2>1. UNCHANGED scans \/ SetState(q, "pending")
    BY <1>3 DEF ScanInsert
  <2> QED BY <1>1, <1>3, <2>1, Written DEF RowStep
<1>4. QueueWrite => RowStep(r)
  <2> SUFFICES ASSUME QueueWrite PROVE RowStep(r)
    OBVIOUS
  <2>1. QueueScan(api.row, api.sig) /\ scans \in [Rows -> RowState]
    BY DEF QueueWrite, PipelineInv, ScansInv
  <2>2. CASE r = api.row
    BY <2>1, <2>2 DEF QueueScan, RowState, RowStep
  <2>3. CASE r # api.row
    BY <2>1, <2>3 DEF QueueScan, RowStep
  <2> QED BY <2>2, <2>3
<1>5. OnePoison => RowStep(r)
  BY Written DEF OnePoison, RowStep
<1>6. OneRecord => RowStep(r)
  BY <1>2, StateOfTyped DEF OneRecord
<1>7. ASSUME NEW q \in Rows, RecordRow(q) PROVE RowStep(r)
  <2>1. worker.outcome \in {"confirmed", "failed"}
    BY <1>7 DEF RecordRow, PipelineInv, WorkerInv, WorkerOK, WorkerState
  <2> QED BY <1>2, <1>7, <2>1 DEF RecordRow
<1>8. ASSUME NEW q \in Rows, MarkSent(q) \/ FailRow(q) PROVE RowStep(r)
  BY <1>2, <1>8 DEF MarkSent, FailRow
<1>9. ScanUnanchored => RowStep(r)
  BY <1>2 DEF ScanUnanchored
<1>10. ASSUME NEW c \in Calls, CallSubmit(c) \/ CallRecord(c) \/ CallCatch(c) PROVE RowStep(r)
  <2>1. CallSubmit(c) => RowStep(r)
    BY <1>1 DEF CallSubmit
  <2>2. CallRecord(c) => RowStep(r)
    BY <1>2, StateOfTyped DEF CallRecord
  <2>3. CallCatch(c) => RowStep(r)
    BY <1>1, <1>2 DEF CallCatch
  <2> QED BY <1>10, <2>1, <2>2, <2>3
<1>11. Select \/ SubmitBatch \/ BatchMined \/ Isolate \/ OneSubmit => RowStep(r)
  BY <1>1 DEF Select, SubmitBatch, BatchMined, Isolate, OneSubmit
<1>12. ApiCrash \/ WorkerCrash \/ BatchGivesUp \/ OneGivesUp => RowStep(r)
  BY <1>1 DEF ApiCrash, WorkerCrash, BatchGivesUp, OneGivesUp
<1>13. ASSUME NEW c \in Calls, CallGivesUp(c) PROVE RowStep(r)
  BY <1>1, <1>13 DEF CallGivesUp
<1>14. ASSUME NEW c \in Calls, NEW q \in Rows, NEW sig, AnchorRequest(c, q, sig) PROVE RowStep(r)
  BY <1>1, <1>14 DEF AnchorRequest
<1>15. ASSUME NEW q \in Rows, NEW sig, QueueRead(q, sig) PROVE RowStep(r)
  BY <1>1, <1>15 DEF QueueRead
<1>16. ASSUME NEW i \in DOMAIN txs, Mine(i) PROVE RowStep(r)
  BY <1>1, <1>16 DEF Mine
<1>17. UNCHANGED vars => RowStep(r)
  BY <1>1 DEF vars
<1>18. ApiStep => RowStep(r)
  BY <1>4, <1>9, <1>10 DEF ApiStep
<1>19. WorkerStep => RowStep(r)
  BY <1>5, <1>6, <1>7, <1>8, <1>11 DEF WorkerStep
<1>20. Environment => RowStep(r)
  BY <1>3, <1>12, <1>13, <1>14, <1>15 DEF Environment
<1> QED BY <1>16, <1>17, <1>18, <1>19, <1>20 DEF Next

-----------------------------------------------------------------------------
(* Anchors owed: who may yet anchor a row, for a request made already      *)

\* A transaction that is not mined yet.
TxOwes(i, r) == Sent(r, i) /\ txs[i].status = "pending"

\* A request that has not sent anything, or will write 'failed'.
CallOwes(c, r) ==
    /\ calls[c].row = r
    /\ \/ calls[c].pc = "submit"
       \/ calls[c].pc = "wait" /\ txs[calls[c].tx].status = "reverted"
       \/ calls[c].pc = "catch" /\ ~ calls[c].auto

ApiOwes(r) == api.op = "queue" /\ api.row = r

\* The worker has the row in hand and is about to send it, or will write it
\* down as failed.
WorkerOwes(r) ==
    \/ worker.pc \in {"mark", "submit"} /\ r \in DOMAIN worker.batch
    \/ worker.pc = "wait" /\ r \in DOMAIN worker.batch /\ txs[worker.tx].status = "reverted"
    \/ worker.pc = "record" /\ r \in worker.todo /\ worker.outcome = "failed"
    \/ worker.pc \in {"fail", "one", "poison"} /\ r \in worker.todo
    \/ worker.pc = "oneWait" /\ r \in worker.todo
          /\ (r = Current => txs[worker.tx].status = "reverted")

\* A row that a query will find on an allowance it has already, unless the
\* worker has it and will overwrite its state.
RowOwes(r) ==
    /\ \/ scans[r].state \in {"queued", "failed"}
       \/ scans[r].state = "pending" /\ r \in taken
    /\ ~ (r \in worker.todo /\ worker.pc \in {"mark", "one", "oneWait", "poison"})

Nothing == <<"nothing", 0>>
Tokens  == ({"tx"} \X Nat) \cup ({"call"} \X Calls) \cup ({"api", "row", "worker"} \X {0})

Owes(t, r) ==
    \/ t[1] = "tx" /\ TxOwes(t[2], r)
    \/ t[1] = "call" /\ CallOwes(t[2], r)
    \/ t[1] = "api" /\ ApiOwes(r)
    \/ t[1] = "row" /\ RowOwes(r)
    \/ t[1] = "worker" /\ WorkerOwes(r)

Owed(r) == {t \in Tokens : Owes(t, r)}

\* Nobody waits for a transaction another waits for, or that was never sent.
OneWaiter ==
    /\ worker.pc \in {"wait", "oneWait"} => worker.tx \in DOMAIN txs
    /\ \A c, d \in Calls :
          (calls[c].pc = "wait" /\ calls[d].pc = "wait" /\ calls[c].tx = calls[d].tx) => c = d
    /\ \A c \in Calls :
          (calls[c].pc = "wait" /\ worker.pc \in {"wait", "oneWait"}) => calls[c].tx # worker.tx

\* What is anchored and what is owed is allowed.
Accounted(r) ==
    IsFiniteSet(Owed(r)) /\ anchors[r] + Cardinality(Owed(r)) <= Allowed(r)

\* What was taken is in the table.
Present == \A r \in taken : scans[r].state # "absent"

AccountInv == OneWaiter /\ Present /\ \A r \in Rows : Accounted(r)

-----------------------------------------------------------------------------
(* A step passes at most one token of a row on                             *)

One(t) == IF t = Nothing THEN 0 ELSE 1

\* In this step token b replaces token a.
Passes(a, b, r) ==
    /\ a = Nothing \/ (a \in Tokens /\ Owes(a, r))
    /\ \A t \in Tokens : Owes(t, r)' => (Owes(t, r) /\ t # a) \/ t = b

\* And nothing is anchored or owed anew that is not allowed anew.
Settles(a, b, r) ==
    Passes(a, b, r) /\ anchors'[r] + One(b) + Allowed(r) <= Allowed(r)' + anchors[r] + One(a)

LEMMA Balanced ==
    ASSUME PipelineInv, PipelineInv', NEW r \in Rows, Accounted(r), NEW a, NEW b, Settles(a, b, r)
    PROVE  Accounted(r)'
<1>1. /\ anchors[r] \in Nat /\ anchors'[r] \in Nat
      /\ Allowed(r) \in Nat /\ Allowed(r)' \in Nat
  BY DEF PipelineInv, ChainInv, HistoryInv, Allowed
<1> DEFINE old == Owed(r)
           new == Owed(r)'
           kept == old \ {a}
<1>2. Nothing \notin Tokens
  BY DEF Nothing, Tokens
<1>3. a = Nothing \/ a \in old
  BY DEF Settles, Passes, Owed
<1>4. new \subseteq kept \cup {b} /\ (b = Nothing => new \subseteq kept)
  BY <1>2 DEF Settles, Passes, Owed
<1>5. IsFiniteSet(old) /\ Cardinality(old) \in Nat
  BY FS_CardinalityType DEF Accounted
<1>6. anchors[r] + Cardinality(old) <= Allowed(r)
  BY DEF Accounted
<1>7. Nothing \notin old
  BY <1>2 DEF Owed
<1> HIDE DEF old, new
<1>8. IsFiniteSet(kept) /\ Cardinality(kept) \in Nat /\ Cardinality(kept) = Cardinality(old) - One(a)
  <2>1. CASE a = Nothing
    <3>1. kept = old
      BY <1>7, <2>1
    <3> QED BY <1>5, <2>1, <3>1 DEF One
  <2>2. CASE a # Nothing
    <3>1. a \in old
      BY <1>3, <2>2
    <3>2. IsFiniteSet(kept) /\ Cardinality(kept) = Cardinality(old) - 1
      BY <1>5, <3>1, FS_RemoveElement
    <3> QED BY <2>2, <3>2, FS_CardinalityType DEF One
  <2> QED BY <2>1, <2>2
<1> HIDE DEF kept
<1>9. IsFiniteSet(new) /\ Cardinality(new) \in Nat /\ Cardinality(new) <= Cardinality(kept) + One(b)
  <2>1. CASE b = Nothing
    <3>1. IsFiniteSet(new) /\ Cardinality(new) <= Cardinality(kept)
      BY <1>4, <1>8, <2>1, FS_Subset
    <3> QED BY <1>8, <2>1, <3>1, FS_CardinalityType DEF One
  <2>2. CASE b # Nothing
    <3>1. IsFiniteSet(kept \cup {b}) /\ Cardinality(kept \cup {b}) \in Nat
          /\ Cardinality(kept \cup {b}) <= Cardinality(kept) + 1
      <4>1. IsFiniteSet(kept \cup {b})
            /\ (Cardinality(kept \cup {b}) = Cardinality(kept)
                \/ Cardinality(kept \cup {b}) = Cardinality(kept) + 1)
        BY <1>8, FS_AddElement
      <4> QED BY <1>8, <4>1
    <3>2. IsFiniteSet(new) /\ Cardinality(new) <= Cardinality(kept \cup {b})
      BY <1>4, <3>1, FS_Subset
    <3>3. Cardinality(new) \in Nat
      BY <3>2, FS_CardinalityType
    <3> QED BY <1>8, <2>2, <3>1, <3>2, <3>3 DEF One
  <2> QED BY <2>1, <2>2
<1>10. One(a) \in Nat /\ One(b) \in Nat
  BY DEF One
<1>11. anchors'[r] + One(b) + Allowed(r) <= Allowed(r)' + anchors[r] + One(a)
  BY DEF Settles
<1>12. anchors'[r] + Cardinality(new) <= Allowed(r)'
  BY <1>1, <1>5, <1>6, <1>8, <1>9, <1>10, <1>11
<1> QED BY <1>9, <1>12 DEF Accounted, new

\* The five kinds of token, one by one.
LEMMA PassesByKind ==
    ASSUME NEW r, NEW a, NEW b, a = Nothing \/ (a \in Tokens /\ Owes(a, r)),
           \A i \in Nat : TxOwes(i, r)' => (TxOwes(i, r) /\ a # <<"tx", i>>) \/ b = <<"tx", i>>,
           \A c \in Calls : CallOwes(c, r)' => (CallOwes(c, r) /\ a # <<"call", c>>) \/ b = <<"call", c>>,
           ApiOwes(r)' => (ApiOwes(r) /\ a # <<"api", 0>>) \/ b = <<"api", 0>>,
           RowOwes(r)' => (RowOwes(r) /\ a # <<"row", 0>>) \/ b = <<"row", 0>>,
           WorkerOwes(r)' => (WorkerOwes(r) /\ a # <<"worker", 0>>) \/ b = <<"worker", 0>>
    PROVE  Passes(a, b, r)
<1> SUFFICES ASSUME NEW t \in Tokens, Owes(t, r)'
             PROVE  (Owes(t, r) /\ t # a) \/ t = b
  BY DEF Passes
<1>1. CASE \E i \in Nat : t = <<"tx", i>>
  BY <1>1 DEF Owes
<1>2. CASE \E c \in Calls : t = <<"call", c>>
  BY <1>2 DEF Owes
<1>3. CASE t = <<"api", 0>>
  BY <1>3 DEF Owes
<1>4. CASE t = <<"row", 0>>
  BY <1>4 DEF Owes
<1>5. CASE t = <<"worker", 0>>
  BY <1>5 DEF Owes
<1> QED BY <1>1, <1>2, <1>3, <1>4, <1>5 DEF Tokens

\* Something passes on as it should.
Settled(r) == \E a, b : Settles(a, b, r)

LEMMA PassedOn ==
    ASSUME PipelineInv, NEW r \in Rows, NEW a, NEW b, Passes(a, b, r),
           \/ /\ anchors'[r] = anchors[r] /\ warrants'[r] = warrants[r]
              /\ (r \in taken' <=> r \in taken)
              /\ a # Nothing \/ b = Nothing
           \/ /\ anchors'[r] = anchors[r] /\ warrants'[r] = warrants[r] + 1
              /\ (r \in taken' <=> r \in taken)
           \/ /\ anchors'[r] = anchors[r] /\ warrants'[r] = warrants[r]
              /\ r \notin taken /\ r \in taken'
           \/ /\ anchors'[r] = anchors[r] + 1 /\ warrants'[r] = warrants[r]
              /\ (r \in taken' <=> r \in taken)
              /\ a # Nothing /\ b = Nothing
    PROVE  Settled(r)
<1>1. anchors[r] \in Nat /\ warrants[r] \in Nat
  BY DEF PipelineInv, ChainInv, HistoryInv
<1>2. One(a) \in {0, 1} /\ One(b) \in {0, 1} /\ (a # Nothing => One(a) = 1) /\ (b = Nothing => One(b) = 0)
  BY DEF One
<1>3. anchors'[r] + One(b) + Allowed(r) <= Allowed(r)' + anchors[r] + One(a)
  BY <1>1, <1>2 DEF Allowed
<1> QED BY <1>3 DEF Settles, Settled

\* Every old transaction is as it was.
TxsKept == \A i \in DOMAIN txs : i \in DOMAIN txs' /\ txs'[i] = txs[i]

LEMMA WorkerKept ==
    ASSUME PipelineInv, TxsKept, worker' = worker, NEW r
    PROVE  /\ WorkerOwes(r)' => WorkerOwes(r)
           /\ scans'[r] = scans[r] /\ taken' = taken => (RowOwes(r)' => RowOwes(r))
<1>1. WorkerOK(worker)
  BY DEF PipelineInv, WorkerInv
<1>2. Current' = Current
  BY DEF Current
<1>3. worker.pc = "wait" /\ r \in DOMAIN worker.batch => txs'[worker.tx] = txs[worker.tx]
  BY <1>1 DEF WorkerOK, Sent, TxsKept
<1>4. worker.pc = "oneWait" => txs'[worker.tx] = txs[worker.tx]
  BY <1>1 DEF WorkerOK, Sent, TxsKept
<1> QED BY <1>2, <1>3, <1>4 DEF WorkerOwes, RowOwes

LEMMA CallKept ==
    ASSUME PipelineInv, TxsKept, NEW c \in Calls, NEW r, calls'[c] = calls[c], CallOwes(c, r)'
    PROVE  CallOwes(c, r)
<1>1. CallOK(calls[c])
  BY DEF PipelineInv, CallsInv
<1>2. calls[c].pc = "wait" => txs'[calls[c].tx] = txs[calls[c].tx]
  BY <1>1 DEF CallOK, Sent, TxsKept
<1> QED BY <1>2 DEF CallOwes

\* A transaction sent owes its rows; nothing else changes on the chain.
LEMMA SendsOwes ==
    ASSUME PipelineInv, NEW sigs, Sends(sigs)
    PROVE  /\ TxsKept /\ Len(txs') \in Nat /\ Len(txs') \notin DOMAIN txs
           /\ txs'[Len(txs')].status = "pending"
           /\ \A r, i : TxOwes(i, r)' => TxOwes(i, r) \/ (i = Len(txs') /\ r \in DOMAIN sigs)
<1> DEFINE tx == [sigs |-> sigs, status |-> "pending"]
<1>1. tx.sigs = sigs /\ tx.status = "pending"
  OBVIOUS
<1>2. txs' = Append(txs, tx) /\ txs \in Seq(TxState)
  BY DEF Sends, PipelineInv, ChainInv
<1> HIDE DEF tx
<1>3. txs \in Seq(TxState \cup {tx})
  BY <1>2
<1>4. /\ Len(txs') = Len(txs) + 1 /\ Len(txs) \in Nat
      /\ DOMAIN txs = 1..Len(txs) /\ DOMAIN txs' = 1..(Len(txs) + 1)
      /\ \A i \in 1..Len(txs) : txs'[i] = txs[i]
      /\ txs'[Len(txs) + 1] = tx
  BY <1>2, <1>3, AppendProperties, LenProperties
<1>5. TxsKept /\ Len(txs') \in Nat /\ Len(txs') \notin DOMAIN txs
  BY <1>4 DEF TxsKept
<1>6. txs'[Len(txs')].status = "pending"
  BY <1>1, <1>4
<1>7. ASSUME NEW r, NEW i, TxOwes(i, r)'
      PROVE  TxOwes(i, r) \/ (i = Len(txs') /\ r \in DOMAIN sigs)
  <2>1. i \in DOMAIN txs' /\ r \in DOMAIN txs'[i].sigs /\ txs'[i].status = "pending"
    BY <1>7 DEF TxOwes, Sent
  <2>2. CASE i \in 1..Len(txs)
    BY <1>4, <2>1, <2>2 DEF TxOwes, Sent
  <2>3. CASE i = Len(txs) + 1
    BY <1>1, <1>4, <2>1, <2>3
  <2> QED BY <1>4, <2>1, <2>2, <2>3
<1> QED BY <1>5, <1>6, <1>7

\* Nothing is sent.
LEMMA TxsSame ==
    ASSUME txs' = txs
    PROVE  TxsKept /\ \A i, r : TxOwes(i, r)' => TxOwes(i, r)
BY DEF TxsKept, TxOwes, Sent

\* Tokens are told apart by their kind.
LEMMA TokensAre ==
    /\ \A c \in Calls : <<"call", c>> \in Tokens /\ <<"call", c>> # Nothing
    /\ \A i \in Nat : <<"tx", i>> \in Tokens /\ <<"tx", i>> # Nothing
    /\ <<"api", 0>> \in Tokens /\ <<"row", 0>> \in Tokens /\ <<"worker", 0>> \in Tokens
    /\ <<"api", 0>> # Nothing /\ <<"row", 0>> # Nothing /\ <<"worker", 0>> # Nothing
BY DEF Tokens, Nothing

-----------------------------------------------------------------------------
(* What the steps of the API make of the account                           *)

\* A request is made, and entered.
LEMMA AskSettles ==
    ASSUME PipelineInv, NEW c \in Calls, NEW q \in Rows, NEW call, call.row = q,
           calls' = [calls EXCEPT ![c] = call],
           calls[c].pc = "free", Warrant({q}), anchors' = anchors, txs' = txs,
           worker' = worker, NEW r \in Rows,
           ApiOwes(r)' => ApiOwes(r), RowOwes(r)' => RowOwes(r)
    PROVE  Settled(r)
<1> DEFINE b == IF r = q THEN <<"call", c>> ELSE Nothing
<1>1. warrants'[r] = (IF r = q THEN warrants[r] + 1 ELSE warrants[r]) /\ taken' = taken
  BY DEF Warrant
<1>2. calls'[c] = call /\ \A d \in Calls : d # c => calls'[d] = calls[d]
  BY DEF PipelineInv, CallsInv
<1>3. \A d \in Calls : CallOwes(d, r)' => CallOwes(d, r) \/ b = <<"call", d>>
  <2> SUFFICES ASSUME NEW d \in Calls, CallOwes(d, r)' PROVE CallOwes(d, r) \/ b = <<"call", d>>
    OBVIOUS
  <2>1. CASE d = c
    BY <1>2, <2>1 DEF CallOwes
  <2>2. CASE d # c
    BY <1>2, <2>2, CallKept, TxsSame
  <2> QED BY <2>1, <2>2
<1> HIDE DEF b
<1>4. Passes(Nothing, b, r)
  BY <1>3, TokensAre, TxsSame, WorkerKept, PassesByKind
<1>5. /\ anchors' = anchors /\ taken' = taken
      /\ warrants'[r] = warrants[r] + 1 \/ (b = Nothing /\ warrants'[r] = warrants[r])
  <2>1. CASE r = q
    BY <1>1, <2>1
  <2>2. CASE r # q
    BY <1>1, <2>2 DEF b
  <2> QED BY <2>1, <2>2
<1> QED BY <1>4, <1>5, PassedOn

LEMMA ScanInsertSettles ==
    ASSUME PipelineInv, Present, NEW q \in Rows, ScanInsert(q), NEW r \in Rows
    PROVE  Settled(r)
<1>1. UNCHANGED <<worker, txs, anchors, taken>> /\ scans \in [Rows -> RowState]
  BY DEF ScanInsert, Warrant, history, PipelineInv, ScansInv
<1>2. RowOwes(r)' => RowOwes(r)
  <2>1. CASE scans' = scans
    BY <1>1, <2>1, WorkerKept, TxsSame
  <2>2. CASE SetState(q, "pending") /\ scans[q].state = "absent"
    <3>1. scans'[q].state = "pending" /\ (r # q => scans'[r] = scans[r])
      BY <1>1, <2>2 DEF SetState, RowState
    <3>2. CASE r = q
      <4>1. r \notin taken
        BY <2>2, <3>2 DEF Present
      <4> QED BY <1>1, <3>1, <3>2, <4>1 DEF RowOwes
    <3>3. CASE r # q
      BY <1>1, <3>1, <3>3, WorkerKept, TxsSame
    <3> QED BY <3>2, <3>3
  <2> QED BY <2>1, <2>2 DEF ScanInsert
<1>3. CASE api.auto
  <2> DEFINE call == [pc |-> "submit", row |-> q, sig |-> "server", tx |-> NoTx, auto |-> TRUE]
  <2>1. PICK c \in Calls : calls[c].pc = "free" /\ calls' = [calls EXCEPT ![c] = call]
    BY <1>3 DEF ScanInsert
  <2>2. Warrant({q}) /\ api' = api /\ call.row = q
    BY <1>3 DEF ScanInsert
  <2> HIDE DEF call
  <2>3. ApiOwes(r)' => ApiOwes(r)
    BY <2>2 DEF ApiOwes
  <2> QED BY <1>1, <1>2, <2>1, <2>2, <2>3, AskSettles
<1>4. CASE ~ api.auto
  <2>1. Enter("scan", q, "none") /\ UNCHANGED <<calls, warrants, taken>>
    BY <1>4 DEF ScanInsert, history
  <2>2. ~ ApiOwes(r)'
    BY <2>1 DEF Enter, ApiOwes, PipelineInv, ApiInv, ApiState
  <2>3. \A c \in Calls : CallOwes(c, r)' => CallOwes(c, r)
    BY <1>1, <2>1, CallKept, TxsSame
  <2>4. Passes(Nothing, Nothing, r)
    BY <1>1, <1>2, <2>2, <2>3, TokensAre, TxsSame, WorkerKept, PassesByKind
  <2> QED BY <1>1, <2>1, <2>4, PassedOn DEF history
<1> QED BY <1>3, <1>4

LEMMA ScanUnanchoredSettles ==
    ASSUME PipelineInv, ScanUnanchored, NEW r \in Rows
    PROVE  Settled(r)
<1>1. UNCHANGED <<calls, worker, txs, anchors, warrants, taken>> /\ scans \in [Rows -> RowState]
      /\ SetState(api.row, "unanchored") /\ api.row \in Rows
  BY DEF ScanUnanchored, PipelineInv, ScansInv, ApiInv, history
<1>2. scans'[api.row].state = "unanchored" /\ (r # api.row => scans'[r] = scans[r])
  BY <1>1 DEF SetState, RowState
<1>3. RowOwes(r)' => RowOwes(r)
  BY <1>1, <1>2, WorkerKept, TxsSame DEF RowOwes
<1>4. ~ ApiOwes(r)'
  BY DEF ScanUnanchored, Leave, Enter, ApiOwes, PipelineInv, ApiInv, ApiState
<1>5. \A c \in Calls : CallOwes(c, r)' => CallOwes(c, r)
  BY <1>1, CallKept, TxsSame
<1>6. Passes(Nothing, Nothing, r)
  BY <1>1, <1>3, <1>4, <1>5, TokensAre, TxsSame, WorkerKept, PassesByKind
<1> QED BY <1>1, <1>6, PassedOn DEF history

LEMMA AnchorRequestSettles ==
    ASSUME PipelineInv, NEW c \in Calls, NEW q \in Rows, NEW sig, AnchorRequest(c, q, sig),
           NEW r \in Rows
    PROVE  Settled(r)
<1> DEFINE call == [pc |-> "submit", row |-> q, sig |-> sig, tx |-> NoTx, auto |-> FALSE]
<1>1. /\ UNCHANGED <<scans, api, worker, txs, anchors, taken>> /\ Warrant({q})
      /\ calls[c].pc = "free" /\ calls' = [calls EXCEPT ![c] = call] /\ call.row = q
  BY DEF AnchorRequest, Warrant
<1> HIDE DEF call
<1>2. (ApiOwes(r)' => ApiOwes(r)) /\ (RowOwes(r)' => RowOwes(r))
  BY <1>1, WorkerKept, TxsSame DEF ApiOwes
<1> QED BY <1>1, <1>2, AskSettles

\* One request moves on, and nothing but the chain and the table with it.
LEMMA CallPasses ==
    ASSUME PipelineInv, NEW c \in Calls, \A d \in Calls : d # c => calls'[d] = calls[d],
           TxsKept, UNCHANGED <<api, worker>>, NEW r \in Rows, NEW a, NEW b,
           a \in {Nothing, <<"call", c>>},
           a = Nothing \/ CallOwes(c, r),
           CallOwes(c, r)' => (a = Nothing /\ CallOwes(c, r)) \/ b = <<"call", c>>,
           \A i \in Nat : TxOwes(i, r)' => TxOwes(i, r) \/ b = <<"tx", i>>,
           RowOwes(r)' => RowOwes(r) \/ b = <<"row", 0>>
    PROVE  Passes(a, b, r)
<1>1. \A d \in Calls : d # c => calls'[d] = calls[d]
  OBVIOUS
<1>2. ASSUME NEW d \in Calls, CallOwes(d, r)'
      PROVE  (CallOwes(d, r) /\ a # <<"call", d>>) \/ b = <<"call", d>>
  <2>1. CASE d = c
    BY <1>2, <2>1, TokensAre
  <2>2. CASE d # c
    <3>1. CallOwes(d, r)
      BY <1>1, <1>2, <2>2, CallKept
    <3>2. a # <<"call", d>>
      BY <2>2, TokensAre
    <3> QED BY <3>1, <3>2
  <2> QED BY <2>1, <2>2
<1>3. a = Nothing \/ (a \in Tokens /\ Owes(a, r))
  BY TokensAre DEF Owes
<1>4. \A i \in Nat : a # <<"tx", i>>
  BY TokensAre
<1>5. a # <<"api", 0>> /\ a # <<"row", 0>> /\ a # <<"worker", 0>>
  BY TokensAre
<1>6. (WorkerOwes(r)' => WorkerOwes(r)) /\ (ApiOwes(r)' => ApiOwes(r))
  BY WorkerKept DEF ApiOwes
<1> QED BY <1>2, <1>3, <1>4, <1>5, <1>6, PassesByKind

LEMMA CallSubmitSettles ==
    ASSUME PipelineInv, NEW c \in Calls, CallSubmit(c), NEW r \in Rows
    PROVE  Settled(r)
<1>1. UNCHANGED <<scans, api, worker, anchors, warrants, taken>> /\ calls[c].pc = "submit"
  BY DEF CallSubmit, history
<1>2. calls[c] \in CallState /\ calls \in [Calls -> CallState]
  BY DEF PipelineInv, CallsInv
<1>3. CASE Sends(CallSigs(c)) /\ calls' = [calls EXCEPT ![c].pc = "wait", ![c].tx = Len(txs')]
  <2> DEFINE call == [calls[c] EXCEPT !.pc = "wait", !.tx = Len(txs')]
             b == IF r = calls[c].row THEN <<"tx", Len(txs')>> ELSE Nothing
             a == IF r = calls[c].row THEN <<"call", c>> ELSE Nothing
  <2>1. call.pc = "wait" /\ call.tx = Len(txs') /\ call.row = calls[c].row
    BY <1>2 DEF CallState
  <2>2. calls' = [calls EXCEPT ![c] = call]
    BY <1>3
  <2> HIDE DEF call
  <2>3. calls'[c] = call /\ \A d \in Calls : d # c => calls'[d] = calls[d]
    BY <1>2, <2>2
  <2>4. /\ TxsKept /\ Len(txs') \in Nat /\ txs'[Len(txs')].status = "pending"
        /\ \A i : TxOwes(i, r)' => TxOwes(i, r) \/ (i = Len(txs') /\ r \in DOMAIN CallSigs(c))
    BY <1>3, SendsOwes
  <2>5. ~ CallOwes(c, r)'
    BY <2>1, <2>3, <2>4 DEF CallOwes
  <2>6. DOMAIN CallSigs(c) = {calls[c].row}
    BY DEF CallSigs
  <2>7. \A i \in Nat : TxOwes(i, r)' => TxOwes(i, r) \/ b = <<"tx", i>>
    BY <2>4, <2>6
  <2>8. RowOwes(r)' => RowOwes(r)
    BY <1>1, <2>4, WorkerKept
  <2>9. a \in {Nothing, <<"call", c>>} /\ (a = Nothing \/ CallOwes(c, r)) /\ (a # Nothing \/ b = Nothing)
    BY <1>1, TokensAre DEF CallOwes
  <2> HIDE DEF a, b
  <2>10. UNCHANGED <<api, worker>>
    BY <1>1
  <2>11. Passes(a, b, r)
    BY <2>3, <2>4, <2>5, <2>7, <2>8, <2>9, <2>10, CallPasses
  <2> QED BY <1>1, <2>9, <2>11, PassedOn DEF history
<1>4. CASE txs' = txs /\ calls' = [calls EXCEPT ![c].pc = "catch"]
  <2> DEFINE call == [calls[c] EXCEPT !.pc = "catch"]
  <2>1. call.row = calls[c].row /\ calls' = [calls EXCEPT ![c] = call]
    BY <1>2, <1>4 DEF CallState
  <2> HIDE DEF call
  <2>2. calls'[c] = call /\ \A d \in Calls : d # c => calls'[d] = calls[d]
    BY <1>2, <2>1
  <2>3. CallOwes(c, r)' => CallOwes(c, r)
    BY <1>1, <2>1, <2>2 DEF CallOwes
  <2>4. Passes(Nothing, Nothing, r)
    BY <1>1, <1>4, <2>2, <2>3, CallPasses, TxsSame, WorkerKept
  <2> QED BY <1>1, <2>4, PassedOn DEF history
<1> QED BY <1>3, <1>4 DEF CallSubmit, SendsOne, ThrowsOne, Throws

\* A request is served: it owes nothing any more.
LEMMA ServedSettles ==
    ASSUME PipelineInv, NEW c \in Calls, calls' = [calls EXCEPT ![c] = Served],
           UNCHANGED <<api, worker, txs, anchors, warrants, taken>>, NEW r \in Rows,
           \/ RowOwes(r)' => RowOwes(r)
           \/ CallOwes(c, r)
    PROVE  Settled(r)
<1>1. calls'[c].pc = "done" /\ \A d \in Calls : d # c => calls'[d] = calls[d]
  BY DEF PipelineInv, CallsInv, Served, Waiting
<1>2. ~ CallOwes(c, r)'
  BY <1>1 DEF CallOwes
<1>3. CASE RowOwes(r)' => RowOwes(r)
  <2>1. Passes(Nothing, Nothing, r)
    BY <1>1, <1>2, <1>3, CallPasses, TxsSame
  <2> QED BY <2>1, PassedOn DEF history
<1>4. CASE CallOwes(c, r)
  <2>1. Passes(<<"call", c>>, <<"row", 0>>, r)
    BY <1>1, <1>2, <1>4, CallPasses, TxsSame
  <2> QED BY <2>1, PassedOn, TokensAre DEF history
<1> QED BY <1>3, <1>4

LEMMA CallRecordSettles ==
    ASSUME PipelineInv, NEW c \in Calls, CallRecord(c), NEW r \in Rows
    PROVE  Settled(r)
<1>1. /\ UNCHANGED <<api, worker, txs, anchors, warrants, taken>> /\ calls[c].pc = "wait"
      /\ calls' = [calls EXCEPT ![c] = Served] /\ Mined(calls[c].tx)
      /\ MarkAnchored(calls[c].row, calls[c].tx, StateOf(calls[c].tx))
  BY DEF CallRecord, history
<1>2. CASE r # calls[c].row
  <2>1. scans'[r] = scans[r]
    BY <1>1, <1>2, OtherRow
  <2> QED BY <1>1, <2>1, WorkerKept, TxsSame, ServedSettles
<1>3. CASE r = calls[c].row
  <2>1. scans'[r].state = StateOf(calls[c].tx)
    BY <1>1, <1>3, ThisRow
  <2>2. txs[calls[c].tx].status \in {"pending", "success", "reverted"}
    <3>1. calls[c].tx \in DOMAIN txs /\ txs \in Seq(TxState)
      BY <1>1 DEF PipelineInv, CallsInv, CallOK, ChainInv, Sent
    <3>2. txs[calls[c].tx] \in TxState
      BY <3>1
    <3> QED BY <3>2 DEF TxState
  <2>3. CASE txs[calls[c].tx].status = "reverted"
    BY <1>1, <1>3, <2>3, ServedSettles DEF CallOwes
  <2>4. CASE txs[calls[c].tx].status = "success"
    BY <1>1, <2>1, <2>4, ServedSettles DEF RowOwes, StateOf
  <2> QED BY <1>1, <2>2, <2>3, <2>4 DEF Mined
<1> QED BY <1>2, <1>3

LEMMA CallGivesUpSettles ==
    ASSUME PipelineInv, NEW c \in Calls, CallGivesUp(c), NEW r \in Rows
    PROVE  Settled(r)
<1> DEFINE call == [calls[c] EXCEPT !.pc = "catch"]
           b == IF r = calls[c].row THEN <<"call", c>> ELSE Nothing
<1>1. /\ UNCHANGED <<scans, api, worker, txs, anchors, taken>> /\ Warrant({calls[c].row})
      /\ calls' = [calls EXCEPT ![c] = call] /\ calls \in [Calls -> CallState]
  BY DEF CallGivesUp, Warrant, PipelineInv, CallsInv
<1>2. call.row = calls[c].row /\ calls'[c] = call /\ \A d \in Calls : d # c => calls'[d] = calls[d]
  BY <1>1 DEF CallState
<1> HIDE DEF call
<1>3. CallOwes(c, r)' => b = <<"call", c>>
  BY <1>2 DEF CallOwes
<1>4. warrants'[r] = IF r = calls[c].row THEN warrants[r] + 1 ELSE warrants[r]
  BY <1>1 DEF Warrant
<1>5. b = Nothing \/ warrants'[r] = warrants[r] + 1
  BY <1>4
<1>6. warrants'[r] = warrants[r] + 1 \/ warrants'[r] = warrants[r]
  BY <1>4
<1> HIDE DEF b
<1>7. Passes(Nothing, b, r)
  BY <1>1, <1>2, <1>3, CallPasses, TxsSame, WorkerKept
<1> QED BY <1>1, <1>5, <1>6, <1>7, PassedOn

LEMMA CallCatchSettles ==
    ASSUME PipelineInv, NEW c \in Calls, CallCatch(c), NEW r \in Rows
    PROVE  Settled(r)
<1>1. /\ UNCHANGED <<api, worker, txs, anchors, warrants, taken>> /\ calls[c].pc = "catch"
      /\ calls' = [calls EXCEPT ![c] = Served]
  BY DEF CallCatch, history
<1>2. CASE calls[c].auto \/ r # calls[c].row
  <2>1. scans'[r] = scans[r]
    BY <1>2, OtherRow DEF CallCatch
  <2> QED BY <1>1, <2>1, WorkerKept, TxsSame, ServedSettles
<1>3. CASE ~ calls[c].auto /\ r = calls[c].row
  BY <1>1, <1>3, ServedSettles DEF CallOwes
<1> QED BY <1>2, <1>3

\* The handler moves on, and the table with it.
LEMMA HandlerPasses ==
    ASSUME PipelineInv, UNCHANGED <<calls, worker, txs>>, NEW r \in Rows, NEW a, NEW b,
           a \in {Nothing, <<"api", 0>>},
           a = Nothing \/ ApiOwes(r),
           ApiOwes(r)' => b = <<"api", 0>>,
           RowOwes(r)' => RowOwes(r) \/ b = <<"row", 0>>
    PROVE  Passes(a, b, r)
<1>1. a = Nothing \/ (a \in Tokens /\ Owes(a, r))
  BY TokensAre DEF Owes
<1>2. a # <<"row", 0>> /\ a # <<"worker", 0>> /\ (\A i \in Nat : a # <<"tx", i>>)
      /\ (\A c \in Calls : a # <<"call", c>>)
  BY TokensAre
<1>3. \A c \in Calls : CallOwes(c, r)' => CallOwes(c, r)
  BY CallKept, TxsSame
<1>4. WorkerOwes(r)' => WorkerOwes(r)
  BY WorkerKept, TxsSame
<1> QED BY <1>1, <1>2, <1>3, <1>4, TxsSame, PassesByKind

LEMMA QueueReadSettles ==
    ASSUME PipelineInv, NEW q \in Rows, NEW sig, QueueRead(q, sig), NEW r \in Rows
    PROVE  Settled(r)
<1> DEFINE b == IF r = q THEN <<"api", 0>> ELSE Nothing
<1>1. UNCHANGED <<scans, calls, worker, txs, anchors, taken>> /\ Warrant({q})
  BY DEF QueueRead, Warrant
<1>2. api'.row = q
  BY DEF QueueRead, Enter, PipelineInv, ApiInv, ApiState
<1>3. ApiOwes(r)' => b = <<"api", 0>>
  BY <1>2 DEF ApiOwes
<1>4. /\ b = Nothing \/ warrants'[r] = warrants[r] + 1
      /\ warrants'[r] = warrants[r] + 1 \/ warrants'[r] = warrants[r]
  BY <1>1 DEF Warrant
<1> HIDE DEF b
<1>5. Passes(Nothing, b, r)
  BY <1>1, <1>3, HandlerPasses, TxsSame, WorkerKept
<1> QED BY <1>1, <1>4, <1>5, PassedOn

LEMMA QueueWriteSettles ==
    ASSUME PipelineInv, QueueWrite, NEW r \in Rows
    PROVE  Settled(r)
<1>1. /\ UNCHANGED <<calls, worker, txs, anchors, warrants, taken>> /\ api.op = "queue"
      /\ QueueScan(api.row, api.sig) /\ scans \in [Rows -> RowState]
  BY DEF QueueWrite, PipelineInv, ScansInv, history
<1>2. ~ ApiOwes(r)'
  BY DEF QueueWrite, Leave, Enter, ApiOwes, PipelineInv, ApiInv, ApiState
<1>3. CASE r = api.row
  <2>1. Passes(<<"api", 0>>, <<"row", 0>>, r)
    BY <1>1, <1>2, <1>3, HandlerPasses DEF ApiOwes
  <2> QED BY <1>1, <2>1, PassedOn, TokensAre DEF history
<1>4. CASE r # api.row
  <2>1. scans'[r] = scans[r]
    BY <1>1, <1>4 DEF QueueScan
  <2>2. Passes(Nothing, Nothing, r)
    BY <1>1, <1>2, <2>1, HandlerPasses, WorkerKept, TxsSame
  <2> QED BY <1>1, <2>2, PassedOn DEF history
<1> QED BY <1>3, <1>4

LEMMA ApiCrashSettles ==
    ASSUME PipelineInv, ApiCrash, NEW r \in Rows
    PROVE  Settled(r)
<1>1. UNCHANGED <<scans, worker, txs, anchors, warrants, taken>>
      /\ calls' = [c \in Calls |-> IF calls[c].pc = "free" THEN calls[c] ELSE Served]
  BY DEF ApiCrash, history
<1>2. ~ ApiOwes(r)'
  BY DEF ApiCrash, Leave, Enter, ApiOwes, PipelineInv, ApiInv, ApiState
<1>3. \A c \in Calls : ~ CallOwes(c, r)'
  BY <1>1 DEF CallOwes, Served, Waiting
<1>4. (WorkerOwes(r)' => WorkerOwes(r)) /\ (RowOwes(r)' => RowOwes(r))
  BY <1>1, WorkerKept, TxsSame
<1>5. Passes(Nothing, Nothing, r)
  BY <1>1, <1>2, <1>3, <1>4, TokensAre, TxsSame, PassesByKind
<1> QED BY <1>1, <1>5, PassedOn DEF history

-----------------------------------------------------------------------------
(* What the steps of the worker make of the account                        *)

LEMMA WorkerPasses ==
    ASSUME PipelineInv, UNCHANGED <<api, calls>>, TxsKept, NEW r \in Rows, NEW a, NEW b,
           \/ a = Nothing
           \/ a = <<"row", 0>> /\ RowOwes(r)
           \/ a = <<"worker", 0>> /\ WorkerOwes(r),
           \A i \in Nat : TxOwes(i, r)' => TxOwes(i, r) \/ b = <<"tx", i>>,
           RowOwes(r)' => (RowOwes(r) /\ a # <<"row", 0>>) \/ b = <<"row", 0>>,
           WorkerOwes(r)' => (WorkerOwes(r) /\ a # <<"worker", 0>>) \/ b = <<"worker", 0>>
    PROVE  Passes(a, b, r)
<1>1. a = Nothing \/ (a \in Tokens /\ Owes(a, r))
  BY TokensAre DEF Owes
<1>2. a # <<"api", 0>> /\ (\A i \in Nat : a # <<"tx", i>>) /\ (\A c \in Calls : a # <<"call", c>>)
  BY TokensAre
<1>3. (\A c \in Calls : CallOwes(c, r)' => CallOwes(c, r)) /\ (ApiOwes(r)' => ApiOwes(r))
  BY CallKept DEF ApiOwes
<1> QED BY <1>1, <1>2, <1>3, PassesByKind

\* What the steps of the worker have in common.
LEMMA WorkerStands ==
    ASSUME PipelineInv, UNCHANGED <<api, calls, txs, anchors, warrants>>, NEW r \in Rows,
           r \in taken' <=> r \in taken,
           RowOwes(r)' => RowOwes(r), WorkerOwes(r)' => WorkerOwes(r)
    PROVE  Settled(r)
<1>1. Passes(Nothing, Nothing, r)
  BY TxsSame, TokensAre, WorkerPasses
<1> QED BY <1>1, PassedOn

\* It takes a row it is owed, or finds one 'pending' for the first time.
LEMMA WorkerTakes ==
    ASSUME PipelineInv, UNCHANGED <<api, calls, txs, anchors, warrants>>, NEW r \in Rows,
           ~ RowOwes(r)',
           \/ RowOwes(r) /\ (r \in taken' <=> r \in taken)
           \/ r \notin taken /\ r \in taken'
    PROVE  Settled(r)
<1>1. CASE RowOwes(r) /\ (r \in taken' <=> r \in taken)
  <2>1. Passes(<<"row", 0>>, <<"worker", 0>>, r)
    BY <1>1, TxsSame, TokensAre, WorkerPasses
  <2> QED BY <1>1, <2>1, TokensAre, PassedOn
<1>2. CASE r \notin taken /\ r \in taken'
  <2>1. Passes(Nothing, <<"worker", 0>>, r)
    BY <1>2, TxsSame, TokensAre, WorkerPasses
  <2> QED BY <1>2, <2>1, PassedOn
<1> QED BY <1>1, <1>2

LEMMA WorkerPutsBack ==
    ASSUME PipelineInv, UNCHANGED <<api, calls, txs, anchors, taken>>, NEW r \in Rows,
           ~ WorkerOwes(r)',
           \/ WorkerOwes(r) /\ warrants'[r] = warrants[r]
           \/ warrants'[r] = warrants[r] + 1
    PROVE  Settled(r)
<1>1. CASE WorkerOwes(r) /\ warrants'[r] = warrants[r]
  <2>1. Passes(<<"worker", 0>>, <<"row", 0>>, r)
    BY <1>1, TxsSame, TokensAre, WorkerPasses
  <2> QED BY <1>1, <2>1, TokensAre, PassedOn
<1>2. CASE warrants'[r] = warrants[r] + 1
  <2>1. Passes(Nothing, <<"row", 0>>, r)
    BY <1>2, TxsSame, TokensAre, WorkerPasses
  <2> QED BY <1>2, <2>1, PassedOn
<1> QED BY <1>1, <1>2

\* The fields of the worker a step leaves alone are a matter of its type.
LEMMA WorkerTyped ==
    ASSUME PipelineInv
    PROVE  /\ worker \in WorkerState /\ worker.todo \subseteq DOMAIN worker.batch
           /\ worker.todo \subseteq Rows
           /\ worker.pc \in {"one", "oneWait", "poison"} => Current \in worker.todo
BY CurrentIsLeft DEF PipelineInv, WorkerInv, WorkerOK, WorkerState

\* Rows in a batch are waiting to be anchored.
LEMMA BatchWaits ==
    /\ \A r \in Batch : scans[r].state \in {"pending", "queued", "failed"}
    /\ \A r \in QueuedScans(BATCH_MAX) : scans[r].state \in {"queued", "failed"}
BY DEF Batch, QueuedScans, PendingScans, FirstOf

LEMMA SelectSettles == ASSUME PipelineInv, Select, NEW r \in Rows PROVE Settled(r)
<1>1. /\ UNCHANGED <<scans, api, calls, txs, anchors, warrants>> /\ worker.pc = "idle"
      /\ worker \in WorkerState
      /\ r \in taken' <=> r \in taken \/ (r \in Batch /\ scans[r].state = "pending")
  BY WorkerTyped DEF Select
<1>2. \/ worker'.pc = "idle" /\ Batch = {}
      \/ worker'.pc = "mark" /\ worker'.todo = Batch /\ Batch # {}
  BY <1>1 DEF Select, WorkerState
<1>3. CASE r \in Batch
  <2>1. ~ RowOwes(r)'
    BY <1>2, <1>3 DEF RowOwes
  <2>2. \/ RowOwes(r) /\ (r \in taken' <=> r \in taken)
        \/ r \notin taken /\ r \in taken'
    BY <1>1, <1>3, BatchWaits DEF RowOwes
  <2> QED BY <1>1, <2>1, <2>2, WorkerTakes
<1>4. CASE r \notin Batch
  <2>1. r \in taken' <=> r \in taken
    BY <1>1, <1>4
  <2>2. RowOwes(r)' => RowOwes(r)
    BY <1>1, <1>2, <1>4, <2>1 DEF RowOwes
  <2>3. ~ WorkerOwes(r)'
    <3>1. CASE worker'.pc = "idle"
      BY <3>1 DEF WorkerOwes
    <3>2. CASE Batch # {}
      <4>1. worker' = [worker EXCEPT !.pc = "mark", !.todo = Batch,
                                     !.batch = [q \in Batch |-> InputOf(q)]]
        BY <3>2 DEF Select
      <4>2. worker'.pc = "mark" /\ DOMAIN worker'.batch = Batch
        BY <1>1, <4>1 DEF WorkerState
      <4> QED BY <1>4, <4>2 DEF WorkerOwes
    <3> QED BY <1>2, <3>1, <3>2
  <2> QED BY <1>1, <2>1, <2>2, <2>3, WorkerStands
<1> QED BY <1>3, <1>4

LEMMA MarkSentSettles ==
    ASSUME PipelineInv, NEW q \in Rows, MarkSent(q), NEW r \in Rows PROVE Settled(r)
<1>1. /\ UNCHANGED <<api, calls, txs, anchors, warrants, taken>> /\ worker.pc = "mark"
      /\ q \in worker.todo /\ SetState(q, "sent") /\ worker \in WorkerState
      /\ worker' = [worker EXCEPT !.todo = @ \ {q},
                                  !.pc = IF worker.todo = {q} THEN "submit" ELSE @]
  BY WorkerTyped DEF MarkSent, OneRow, history
<1>2. /\ worker'.pc = IF worker.todo = {q} THEN "submit" ELSE "mark"
      /\ worker'.todo = worker.todo \ {q} /\ worker'.batch = worker.batch
  BY <1>1 DEF WorkerState
<1>3. WorkerOwes(r)' => WorkerOwes(r)
  BY <1>1, <1>2 DEF WorkerOwes
<1>4. RowOwes(r)' => RowOwes(r)
  <2>1. CASE r = q
    BY <1>1, <2>1, ThisRow DEF RowOwes
  <2>2. CASE r # q
    <3>1. scans'[r] = scans[r]
      BY <1>1, <2>2, OtherRow
    <3> QED BY <1>1, <1>2, <2>2, <3>1 DEF RowOwes
  <2> QED BY <2>1, <2>2
<1> QED BY <1>1, <1>3, <1>4, WorkerStands DEF history

LEMMA SubmitBatchSettles == ASSUME PipelineInv, SubmitBatch, NEW r \in Rows PROVE Settled(r)
<1>1. UNCHANGED <<scans, api, calls, anchors, warrants, taken>> /\ worker.pc = "submit" /\ worker \in WorkerState
  BY WorkerTyped DEF SubmitBatch, history
<1>2. CASE Sends(worker.batch) /\ worker' = [worker EXCEPT !.pc = "wait", !.tx = Len(txs')]
  <2> DEFINE b == IF r \in DOMAIN worker.batch THEN <<"tx", Len(txs')>> ELSE Nothing
             a == IF r \in DOMAIN worker.batch THEN <<"worker", 0>> ELSE Nothing
  <2>1. worker'.pc = "wait" /\ worker'.tx = Len(txs')
    BY <1>1, <1>2 DEF WorkerState
  <2>2. /\ TxsKept /\ txs'[Len(txs')].status = "pending"
        /\ \A i : TxOwes(i, r)' => TxOwes(i, r) \/ (i = Len(txs') /\ r \in DOMAIN worker.batch)
    BY <1>2, SendsOwes
  <2>3. ~ WorkerOwes(r)' /\ (RowOwes(r)' => RowOwes(r))
    BY <1>1, <2>1, <2>2 DEF WorkerOwes, RowOwes
  <2>4. /\ a # Nothing \/ b = Nothing
        /\ a = Nothing \/ (a = <<"worker", 0>> /\ WorkerOwes(r))
        /\ a # <<"row", 0>>
    BY <1>1, TokensAre DEF WorkerOwes
  <2>5. \A i \in Nat : TxOwes(i, r)' => TxOwes(i, r) \/ b = <<"tx", i>>
    BY <2>2
  <2> HIDE DEF a, b
  <2>6. UNCHANGED <<api, calls>>
    BY <1>1
  <2>7. Passes(a, b, r)
    BY <2>2, <2>3, <2>4, <2>5, <2>6, WorkerPasses
  <2> QED BY <1>1, <2>4, <2>7, PassedOn DEF history
<1>3. CASE txs' = txs /\ worker' = [worker EXCEPT !.pc = "fail", !.todo = DOMAIN worker.batch]
  <2>1. worker'.pc = "fail" /\ worker'.todo = DOMAIN worker.batch
    BY <1>1, <1>3 DEF WorkerState
  <2>2. (WorkerOwes(r)' => WorkerOwes(r)) /\ (RowOwes(r)' => RowOwes(r))
    BY <1>1, <2>1 DEF WorkerOwes, RowOwes
  <2> QED BY <1>1, <1>3, <2>2, WorkerStands DEF history
<1> QED BY <1>2, <1>3 DEF SubmitBatch, Throws

\* What the worker waits for was mined one way or the other.
LEMMA MinedEitherWay ==
    ASSUME PipelineInv, NEW i \in DOMAIN txs
    PROVE  txs[i].status \in {"pending", "success", "reverted"}
<1>1. txs[i] \in TxState
  BY DEF PipelineInv, ChainInv
<1> QED BY <1>1 DEF TxState

LEMMA BatchMinedSettles == ASSUME PipelineInv, BatchMined, NEW r \in Rows PROVE Settled(r)
<1>1. /\ UNCHANGED <<scans, api, calls, txs, anchors, warrants, taken>> /\ worker.pc = "wait"
      /\ Mined(worker.tx) /\ worker \in WorkerState
      /\ worker' = [worker EXCEPT !.pc = "record", !.todo = DOMAIN worker.batch,
                                  !.outcome = StateOf(worker.tx)]
  BY WorkerTyped DEF BatchMined, history
<1>2. worker'.pc = "record" /\ worker'.todo = DOMAIN worker.batch
      /\ worker'.outcome = StateOf(worker.tx)
  BY <1>1 DEF WorkerState
<1>3. ASSUME r \in DOMAIN worker.batch PROVE worker.tx \in DOMAIN txs
  BY <1>1, <1>3 DEF PipelineInv, WorkerInv, WorkerOK, Sent
<1>4. WorkerOwes(r)' => WorkerOwes(r)
  BY <1>1, <1>2, <1>3, MinedEitherWay DEF WorkerOwes, StateOf, Mined
<1>5. RowOwes(r)' => RowOwes(r)
  BY <1>1, <1>2 DEF RowOwes
<1> QED BY <1>1, <1>4, <1>5, WorkerStands DEF history

LEMMA BatchGivesUpSettles == ASSUME PipelineInv, BatchGivesUp, NEW r \in Rows PROVE Settled(r)
<1> DEFINE b == IF r \in DOMAIN worker.batch THEN <<"worker", 0>> ELSE Nothing
<1>1. /\ UNCHANGED <<scans, api, calls, txs, anchors, taken>> /\ worker.pc = "wait"
      /\ worker' = [worker EXCEPT !.pc = "fail", !.todo = DOMAIN worker.batch]
      /\ Warrant(DOMAIN worker.batch) /\ worker \in WorkerState
  BY WorkerTyped DEF BatchGivesUp, Warrant
<1>2. worker'.pc = "fail" /\ worker'.todo = DOMAIN worker.batch
  BY <1>1 DEF WorkerState
<1>3. (RowOwes(r)' => RowOwes(r)) /\ (WorkerOwes(r)' => b = <<"worker", 0>>)
  BY <1>1, <1>2 DEF RowOwes, WorkerOwes
<1>4. /\ b = Nothing \/ warrants'[r] = warrants[r] + 1
      /\ warrants'[r] = warrants[r] + 1 \/ warrants'[r] = warrants[r]
  BY <1>1 DEF Warrant
<1> HIDE DEF b
<1>5. Passes(Nothing, b, r)
  BY <1>1, <1>3, TxsSame, TokensAre, WorkerPasses
<1> QED BY <1>1, <1>4, <1>5, PassedOn

LEMMA RecordRowSettles ==
    ASSUME PipelineInv, NEW q \in Rows, RecordRow(q), NEW r \in Rows PROVE Settled(r)
<1>1. /\ UNCHANGED <<api, calls, txs, anchors, warrants, taken>> /\ worker.pc = "record"
      /\ q \in worker.todo /\ MarkAnchored(q, worker.tx, worker.outcome)
      /\ worker' = IF worker.todo = {q} THEN Resting ELSE [worker EXCEPT !.todo = @ \ {q}]
      /\ worker \in WorkerState
  BY WorkerTyped DEF RecordRow, history
<1>2. \/ worker'.pc = "idle" /\ worker.todo = {q}
      \/ worker'.pc = "record" /\ worker'.todo = worker.todo \ {q} /\ worker'.outcome = worker.outcome
  BY <1>1 DEF WorkerState, Resting
<1>3. CASE r # q
  <2>1. scans'[r] = scans[r]
    BY <1>1, <1>3, OtherRow
  <2>2. (RowOwes(r)' => RowOwes(r)) /\ (WorkerOwes(r)' => WorkerOwes(r))
    BY <1>1, <1>2, <2>1 DEF RowOwes, WorkerOwes
  <2> QED BY <1>1, <2>2, WorkerStands DEF history
<1>4. CASE r = q
  <2>1. ~ WorkerOwes(r)' /\ scans'[r].state = worker.outcome
    BY <1>1, <1>2, <1>4, ThisRow DEF WorkerOwes
  <2>2. CASE worker.outcome = "failed"
    BY <1>1, <1>4, <2>1, <2>2, WorkerPutsBack DEF WorkerOwes, history
  <2>3. CASE worker.outcome # "failed"
    <3>1. worker.outcome = "confirmed"
      BY <1>1, <2>3 DEF PipelineInv, WorkerInv, WorkerOK, WorkerState
    <3>2. ~ RowOwes(r)'
      BY <2>1, <3>1 DEF RowOwes
    <3> QED BY <1>1, <2>1, <3>2, WorkerStands DEF history
  <2> QED BY <2>2, <2>3
<1> QED BY <1>3, <1>4

LEMMA FailRowSettles ==
    ASSUME PipelineInv, NEW q \in Rows, FailRow(q), NEW r \in Rows PROVE Settled(r)
<1>1. /\ UNCHANGED <<api, calls, txs, anchors, warrants, taken>> /\ worker.pc = "fail"
      /\ q \in worker.todo /\ SetState(q, "failed") /\ worker \in WorkerState
      /\ worker' = IF worker.todo # {q} THEN [worker EXCEPT !.todo = @ \ {q}]
                   ELSE AfterFailure(worker.fails + 1 >= POISON_AFTER)
  BY WorkerTyped DEF FailRow, history
<1>2. \/ worker'.pc \in {"idle", "isolate"} /\ worker.todo = {q}
      \/ worker'.pc = "fail" /\ worker'.todo = worker.todo \ {q}
  <2>1. CASE worker.todo # {q}
    BY <1>1, <2>1 DEF WorkerState
  <2>2. CASE worker.todo = {q}
    <3>1. worker' = [Resting EXCEPT !.fails = worker.fails + 1,
                       !.pc = IF worker.fails + 1 >= POISON_AFTER THEN "isolate" ELSE "idle"]
      BY <1>1, <2>2 DEF AfterFailure
    <3> QED BY <2>2, <3>1 DEF Resting
  <2> QED BY <2>1, <2>2
<1>3. CASE r # q
  <2>1. scans'[r] = scans[r]
    BY <1>1, <1>3, OtherRow
  <2>2. (RowOwes(r)' => RowOwes(r)) /\ (WorkerOwes(r)' => WorkerOwes(r))
    BY <1>1, <1>2, <2>1 DEF RowOwes, WorkerOwes
  <2> QED BY <1>1, <2>2, WorkerStands DEF history
<1>4. CASE r = q
  <2>1. ~ WorkerOwes(r)'
    BY <1>1, <1>2, <1>4 DEF WorkerOwes
  <2> QED BY <1>1, <1>4, <2>1, WorkerPutsBack DEF WorkerOwes, history
<1> QED BY <1>3, <1>4

LEMMA IsolateSettles == ASSUME PipelineInv, Isolate, NEW r \in Rows PROVE Settled(r)
<1> DEFINE rows == QueuedScans(BATCH_MAX)
<1>1. /\ UNCHANGED <<scans, api, calls, txs, anchors, warrants, taken>> /\ worker.pc = "isolate"
      /\ worker \in WorkerState
      /\ worker' = IF rows = {} THEN Resting
                   ELSE [worker EXCEPT !.pc = "one", !.todo = rows,
                           !.batch = [q \in rows |-> InputOf(q)]]
  BY WorkerTyped DEF Isolate, history
<1>2. \A q \in rows : scans[q].state \in {"queued", "failed"}
  BY BatchWaits
<1> HIDE DEF rows
<1>3. \/ worker'.pc = "idle" /\ rows = {}
      \/ worker'.pc = "one" /\ worker'.todo = rows
  BY <1>1 DEF WorkerState, Resting
<1>4. CASE r \in rows
  <2>1. ~ RowOwes(r)' /\ RowOwes(r)
    BY <1>1, <1>2, <1>3, <1>4 DEF RowOwes
  <2> QED BY <1>1, <2>1, WorkerTakes DEF history
<1>5. CASE r \notin rows
  <2>1. (RowOwes(r)' => RowOwes(r)) /\ ~ WorkerOwes(r)'
    BY <1>1, <1>3, <1>5 DEF RowOwes, WorkerOwes
  <2> QED BY <1>1, <2>1, WorkerStands DEF history
<1> QED BY <1>4, <1>5

LEMMA OneSubmitSettles == ASSUME PipelineInv, OneSubmit, NEW r \in Rows PROVE Settled(r)
<1> DEFINE sigs == [q \in {Current} |-> worker.batch[Current]]
<1>1. /\ UNCHANGED <<scans, api, calls, anchors, warrants, taken>> /\ worker.pc = "one"
      /\ worker \in WorkerState /\ Current \in worker.todo
  BY WorkerTyped DEF OneSubmit, history
<1>2. CASE Sends(sigs) /\ worker' = [worker EXCEPT !.pc = "oneWait", !.tx = Len(txs')]
  <2> DEFINE b == IF r = Current THEN <<"tx", Len(txs')>> ELSE Nothing
             a == IF r = Current THEN <<"worker", 0>> ELSE Nothing
  <2>1. worker'.pc = "oneWait" /\ worker'.tx = Len(txs') /\ worker'.todo = worker.todo
    BY <1>1, <1>2 DEF WorkerState
  <2>2. Current' = Current
    BY <2>1 DEF Current
  <2>3. DOMAIN sigs = {Current}
    OBVIOUS
  <2> HIDE DEF sigs
  <2>4. /\ TxsKept /\ txs'[Len(txs')].status = "pending"
        /\ \A i : TxOwes(i, r)' => TxOwes(i, r) \/ (i = Len(txs') /\ r \in DOMAIN sigs)
    BY <1>2, SendsOwes
  <2>5. WorkerOwes(r)' => WorkerOwes(r) /\ r # Current
    BY <1>1, <2>1, <2>2, <2>4 DEF WorkerOwes
  <2>6. RowOwes(r)' => RowOwes(r)
    BY <1>1, <2>1 DEF RowOwes
  <2>7. /\ a # Nothing \/ b = Nothing
        /\ a = Nothing \/ (a = <<"worker", 0>> /\ WorkerOwes(r))
        /\ a # <<"row", 0>> /\ (r # Current => a # <<"worker", 0>>)
    BY <1>1, TokensAre DEF WorkerOwes
  <2>8. \A i \in Nat : TxOwes(i, r)' => TxOwes(i, r) \/ b = <<"tx", i>>
    BY <2>3, <2>4
  <2> HIDE DEF a, b
  <2>9. UNCHANGED <<api, calls>>
    BY <1>1
  <2>10. Passes(a, b, r)
    BY <2>4, <2>5, <2>6, <2>7, <2>8, <2>9, WorkerPasses
  <2> QED BY <1>1, <2>7, <2>10, PassedOn DEF history
<1>3. CASE txs' = txs /\ worker' = [worker EXCEPT !.pc = "poison"]
  <2>1. worker'.pc = "poison" /\ worker'.todo = worker.todo
    BY <1>1, <1>3 DEF WorkerState
  <2>2. (WorkerOwes(r)' => WorkerOwes(r)) /\ (RowOwes(r)' => RowOwes(r))
    BY <1>1, <2>1 DEF WorkerOwes, RowOwes
  <2> QED BY <1>1, <1>3, <2>2, WorkerStands DEF history
<1> QED BY <1>2, <1>3 DEF OneSubmit, SendsOne, ThrowsOne, Throws

LEMMA OneGivesUpSettles == ASSUME PipelineInv, OneGivesUp, NEW r \in Rows PROVE Settled(r)
<1> DEFINE b == IF r = Current THEN <<"worker", 0>> ELSE Nothing
<1>1. /\ UNCHANGED <<scans, api, calls, txs, anchors, taken>> /\ worker.pc = "oneWait"
      /\ worker \in WorkerState /\ worker' = [worker EXCEPT !.pc = "poison"] /\ Warrant({Current})
  BY WorkerTyped DEF OneGivesUp, Warrant
<1>2. worker'.pc = "poison" /\ worker'.todo = worker.todo
  BY <1>1 DEF WorkerState
<1>3. (RowOwes(r)' => RowOwes(r)) /\ (WorkerOwes(r)' => WorkerOwes(r) \/ b = <<"worker", 0>>)
  BY <1>1, <1>2 DEF RowOwes, WorkerOwes
<1>4. /\ b = Nothing \/ warrants'[r] = warrants[r] + 1
      /\ warrants'[r] = warrants[r] + 1 \/ warrants'[r] = warrants[r]
  BY <1>1 DEF Warrant
<1> HIDE DEF b
<1>5. Passes(Nothing, b, r)
  BY <1>1, <1>3, TxsSame, TokensAre, WorkerPasses
<1> QED BY <1>1, <1>4, <1>5, PassedOn

\* The one-by-one pass is done with a row.
LEMMA OneRowDone ==
    ASSUME PipelineInv, worker.pc \in {"oneWait", "poison"}, NextRow, taken' = taken, NEW r \in Rows
    PROVE  /\ r = Current => ~ WorkerOwes(r)'
           /\ r # Current /\ scans'[r] = scans[r] =>
                 (RowOwes(r)' => RowOwes(r)) /\ (WorkerOwes(r)' => WorkerOwes(r))
<1>1. worker \in WorkerState /\ Current \in worker.todo
  BY WorkerTyped
<1> DEFINE cur == Current
<1>2. cur = Current
  OBVIOUS
<1> HIDE DEF cur
<1>3. \/ worker'.pc = "idle" /\ worker.todo = {cur}
      \/ worker'.pc = "one" /\ worker'.todo = worker.todo \ {cur}
  BY <1>1, <1>2 DEF NextRow, WorkerState, Resting
<1>4. ASSUME r = cur PROVE ~ WorkerOwes(r)'
  BY <1>3, <1>4 DEF WorkerOwes
<1>5. ASSUME r # cur, scans'[r] = scans[r]
      PROVE  (RowOwes(r)' => RowOwes(r)) /\ (WorkerOwes(r)' => WorkerOwes(r))
  BY <1>1, <1>2, <1>3, <1>5 DEF WorkerOwes, RowOwes
<1> QED BY <1>2, <1>4, <1>5

LEMMA OneRecordSettles == ASSUME PipelineInv, OneRecord, NEW r \in Rows PROVE Settled(r)
<1>1. /\ UNCHANGED <<api, calls, txs, anchors, warrants, taken>> /\ worker.pc = "oneWait"
      /\ Mined(worker.tx) /\ NextRow /\ Current \in worker.todo
      /\ MarkAnchored(Current, worker.tx, StateOf(worker.tx))
  BY WorkerTyped DEF OneRecord, history
<1>2. CASE r # Current
  <2>1. scans'[r] = scans[r]
    BY <1>1, <1>2, OtherRow
  <2> QED BY <1>1, <1>2, <2>1, OneRowDone, WorkerStands DEF history
<1>3. CASE r = Current
  <2>1. ~ WorkerOwes(r)'
    BY <1>1, <1>3, OneRowDone
  <2>2. scans'[r].state = StateOf(worker.tx)
    BY <1>1, <1>3, ThisRow
  <2>3. worker.tx \in DOMAIN txs
    BY <1>1 DEF PipelineInv, WorkerInv, WorkerOK, Sent
  <2>4. CASE txs[worker.tx].status = "reverted"
    <3>1. WorkerOwes(r)
      BY <1>1, <1>3, <2>4 DEF WorkerOwes
    <3> QED BY <1>1, <2>1, <3>1, WorkerPutsBack DEF history
  <2>5. CASE txs[worker.tx].status = "success"
    <3>1. ~ RowOwes(r)'
      BY <2>2, <2>5 DEF RowOwes, StateOf
    <3> QED BY <1>1, <2>1, <3>1, WorkerStands DEF history
  <2> QED BY <1>1, <2>3, <2>4, <2>5, MinedEitherWay DEF Mined
<1> QED BY <1>2, <1>3

LEMMA OnePoisonSettles == ASSUME PipelineInv, OnePoison, NEW r \in Rows PROVE Settled(r)
<1>1. /\ UNCHANGED <<api, calls, txs, anchors, warrants, taken>> /\ worker.pc = "poison"
      /\ NextRow /\ Current \in worker.todo /\ MarkAnchored(Current, NoTx, "poison")
  BY WorkerTyped DEF OnePoison, history
<1>2. CASE r # Current
  <2>1. scans'[r] = scans[r]
    BY <1>1, <1>2, OtherRow
  <2> QED BY <1>1, <1>2, <2>1, OneRowDone, WorkerStands DEF history
<1>3. CASE r = Current
  <2>1. ~ WorkerOwes(r)' /\ scans'[r].state = "poison"
    BY <1>1, <1>3, OneRowDone, ThisRow
  <2>2. ~ RowOwes(r)'
    BY <2>1 DEF RowOwes
  <2> QED BY <1>1, <2>1, <2>2, WorkerStands DEF history
<1> QED BY <1>2, <1>3

LEMMA WorkerCrashSettles == ASSUME PipelineInv, WorkerCrash, NEW r \in Rows PROVE Settled(r)
<1>1. /\ UNCHANGED <<scans, api, calls, txs, anchors, taken>> /\ worker' = Resting
      /\ worker \in WorkerState /\ worker.todo \subseteq DOMAIN worker.batch
      /\ Warrant(IF worker.pc = "oneWait" THEN {Current} ELSE {})
  BY WorkerTyped DEF WorkerCrash, Warrant
<1>2. ~ WorkerOwes(r)'
  BY <1>1 DEF WorkerOwes, Resting
<1>3. /\ worker.pc = "oneWait" /\ r = Current => warrants'[r] = warrants[r] + 1
      /\ ~ (worker.pc = "oneWait" /\ r = Current) => warrants'[r] = warrants[r]
  BY <1>1 DEF Warrant
<1>4. CASE (worker.pc = "oneWait" /\ r = Current) \/ WorkerOwes(r)
  BY <1>1, <1>2, <1>3, <1>4, WorkerPutsBack
<1>5. CASE ~ (worker.pc = "oneWait" /\ r = Current) /\ ~ WorkerOwes(r)
  <2>1. RowOwes(r)' => RowOwes(r)
    BY <1>1, <1>5 DEF RowOwes, WorkerOwes
  <2>2. Passes(Nothing, Nothing, r)
    BY <1>1, <1>2, <2>1, TxsSame, TokensAre, WorkerPasses
  <2> QED BY <1>1, <1>3, <1>5, <2>2, PassedOn
<1> QED BY <1>4, <1>5

-----------------------------------------------------------------------------
(* A transaction is mined: whoever waits for it takes over                 *)

LEMMA MineTxs ==
    ASSUME PipelineInv, NEW i \in DOMAIN txs, NEW status \in {"success", "reverted"},
           txs' = [txs EXCEPT ![i].status = status]
    PROVE  /\ DOMAIN txs' = DOMAIN txs /\ txs'[i].status = status
           /\ \A j \in DOMAIN txs : j # i => txs'[j] = txs[j]
           /\ \A r, j : TxOwes(j, r)' => TxOwes(j, r) /\ j # i
<1> DEFINE tx == [txs[i] EXCEPT !.status = status]
<1>1. txs[i] \in TxState /\ txs \in Seq(TxState)
  BY DEF PipelineInv, ChainInv
<1>2. tx \in TxState /\ tx.status = status
  BY <1>1 DEF TxState
<1>3. txs' = [txs EXCEPT ![i] = tx]
  OBVIOUS
<1> HIDE DEF tx
<1>4. /\ DOMAIN txs' = DOMAIN txs /\ txs'[i] = tx
      /\ \A j \in DOMAIN txs : j # i => txs'[j] = txs[j]
  BY <1>1, <1>2, <1>3, ExceptSeq
<1>5. \A r, j : TxOwes(j, r)' => TxOwes(j, r) /\ j # i
  BY <1>2, <1>4 DEF TxOwes, Sent
<1> QED BY <1>2, <1>4, <1>5

LEMMA MineSettles ==
    ASSUME PipelineInv, OneWaiter, NEW i \in DOMAIN txs, Mine(i), NEW r \in Rows
    PROVE  Settled(r)
<1>1. UNCHANGED <<scans, api, calls, worker, warrants, taken>> /\ txs[i].status = "pending"
  BY DEF Mine, history
<1>2. i \in Nat
  BY DEF PipelineInv, ChainInv
<1>3. (ApiOwes(r)' => ApiOwes(r)) /\ (RowOwes(r)' => RowOwes(r)) /\ Current' = Current
  BY <1>1 DEF ApiOwes, RowOwes, Current
<1>4. CallsInv /\ WorkerOK(worker)
  BY DEF PipelineInv, WorkerInv
<1>5. CASE txs' = [txs EXCEPT ![i].status = "success"] /\ anchors' = [q \in Rows |->
                IF RegistryHasCode /\ q \in DOMAIN txs[i].sigs THEN anchors[q] + 1 ELSE anchors[q]]
  <2>1. /\ txs'[i].status = "success"
        /\ \A j \in DOMAIN txs : j # i => txs'[j] = txs[j]
        /\ \A j : TxOwes(j, r)' => TxOwes(j, r) /\ j # i
    BY <1>5, MineTxs
  <2>2. ASSUME NEW c \in Calls, CallOwes(c, r)' PROVE CallOwes(c, r)
    <3>1. calls[c].pc = "wait" => calls[c].tx \in DOMAIN txs
      BY <1>4 DEF CallsInv, CallOK, Sent
    <3> QED BY <1>1, <2>1, <2>2, <3>1 DEF CallOwes
  <2>3. WorkerOwes(r)' => WorkerOwes(r)
    <3>1. worker.pc = "wait" /\ r \in DOMAIN worker.batch => worker.tx \in DOMAIN txs
      BY <1>4 DEF WorkerOK, Sent
    <3>2. worker.pc = "oneWait" => worker.tx \in DOMAIN txs
      BY <1>4 DEF WorkerOK, Sent
    <3> QED BY <1>1, <1>3, <2>1, <3>1, <3>2 DEF WorkerOwes
  <2>4. CASE RegistryHasCode /\ r \in DOMAIN txs[i].sigs
    <3>1. TxOwes(i, r)
      BY <1>1, <2>4 DEF TxOwes, Sent
    <3>2. <<"tx", i>> \in Tokens /\ Owes(<<"tx", i>>, r)
      BY <1>2, <3>1, TokensAre DEF Owes
    <3>3. \A j \in Nat : TxOwes(j, r)' => TxOwes(j, r) /\ <<"tx", i>> # <<"tx", j>>
      BY <2>1
    <3>4. Passes(<<"tx", i>>, Nothing, r)
      BY <1>3, <2>2, <2>3, <3>2, <3>3, TokensAre, PassesByKind
    <3>5. anchors'[r] = anchors[r] + 1 /\ warrants' = warrants /\ taken' = taken
      BY <1>1, <1>5, <2>4 DEF history
    <3> QED BY <1>2, <3>4, <3>5, TokensAre, PassedOn
  <2>5. CASE ~ (RegistryHasCode /\ r \in DOMAIN txs[i].sigs)
    <3>1. Passes(Nothing, Nothing, r)
      BY <1>3, <2>1, <2>2, <2>3, TokensAre, PassesByKind
    <3>2. anchors'[r] = anchors[r] /\ warrants' = warrants /\ taken' = taken
      BY <1>1, <1>5, <2>5 DEF history
    <3> QED BY <3>1, <3>2, PassedOn
  <2> QED BY <2>4, <2>5
<1>6. CASE txs' = [txs EXCEPT ![i].status = "reverted"] /\ anchors' = anchors
  <2>1. /\ \A j \in DOMAIN txs : j # i => txs'[j] = txs[j]
        /\ \A j : TxOwes(j, r)' => TxOwes(j, r) /\ j # i
    BY <1>6, MineTxs
  <2>2. ASSUME NEW c \in Calls, CallOwes(c, r)'
        PROVE  CallOwes(c, r) \/ (calls[c].pc = "wait" /\ calls[c].tx = i /\ Sent(r, i))
    <3>1. calls[c].pc = "wait" => Sent(calls[c].row, calls[c].tx)
      BY <1>4 DEF CallsInv, CallOK
    <3> QED BY <1>1, <2>1, <2>2, <3>1 DEF CallOwes, Sent
  <2>3. WorkerOwes(r)' =>
           WorkerOwes(r) \/ (worker.pc \in {"wait", "oneWait"} /\ worker.tx = i /\ Sent(r, i))
    <3>1. worker.pc = "wait" /\ r \in DOMAIN worker.batch => Sent(r, worker.tx)
      BY <1>4 DEF WorkerOK
    <3>2. worker.pc = "oneWait" => Sent(Current, worker.tx)
      BY <1>4 DEF WorkerOK, Current
    <3> QED BY <1>1, <1>3, <2>1, <3>1, <3>2 DEF WorkerOwes, Sent
  <2>4. ASSUME NEW a, NEW b, (a = Nothing /\ b = Nothing) \/ (a = <<"tx", i>> /\ TxOwes(i, r)),
               \A c \in Calls : CallOwes(c, r)' => CallOwes(c, r) \/ b = <<"call", c>>,
               WorkerOwes(r)' => WorkerOwes(r) \/ b = <<"worker", 0>>
        PROVE  Settled(r)
    <3>1. a = Nothing \/ (a \in Tokens /\ Owes(a, r))
      BY <1>2, <2>4, TokensAre DEF Owes
    <3>2. \A j \in Nat : TxOwes(j, r)' => TxOwes(j, r) /\ a # <<"tx", j>>
      BY <2>1, <2>4, TokensAre
    <3>3. /\ a # <<"api", 0>> /\ a # <<"row", 0>> /\ a # <<"worker", 0>>
          /\ \A c \in Calls : a # <<"call", c>>
      BY <2>4, TokensAre
    <3>4. Passes(a, b, r)
      BY <1>3, <2>4, <3>1, <3>2, <3>3, PassesByKind
    <3>5. a # Nothing \/ b = Nothing
      BY <1>2, <2>4, TokensAre
    <3> QED BY <1>1, <1>6, <3>4, <3>5, PassedOn DEF history
  <2>5. CASE ~ Sent(r, i)
    BY <2>2, <2>3, <2>4, <2>5
  <2>6. CASE Sent(r, i)
    <3>1. TxOwes(i, r)
      BY <1>1, <2>6 DEF TxOwes
    <3>2. CASE \E c \in Calls : calls[c].pc = "wait" /\ calls[c].tx = i
      <4>1. PICK c \in Calls : calls[c].pc = "wait" /\ calls[c].tx = i
        BY <3>2
      <4>2. /\ \A d \in Calls : calls[d].pc = "wait" /\ calls[d].tx = i => d = c
            /\ ~ (worker.pc \in {"wait", "oneWait"} /\ worker.tx = i)
        BY <4>1 DEF OneWaiter
      <4>3. /\ \A d \in Calls : CallOwes(d, r)' => CallOwes(d, r) \/ <<"call", c>> = <<"call", d>>
            /\ WorkerOwes(r)' => WorkerOwes(r)
        BY <2>2, <2>3, <4>2
      <4> QED BY <2>4, <3>1, <4>3
    <3>3. CASE ~ \E c \in Calls : calls[c].pc = "wait" /\ calls[c].tx = i
      <4>1. \A c \in Calls : CallOwes(c, r)' => CallOwes(c, r)
        BY <2>2, <3>3
      <4> QED BY <2>4, <3>1, <4>1
    <3> QED BY <3>2, <3>3
  <2> QED BY <2>5, <2>6
<1> QED BY <1>5, <1>6 DEF Mine

-----------------------------------------------------------------------------
(* Who waits for what                                                      *)

\* Nobody starts to wait.
LEMMA NoNewWaiter ==
    ASSUME OneWaiter, \A i \in DOMAIN txs : i \in DOMAIN txs',
           \A c \in Calls : calls'[c].pc = "wait" =>
               calls[c].pc = "wait" /\ calls'[c].tx = calls[c].tx,
           worker'.pc \in {"wait", "oneWait"} =>
               worker.pc \in {"wait", "oneWait"} /\ worker'.tx = worker.tx
    PROVE  OneWaiter'
BY DEF OneWaiter

LEMMA CallsOneWaiter ==
    ASSUME PipelineInv, OneWaiter, NEW c \in Calls, worker' = worker, txs' = txs,
           calls' = [calls EXCEPT ![c] = Served] \/ calls' = [calls EXCEPT ![c].pc = "catch"]
    PROVE  OneWaiter'
<1>1. calls \in [Calls -> CallState]
  BY DEF PipelineInv, CallsInv
<1>2. (\A d \in Calls : d # c => calls'[d] = calls[d]) /\ calls'[c].pc # "wait"
  BY <1>1 DEF CallState, Served, Waiting
<1> QED BY <1>2, NoNewWaiter

LEMMA CallSubmitOneWaiter ==
    ASSUME PipelineInv, OneWaiter, NEW c \in Calls, CallSubmit(c)
    PROVE  OneWaiter'
<1>1. calls \in [Calls -> CallState] /\ worker' = worker /\ \A d \in Calls : CallOK(calls[d])
  BY DEF CallSubmit, PipelineInv, CallsInv
<1>2. CASE Sends(CallSigs(c)) /\ calls' = [calls EXCEPT ![c].pc = "wait", ![c].tx = Len(txs')]
  <2>1. TxsKept /\ Len(txs') \notin DOMAIN txs
    BY <1>2, SendsOwes
  <2>2. (\A d \in Calls : d # c => calls'[d] = calls[d]) /\ calls'[c].tx = Len(txs')
    BY <1>1, <1>2 DEF CallState
  <2>3. \A d \in Calls : calls[d].pc = "wait" => calls[d].tx \in DOMAIN txs
    BY <1>1 DEF CallOK, Sent
  <2> QED BY <1>1, <2>1, <2>2, <2>3 DEF OneWaiter, TxsKept
<1>3. CASE txs' = txs /\ calls' = [calls EXCEPT ![c].pc = "catch"]
  BY <1>1, <1>3, CallsOneWaiter
<1> QED BY <1>2, <1>3 DEF CallSubmit, SendsOne, ThrowsOne, Throws

\* The worker starts to wait for a transaction it just sent.
LEMMA SendOneWaiter ==
    ASSUME PipelineInv, OneWaiter, calls' = calls, NEW sigs, Sends(sigs),
           worker'.tx = Len(txs'), Len(txs') \in DOMAIN txs'
    PROVE  OneWaiter'
<1>1. \A d \in Calls : calls[d].pc = "wait" => calls[d].tx \in DOMAIN txs
  BY DEF PipelineInv, CallsInv, CallOK, Sent
<1>2. Len(txs') \notin DOMAIN txs
  BY SendsOwes
<1> QED BY <1>1, <1>2 DEF OneWaiter

LEMMA LastIsSent ==
    ASSUME PipelineInv, NEW sigs, Sends(sigs)
    PROVE  Len(txs') \in DOMAIN txs'
<1> DEFINE tx == [sigs |-> sigs, status |-> "pending"]
<1>1. txs' = Append(txs, tx) /\ txs \in Seq(TxState)
  BY DEF Sends, PipelineInv, ChainInv
<1> HIDE DEF tx
<1>2. txs \in Seq(TxState \cup {tx})
  BY <1>1
<1>3. Len(txs') = Len(txs) + 1 /\ Len(txs) \in Nat /\ DOMAIN txs' = 1..(Len(txs) + 1)
  BY <1>1, <1>2, AppendProperties, LenProperties
<1> QED BY <1>3

LEMMA WorkerOneWaiter ==
    ASSUME PipelineInv, OneWaiter, WorkerStep
    PROVE  OneWaiter'
<1>1. worker \in WorkerState /\ calls' = calls
  BY WorkerTyped DEF WorkerStep, Select, SubmitBatch, BatchMined, Isolate, OneSubmit, OneRecord,
     OnePoison, MarkSent, RecordRow, FailRow
<1>2. ASSUME txs' = txs, worker'.pc \notin {"wait", "oneWait"} PROVE OneWaiter'
  BY <1>1, <1>2, NoNewWaiter
<1>3. ASSUME NEW sigs, Sends(sigs), worker'.tx = Len(txs') PROVE OneWaiter'
  BY <1>1, <1>3, SendOneWaiter, LastIsSent
<1>4. CASE Select
  <2>1. worker'.pc \in {"idle", "mark"}
    BY <1>1, <1>4 DEF Select, WorkerState
  <2> QED BY <1>2, <1>4, <2>1 DEF Select
<1>5. CASE SubmitBatch
  <2>1. CASE Sends(worker.batch) /\ worker' = [worker EXCEPT !.pc = "wait", !.tx = Len(txs')]
    <3>1. worker'.tx = Len(txs')
      BY <1>1, <2>1 DEF WorkerState
    <3> QED BY <1>3, <2>1, <3>1
  <2>2. CASE txs' = txs /\ worker' = [worker EXCEPT !.pc = "fail", !.todo = DOMAIN worker.batch]
    <3>1. worker'.pc = "fail"
      BY <1>1, <2>2 DEF WorkerState
    <3> QED BY <1>2, <2>2, <3>1
  <2> QED BY <1>5, <2>1, <2>2 DEF SubmitBatch, Throws
<1>6. CASE OneSubmit
  <2> DEFINE sigs == [q \in {Current} |-> worker.batch[Current]]
  <2>1. CASE Sends(sigs) /\ worker' = [worker EXCEPT !.pc = "oneWait", !.tx = Len(txs')]
    <3>1. worker'.tx = Len(txs')
      BY <1>1, <2>1 DEF WorkerState
    <3> HIDE DEF sigs
    <3> QED BY <1>3, <2>1, <3>1
  <2>2. CASE txs' = txs /\ worker' = [worker EXCEPT !.pc = "poison"]
    <3>1. worker'.pc = "poison"
      BY <1>1, <2>2 DEF WorkerState
    <3> QED BY <1>2, <2>2, <3>1
  <2> QED BY <1>6, <2>1, <2>2 DEF OneSubmit, SendsOne, ThrowsOne, Throws
<1>7. CASE BatchMined \/ Isolate
  <2>1. worker'.pc \in {"record", "one", "idle"}
    <3>1. BatchMined => worker'.pc = "record"
      BY <1>1 DEF BatchMined, WorkerState
    <3>2. Isolate => worker'.pc \in {"one", "idle"}
      BY <1>1 DEF Isolate, WorkerState, Resting
    <3> QED BY <1>7, <3>1, <3>2
  <2> QED BY <1>2, <1>7, <2>1 DEF BatchMined, Isolate
<1>8. CASE OneRecord \/ OnePoison
  <2>1. worker'.pc \in {"idle", "one"}
    <3>1. NextRow
      BY <1>8 DEF OneRecord, OnePoison
    <3> QED BY <1>1, <3>1 DEF NextRow, WorkerState, Resting
  <2> QED BY <1>2, <1>8, <2>1 DEF OneRecord, OnePoison
<1>9. ASSUME NEW r \in Rows, MarkSent(r) \/ RecordRow(r) \/ FailRow(r) PROVE OneWaiter'
  <2>1. MarkSent(r) => worker'.pc \in {"mark", "submit"}
    BY <1>1 DEF MarkSent, OneRow, WorkerState
  <2>2. RecordRow(r) => worker'.pc \in {"record", "idle"}
    BY <1>1 DEF RecordRow, WorkerState, Resting
  <2>3. FailRow(r) => worker'.pc \in {"fail", "isolate", "idle"}
    BY <1>1 DEF FailRow, AfterFailure, WorkerState, Resting
  <2> QED BY <1>2, <1>9, <2>1, <2>2, <2>3 DEF MarkSent, RecordRow, FailRow
<1> QED BY <1>4, <1>5, <1>6, <1>7, <1>8, <1>9 DEF WorkerStep

\* A call is made, or the API restarts: nobody waits yet, or any more.
LEMMA OthersOneWaiter ==
    ASSUME PipelineInv, OneWaiter, Environment \/ ScanUnanchored \/ QueueWrite
    PROVE  OneWaiter'
<1>1. worker \in WorkerState /\ calls \in [Calls -> CallState]
  BY WorkerTyped DEF PipelineInv, CallsInv
<1>2. ASSUME worker' = worker, txs' = txs, calls' = calls PROVE OneWaiter'
  BY <1>2, NoNewWaiter
<1>3. ASSUME worker' = worker, txs' = txs, NEW c \in Calls, NEW call, call.pc = "submit",
             calls' = [calls EXCEPT ![c] = call]
      PROVE  OneWaiter'
  <2>1. (\A d \in Calls : d # c => calls'[d] = calls[d]) /\ calls'[c].pc # "wait"
    BY <1>1, <1>3
  <2> QED BY <1>3, <2>1, NoNewWaiter
<1>4. CASE ScanUnanchored \/ QueueWrite
  BY <1>2, <1>4 DEF ScanUnanchored, QueueWrite
<1>5. ASSUME NEW r \in Rows, ScanInsert(r) PROVE OneWaiter'
  <2>1. CASE api.auto
    <3> DEFINE call == [pc |-> "submit", row |-> r, sig |-> "server", tx |-> NoTx, auto |-> TRUE]
    <3>1. PICK c \in Calls : calls' = [calls EXCEPT ![c] = call]
      BY <1>5, <2>1 DEF ScanInsert
    <3>2. call.pc = "submit" /\ worker' = worker /\ txs' = txs
      BY <1>5 DEF ScanInsert
    <3> HIDE DEF call
    <3> QED BY <1>3, <3>1, <3>2
  <2>2. CASE ~ api.auto
    BY <1>2, <1>5, <2>2 DEF ScanInsert
  <2> QED BY <2>1, <2>2
<1>6. ASSUME NEW c \in Calls, NEW r \in Rows, NEW sig, AnchorRequest(c, r, sig) PROVE OneWaiter'
  <2> DEFINE call == [pc |-> "submit", row |-> r, sig |-> sig, tx |-> NoTx, auto |-> FALSE]
  <2>1. calls' = [calls EXCEPT ![c] = call] /\ call.pc = "submit" /\ worker' = worker /\ txs' = txs
    BY <1>6 DEF AnchorRequest
  <2> HIDE DEF call
  <2> QED BY <1>3, <2>1
<1>7. ASSUME NEW r \in Rows, NEW sig, QueueRead(r, sig) PROVE OneWaiter'
  BY <1>2, <1>7 DEF QueueRead
<1>8. ASSUME NEW c \in Calls, CallGivesUp(c) PROVE OneWaiter'
  BY <1>8, CallsOneWaiter DEF CallGivesUp
<1>9. CASE BatchGivesUp \/ OneGivesUp \/ WorkerCrash
  <2>1. worker'.pc \in {"fail", "poison", "idle"} /\ txs' = txs /\ calls' = calls
    <3>1. /\ BatchGivesUp => worker'.pc = "fail"
          /\ OneGivesUp => worker'.pc = "poison"
      BY <1>1 DEF BatchGivesUp, OneGivesUp, WorkerState
    <3>2. WorkerCrash => worker'.pc = "idle"
      BY DEF WorkerCrash, Resting
    <3> QED BY <1>9, <3>1, <3>2 DEF BatchGivesUp, OneGivesUp, WorkerCrash
  <2> QED BY <2>1, NoNewWaiter
<1>10. CASE ApiCrash
  <2>1. worker' = worker /\ txs' = txs /\ \A c \in Calls : calls'[c].pc # "wait"
    BY <1>10 DEF ApiCrash, Served, Waiting
  <2> QED BY <2>1, NoNewWaiter
<1> QED BY <1>4, <1>5, <1>6, <1>7, <1>8, <1>9, <1>10 DEF Environment

LEMMA NextOneWaiter ==
    ASSUME PipelineInv, OneWaiter, [Next]_vars
    PROVE  OneWaiter'
<1>1. CASE ApiStep
  <2>1. ASSUME NEW c \in Calls, CallRecord(c) \/ CallCatch(c) PROVE OneWaiter'
    BY <2>1, CallsOneWaiter DEF CallRecord, CallCatch
  <2> QED BY <1>1, <2>1, CallSubmitOneWaiter, OthersOneWaiter DEF ApiStep
<1>2. ASSUME NEW i \in DOMAIN txs, Mine(i) PROVE OneWaiter'
  <2>1. DOMAIN txs' = DOMAIN txs /\ worker' = worker /\ calls' = calls
    BY <1>2, MineTxs DEF Mine
  <2> QED BY <2>1, NoNewWaiter
<1>3. CASE UNCHANGED vars
  BY <1>3, NoNewWaiter DEF vars
<1> QED BY <1>1, <1>2, <1>3, WorkerOneWaiter, OthersOneWaiter DEF Next

LEMMA NextSettles ==
    ASSUME PipelineInv, OneWaiter, Present, [Next]_vars, NEW r \in Rows
    PROVE  Settled(r)
<1>1. ApiStep => Settled(r)
  BY ScanUnanchoredSettles, QueueWriteSettles, CallSubmitSettles, CallRecordSettles,
     CallCatchSettles DEF ApiStep
<1>2. WorkerStep => Settled(r)
  BY SelectSettles, SubmitBatchSettles, BatchMinedSettles, IsolateSettles, OneSubmitSettles,
     OneRecordSettles, OnePoisonSettles, MarkSentSettles, RecordRowSettles, FailRowSettles
     DEF WorkerStep
<1>3. Environment => Settled(r)
  BY ScanInsertSettles, AnchorRequestSettles, QueueReadSettles, CallGivesUpSettles,
     BatchGivesUpSettles, OneGivesUpSettles, ApiCrashSettles, WorkerCrashSettles DEF Environment
<1>4. UNCHANGED vars => Settled(r)
  <2> SUFFICES ASSUME UNCHANGED vars PROVE Settled(r)
    OBVIOUS
  <2>1. UNCHANGED <<api, calls, txs, anchors, warrants, taken, scans, worker>>
    BY DEF vars, history
  <2>2. (RowOwes(r)' => RowOwes(r)) /\ (WorkerOwes(r)' => WorkerOwes(r))
    BY <2>1, TxsSame, WorkerKept
  <2> QED BY <2>1, <2>2, WorkerStands
<1> QED BY <1>1, <1>2, <1>3, <1>4, MineSettles DEF Next

\* Only the worker's query takes rows, and no row ever leaves the table.
LEMMA TakenBySelect ==
    ASSUME [Next]_vars
    PROVE  taken' = taken \/ Select
<1>1. ApiStep => taken' = taken
  BY DEF ApiStep, ScanUnanchored, QueueWrite, CallSubmit, CallRecord, CallCatch, history
<1>2. WorkerStep => taken' = taken \/ Select
  BY DEF WorkerStep, SubmitBatch, BatchMined, Isolate, OneSubmit, OneRecord, OnePoison,
         MarkSent, RecordRow, FailRow, history
<1>3. ASSUME NEW r \in Rows, ScanInsert(r) PROVE taken' = taken
  BY <1>3 DEF ScanInsert, Warrant, history
<1>4. ASSUME NEW c \in Calls, NEW r \in Rows, NEW sig, AnchorRequest(c, r, sig)
      PROVE  taken' = taken
  BY <1>4 DEF AnchorRequest, Warrant
<1>5. ASSUME NEW r \in Rows, NEW sig, QueueRead(r, sig) PROVE taken' = taken
  BY <1>5 DEF QueueRead, Warrant
<1>6. BatchGivesUp \/ OneGivesUp \/ WorkerCrash \/ ApiCrash \/ (\E c \in Calls : CallGivesUp(c))
         => taken' = taken
  BY DEF BatchGivesUp, OneGivesUp, WorkerCrash, ApiCrash, CallGivesUp, Warrant, history
<1>7. Environment => taken' = taken
  BY <1>3, <1>4, <1>5, <1>6 DEF Environment
<1>8. (\E i \in DOMAIN txs : Mine(i)) \/ UNCHANGED vars => taken' = taken
  BY DEF Mine, vars, history
<1> QED BY <1>1, <1>2, <1>7, <1>8 DEF Next

LEMMA NextPresent ==
    ASSUME PipelineInv, Present, [Next]_vars
    PROVE  Present'
<1> SUFFICES ASSUME NEW r \in taken' PROVE scans'[r].state # "absent"
  BY DEF Present
<1>1. CASE Select
  <2>1. scans' = scans /\ (r \in taken \/ scans[r].state = "pending")
    BY <1>1 DEF Select
  <2> QED BY <2>1 DEF Present
<1>2. CASE taken' = taken
  <2>1. r \in Rows /\ scans[r].state # "absent"
    BY <1>2 DEF Present, PipelineInv, HistoryInv
  <2> QED BY <2>1, RowSteps DEF RowStep
<1> QED BY <1>1, <1>2, TakenBySelect

LEMMA NextAccount ==
    ASSUME PipelineInv, PipelineInv', AccountInv, [Next]_vars
    PROVE  AccountInv'
<1>1. OneWaiter' /\ Present'
  BY NextOneWaiter, NextPresent DEF AccountInv
<1>2. ASSUME NEW r \in Rows PROVE Accounted(r)'
  <2>1. PICK a, b : Settles(a, b, r)
    BY NextSettles DEF AccountInv, Settled
  <2>2. Accounted(r)
    BY DEF AccountInv
  <2> QED BY <2>1, <2>2, Balanced
<1> QED BY <1>1, <1>2 DEF AccountInv

LEMMA InitAccount == Init => AccountInv
<1> SUFFICES ASSUME Init PROVE AccountInv
  OBVIOUS
<1>1. (\A c \in Calls : calls[c].pc = "free") /\ worker.pc = "idle"
  BY DEF Init, Waiting, Resting
<1>2. OneWaiter /\ Present
  BY <1>1 DEF OneWaiter, Present, Init
<1>3. ASSUME NEW r \in Rows PROVE Accounted(r)
  <2>1. ~ RowOwes(r) /\ ~ ApiOwes(r) /\ ~ WorkerOwes(r)
    BY <1>1 DEF Init, RowOwes, ApiOwes, WorkerOwes
  <2>2. (\A i : ~ TxOwes(i, r)) /\ (\A c \in Calls : ~ CallOwes(c, r))
    BY <1>1 DEF Init, TxOwes, CallOwes, Sent
  <2>3. Owed(r) = {}
    BY <2>1, <2>2 DEF Owed, Owes, Tokens
  <2>4. IsFiniteSet(Owed(r)) /\ Cardinality(Owed(r)) = 0
    BY <2>3, FS_EmptySet
  <2>5. anchors[r] = 0 /\ Allowed(r) = 0
    BY DEF Init, Allowed
  <2> QED BY <2>4, <2>5 DEF Accounted
<1> QED BY <1>2, <1>3 DEF AccountInv

\* Retrying never multiplies anchors: a receipt is on chain at most once for
\* each POST request to anchor it and for each lost answer, and once more, in
\* all, if the worker ever took it 'pending' and unasked, however the API, the
\* worker and the chain interleave, crash and repeat themselves.
THEOREM AnchoredPerRequestHolds == Spec => []AnchoredPerRequest
<1>1. PipelineInv /\ AccountInv => AnchoredPerRequest
  <2> SUFFICES ASSUME PipelineInv, AccountInv, NEW r \in Rows PROVE anchors[r] <= Allowed(r)
    BY DEF AnchoredPerRequest
  <2>1. anchors[r] \in Nat /\ Allowed(r) \in Nat
    BY DEF PipelineInv, ChainInv, HistoryInv, Allowed
  <2>2. IsFiniteSet(Owed(r)) /\ anchors[r] + Cardinality(Owed(r)) <= Allowed(r)
    BY DEF AccountInv, Accounted
  <2>3. Cardinality(Owed(r)) \in Nat
    BY <2>2, FS_CardinalityType
  <2> QED BY <2>1, <2>2, <2>3
<1>2. PipelineInv /\ PipelineInv' /\ AccountInv /\ [Next]_vars => AccountInv'
  BY NextAccount
<1> QED BY <1>1, <1>2, InitInv, NextInv, InitAccount, PTL DEF Spec

-----------------------------------------------------------------------------
(* What a step may do to a handler and to what may still go wrong          *)

\* A handler between two statements is left only by its second one or a crash.
HandlerStep ==
    \/ api' = api
    \/ api.op = "none" /\ operator \subseteq operator'
    \/ ScanUnanchored \/ QueueWrite
    \/ ApiCrash

LEMMA HandlerSteps ==
    ASSUME [Next]_vars
    PROVE  HandlerStep /\ operator \subseteq operator'
<1>1. ApiStep => HandlerStep /\ operator \subseteq operator'
  BY DEF ApiStep, ScanUnanchored, QueueWrite, CallSubmit, CallRecord, CallCatch, HandlerStep, history
<1>2. WorkerStep => HandlerStep /\ operator \subseteq operator'
  BY DEF WorkerStep, Select, SubmitBatch, BatchMined, Isolate, OneSubmit, OneRecord, OnePoison,
         MarkSent, RecordRow, FailRow, HandlerStep, history
<1>3. ASSUME NEW r \in Rows, ScanInsert(r) PROVE HandlerStep /\ operator \subseteq operator'
  BY <1>3 DEF ScanInsert, AtRest, HandlerStep, history
<1>4. ASSUME NEW c \in Calls, NEW r \in Rows, NEW sig, AnchorRequest(c, r, sig)
      PROVE  HandlerStep /\ operator \subseteq operator'
  BY <1>4 DEF AnchorRequest, HandlerStep
<1>5. ASSUME NEW r \in Rows, NEW sig, QueueRead(r, sig)
      PROVE  HandlerStep /\ operator \subseteq operator'
  BY <1>5 DEF QueueRead, AtRest, HandlerStep
<1>6. BatchGivesUp \/ OneGivesUp \/ WorkerCrash \/ ApiCrash \/ (\E c \in Calls : CallGivesUp(c))
         => HandlerStep /\ operator \subseteq operator'
  BY DEF BatchGivesUp, OneGivesUp, WorkerCrash, ApiCrash, CallGivesUp, HandlerStep, history
<1>7. Environment => HandlerStep /\ operator \subseteq operator'
  BY <1>3, <1>4, <1>5, <1>6 DEF Environment
<1>8. (\E i \in DOMAIN txs : Mine(i)) \/ UNCHANGED vars => HandlerStep /\ operator \subseteq operator'
  BY DEF Mine, vars, HandlerStep, history
<1> QED BY <1>1, <1>2, <1>7, <1>8 DEF Next

\* What may still go wrong is never given back.
LEMMA SpentGrows ==
    ASSUME PipelineInv, [Next]_vars, NEW kind \in Kinds
    PROVE  /\ spent'[kind] = 0 => spent[kind] = 0
           /\ Spend(kind) => spent'[kind] # 0
<1>1. spent \in [Kinds -> Nat]
  BY DEF PipelineInv, HistoryInv
<1>2. ASSUME NEW k \in Kinds, Spend(k)
      PROVE  /\ spent'[kind] = 0 => spent[kind] = 0
             /\ k = kind => spent'[kind] # 0
  <2>1. spent' = [spent EXCEPT ![k] = spent[k] + 1] /\ spent[k] \in Nat
    BY <1>1, <1>2 DEF Spend
  <2>2. spent'[k] = spent[k] + 1 /\ (k # kind => spent'[kind] = spent[kind])
    BY <1>1, <2>1
  <2> QED BY <2>1, <2>2
<1>3. (\E k \in Kinds : Spend(k)) \/ spent' = spent
  <2>1. ApiStep => Spend("fault") \/ spent' = spent
    BY DEF ApiStep, ScanUnanchored, QueueWrite, CallSubmit, CallRecord, CallCatch, ThrowsOne, Throws
  <2>2. WorkerStep => Spend("fault") \/ spent' = spent
    BY DEF WorkerStep, Select, SubmitBatch, BatchMined, Isolate, OneSubmit, OneRecord, OnePoison,
           MarkSent, RecordRow, FailRow, ThrowsOne, Throws
  <2>3. Environment => spent' = spent \/ \E k \in Kinds : Spend(k)
    BY DEF Environment, ScanInsert, AnchorRequest, QueueRead, CallGivesUp, BatchGivesUp,
           OneGivesUp, ApiCrash, WorkerCrash, Kinds
  <2>4. (\E i \in DOMAIN txs : Mine(i)) => Spend("revert") \/ spent' = spent
    BY DEF Mine
  <2> QED BY <2>1, <2>2, <2>3, <2>4 DEF Next, vars, Kinds
<1> QED BY <1>2, <1>3

-----------------------------------------------------------------------------
(* Rows nobody asked the operator to sign                                  *)

GapInv ==
    /\ \A r \in Rows : scans[r].state = "queued" => scans[r].sig # "none"
    /\ spent["crash"] = 0 =>
          \A r \in Rows : scans[r].state = "pending" =>
              r \in operator \/ (api.op = "scan" /\ api.row = r)

LEMMA NextGap ==
    ASSUME PipelineInv, GapInv, [Next]_vars
    PROVE  GapInv'
<1>1. ASSUME NEW r \in Rows, scans'[r].state = "queued" PROVE scans'[r].sig # "none"
  <2>1. CASE scans'[r] = scans[r]
    BY <1>1, <2>1 DEF GapInv
  <2>2. CASE QueueWrite /\ scans'[r].sig = api.sig
    BY <2>2, PipelineAssumption DEF QueueWrite, PipelineInv, ApiInv
  <2> QED BY <1>1, <2>1, <2>2, RowSteps DEF RowStep
<1>2. ASSUME spent'["crash"] = 0, NEW r \in Rows, scans'[r].state = "pending"
      PROVE  r \in operator' \/ (api'.op = "scan" /\ api'.row = r)
  <2>1. spent["crash"] = 0 /\ ~ ApiCrash
    BY <1>2, SpentGrows DEF Kinds, ApiCrash
  <2>2. CASE scans'[r] = scans[r]
    <3>1. r \in operator \/ (api.op = "scan" /\ api.row = r)
      BY <1>2, <2>1, <2>2 DEF GapInv
    <3>2. CASE ScanUnanchored /\ api.row = r
      BY <1>2, <3>2, ThisRow DEF ScanUnanchored
    <3>3. CASE ScanUnanchored /\ api.row # r
      BY <3>1, <3>3, HandlerSteps
    <3> QED BY <2>1, <3>1, <3>2, <3>3, HandlerSteps DEF HandlerStep, QueueWrite
  <2>3. CASE ScanInsert(r)
    <3>1. CASE api.auto
      BY <2>3, <3>1 DEF ScanInsert
    <3>2. CASE ~ api.auto
      BY <2>3, <3>2 DEF ScanInsert, Enter, PipelineInv, ApiInv, ApiState
    <3> QED BY <3>1, <3>2
  <2> QED BY <1>2, <2>2, <2>3, RowSteps DEF RowStep
<1> QED BY <1>1, <1>2 DEF GapInv

\* The worker signs a row with this node's key only if the operator asked for
\* it, or anchoring it failed, or POST /scan is between its two statements, or
\* died there: no other order of API and worker does it.
THEOREM ServerSignsOnlyInTheGapHolds == Spec => ServerSignsOnlyInTheGap
<1>1. Init => GapInv
  BY DEF Init, GapInv
<1> DEFINE Signed(r) == /\ worker.pc = "idle" /\ worker'.pc = "mark"
                        /\ r \in DOMAIN worker'.batch /\ worker'.batch[r] = "server"
           Excused(r) == \/ r \in operator
                         \/ scans[r].state = "failed"
                         \/ api.op = "scan" /\ api.row = r
                         \/ spent["crash"] > 0
<1>2. ASSUME PipelineInv, GapInv, Next, NEW r \in Rows, Signed(r) PROVE Excused(r)
  <2>1. worker \in WorkerState
    BY <1>2, WorkerTyped
  <2>2. worker' # worker
    BY <1>2
  <2>3. Select
    <3>1. WorkerStep \/ BatchGivesUp \/ OneGivesUp \/ WorkerCrash
      BY <1>2, <2>2, OthersHold DEF Next, Environment
    <3>2. WorkerStep
      BY <1>2, <3>1 DEF BatchGivesUp, OneGivesUp, WorkerCrash
    <3> QED BY <1>2, <3>2 DEF WorkerStep, SubmitBatch, BatchMined, Isolate, OneSubmit, OneRecord,
               OnePoison, MarkSent, RecordRow, FailRow
  <2>4. Batch # {} /\ worker' = [worker EXCEPT !.pc = "mark", !.todo = Batch,
                                     !.batch = [q \in Batch |-> InputOf(q)]]
    <3>1. CASE Batch = {}
      <4>1. worker'.pc = "idle"
        BY <1>2, <2>1, <2>3, <3>1 DEF Select, WorkerState
      <4> QED BY <1>2, <4>1
    <3> QED BY <2>3, <3>1 DEF Select
  <2>5. worker'.batch = [q \in Batch |-> InputOf(q)]
    BY <2>1, <2>4 DEF WorkerState
  <2>6. r \in Batch /\ InputOf(r) = "server"
    BY <1>2, <2>5
  <2>7. scans[r].sig \in {"none", "good", "bad"}
    BY <1>2, PipelineAssumption DEF PipelineInv, ScansInv, RowState
  <2>8. scans[r].sig = "none"
    BY <2>6, <2>7 DEF InputOf
  <2>9. scans[r].state \in {"pending", "failed"}
    BY <1>2, <2>6, <2>8, BatchWaits DEF GapInv
  <2>10. spent["crash"] \in Nat
    BY <1>2 DEF PipelineInv, HistoryInv, Kinds
  <2> QED BY <1>2, <2>9, <2>10 DEF GapInv
<1>3. PipelineInv /\ GapInv /\ [Next]_vars =>
        [\A r \in Rows : Signed(r) => Excused(r)]_vars
  BY <1>2
<1>4. PipelineInv /\ GapInv /\ [Next]_vars => GapInv'
  BY NextGap
<1> QED BY <1>1, <1>3, <1>4, InitInv, NextInv, PTL DEF Spec, ServerSignsOnlyInTheGap

-----------------------------------------------------------------------------
(* What the one-by-one pass calls poison                                   *)

\* Nothing went wrong but what the registry itself refuses.
Calm == spent["fault"] = 0 /\ spent["lost"] = 0

PoisonInv ==
    Calm =>
      /\ PoisonIsBad
      /\ api.op = "queue" => scans[api.row].sig = "none"
      /\ worker.pc \in {"one", "oneWait", "poison"} =>
            \A r \in worker.todo : /\ worker.batch[r] = scans[r].sig
                                   /\ scans[r].sig # "none"
      /\ worker.pc = "poison" => worker.batch[Current] = "bad"

\* A signature that is stored stays.
LEMMA SigStays ==
    ASSUME PipelineInv, PoisonInv, Calm, [Next]_vars, NEW r \in Rows, scans[r].sig # "none"
    PROVE  scans'[r].sig = scans[r].sig
<1>1. ~ (QueueWrite /\ r = api.row)
  BY DEF PoisonInv, QueueWrite
<1> QED BY <1>1, RowSteps DEF RowStep

LEMMA PoisonedIsBad ==
    ASSUME PipelineInv, PoisonInv, Calm, [Next]_vars
    PROVE  PoisonIsBad'
<1> SUFFICES ASSUME NEW r \in Rows, scans'[r].state = "poison" PROVE scans'[r].sig = "bad"
  BY DEF PoisonIsBad
<1>1. CASE scans'[r] = scans[r]
  BY <1>1 DEF PoisonInv, PoisonIsBad
<1>2. CASE OnePoison /\ r = Current /\ scans'[r].sig = scans[r].sig
  BY <1>2, WorkerTyped DEF OnePoison, PoisonInv
<1> QED BY <1>1, <1>2, RowSteps DEF RowStep

LEMMA HandlerQueuesOnce ==
    ASSUME ~ Resubmit, PipelineInv, PoisonInv, Calm, [Next]_vars, api'.op = "queue"
    PROVE  scans'[api'.row].sig = "none"
<1>1. api \in ApiState
  BY DEF PipelineInv, ApiInv
<1>2. CASE \E r \in Rows, sig \in ClientSigs : QueueRead(r, sig)
  <2>1. PICK r \in Rows : \E sig \in ClientSigs : QueueRead(r, sig)
    BY <1>2
  <2>2. api'.row = r /\ scans' = scans /\ scans[r].sig = "none"
    BY <1>1, <2>1 DEF QueueRead, Enter, ApiState
  <2> QED BY <2>2
<1>3. CASE api' = api
  <2>1. api.op = "queue" /\ api.row \in Rows /\ scans[api.row].sig = "none"
    BY <1>3 DEF PoisonInv, PipelineInv, ApiInv
  <2>2. ~ QueueWrite
    BY <1>1, <1>3 DEF QueueWrite, Leave, Enter, ApiState
  <2>3. scans'[api.row].sig = scans[api.row].sig
    BY <2>1, <2>2, RowSteps DEF RowStep
  <2> QED BY <1>3, <2>1, <2>3
<1>4. ASSUME Leave PROVE FALSE
  BY <1>1, <1>4 DEF Leave, Enter, ApiState
<1>5. ASSUME NEW r \in Rows, ScanInsert(r) PROVE api' = api
  BY <1>1, <1>5 DEF ScanInsert, Enter, ApiState
<1>6. ApiStep => api' = api
  BY <1>4 DEF ApiStep, ScanUnanchored, QueueWrite, CallSubmit, CallRecord, CallCatch
<1>7. WorkerStep => api' = api
  BY DEF WorkerStep, Select, SubmitBatch, BatchMined, Isolate, OneSubmit, OneRecord, OnePoison,
         MarkSent, RecordRow, FailRow
<1>8. Environment => api' = api \/ \E r \in Rows, sig \in ClientSigs : QueueRead(r, sig)
  BY <1>4, <1>5 DEF Environment, AnchorRequest, CallGivesUp, BatchGivesUp, OneGivesUp, ApiCrash,
                    WorkerCrash
<1>9. (\E i \in DOMAIN txs : Mine(i)) \/ UNCHANGED vars => api' = api
  BY DEF Mine, vars
<1> QED BY <1>2, <1>3, <1>6, <1>7, <1>8, <1>9 DEF Next

\* The rows of the one-by-one pass: read as they are stored, one at a time
\* given up for the registry's refusal only.
OneByOne(w) ==
    /\ w.pc \in {"one", "oneWait", "poison"} =>
          \A r \in w.todo : w.batch[r] = scans[r].sig /\ scans[r].sig # "none"
    /\ w.pc = "poison" =>
          w.batch[CHOOSE r \in w.todo : \A q \in w.todo : r <= q] = "bad"

LEMMA OnePassReads ==
    ASSUME PipelineInv, Isolate
    PROVE  OneByOne(worker')
<1> DEFINE rows == QueuedScans(BATCH_MAX)
<1>1. worker \in WorkerState
  BY WorkerTyped
<1>2. \A r \in rows : scans[r].sig # "none"
  BY DEF QueuedScans, FirstOf
<1>3. CASE rows = {}
  BY <1>3 DEF Isolate, Resting, OneByOne
<1>4. CASE rows # {}
  <2>1. worker' = [worker EXCEPT !.pc = "one", !.todo = rows, !.batch = [q \in rows |-> InputOf(q)]]
    BY <1>4 DEF Isolate
  <2> HIDE DEF rows
  <2>2. worker'.pc = "one" /\ worker'.todo = rows /\ worker'.batch = [q \in rows |-> InputOf(q)]
    BY <1>1, <2>1 DEF WorkerState
  <2> QED BY <1>2, <2>2 DEF OneByOne, InputOf
<1> QED BY <1>3, <1>4

LEMMA OnePassThrows ==
    ASSUME RegistryHasCode, PipelineInv, OneByOne(worker), OneSubmit, ~ Spend("fault")
    PROVE  OneByOne(worker')
<1> DEFINE sigs == [q \in {Current} |-> worker.batch[Current]]
<1>1. worker \in WorkerState /\ worker.pc = "one" /\ Current \in worker.todo
  BY WorkerTyped DEF OneSubmit
<1>2. CASE worker' = [worker EXCEPT !.pc = "oneWait", !.tx = Len(txs')]
  <2>1. worker'.pc = "oneWait" /\ worker'.todo = worker.todo /\ worker'.batch = worker.batch
    BY <1>1, <1>2 DEF WorkerState
  <2> QED BY <1>1, <2>1 DEF OneByOne
<1>3. CASE ThrowsOne(sigs) /\ worker' = [worker EXCEPT !.pc = "poison"]
  <2>1. worker'.pc = "poison" /\ worker'.todo = worker.todo /\ worker'.batch = worker.batch
    BY <1>1, <1>3 DEF WorkerState
  <2>2. Reverts(sigs)
    BY <1>3 DEF ThrowsOne, Throws
  <2>3. worker.batch[Current] = "bad"
    BY <2>2 DEF Reverts
  <2> QED BY <1>1, <2>1, <2>3 DEF OneByOne, Current
<1> QED BY <1>2, <1>3 DEF OneSubmit

LEMMA OnePassGoesOn ==
    ASSUME PipelineInv, OneByOne(worker), worker.pc \in {"oneWait", "poison"}, NextRow
    PROVE  OneByOne(worker')
<1>1. worker \in WorkerState
  BY WorkerTyped
<1> DEFINE cur == Current
<1>2. worker' = IF worker.todo = {cur} THEN Resting
                ELSE [worker EXCEPT !.pc = "one", !.todo = @ \ {cur}]
  BY DEF NextRow
<1> HIDE DEF cur
<1>3. \/ worker'.pc = "idle"
      \/ /\ worker'.pc = "one" /\ worker'.todo = worker.todo \ {cur}
         /\ worker'.batch = worker.batch
  BY <1>1, <1>2 DEF WorkerState, Resting
<1> QED BY <1>3 DEF OneByOne

\* In every step, as the rows stand before it.
LEMMA OnePassStep ==
    ASSUME RegistryHasCode, PipelineInv, OneByOne(worker), [Next]_vars,
           ~ Spend("fault"), ~ Spend("lost")
    PROVE  OneByOne(worker')
<1>1. worker \in WorkerState
  BY WorkerTyped
<1>2. ASSUME worker'.pc \notin {"one", "oneWait", "poison"} PROVE OneByOne(worker')
  BY <1>2 DEF OneByOne
<1>3. CASE worker' = worker
  BY <1>3
<1>4. CASE Select \/ SubmitBatch \/ BatchMined \/ WorkerCrash
  <2>1. Select => worker'.pc \in {"idle", "mark"}
    BY <1>1 DEF Select, WorkerState
  <2>2. SubmitBatch => worker'.pc \in {"wait", "fail"}
    BY <1>1 DEF SubmitBatch, WorkerState
  <2>3. BatchMined => worker'.pc = "record"
    BY <1>1 DEF BatchMined, WorkerState
  <2>4. WorkerCrash => worker'.pc = "idle"
    BY DEF WorkerCrash, Resting
  <2> QED BY <1>2, <1>4, <2>1, <2>2, <2>3, <2>4
<1>5. ASSUME NEW r \in Rows, MarkSent(r) \/ RecordRow(r) \/ FailRow(r) PROVE OneByOne(worker')
  <2>1. MarkSent(r) => worker'.pc \in {"mark", "submit"}
    BY <1>1 DEF MarkSent, OneRow, WorkerState
  <2>2. RecordRow(r) => worker'.pc \in {"record", "idle"}
    BY <1>1 DEF RecordRow, WorkerState, Resting
  <2>3. FailRow(r) => worker'.pc \in {"fail", "isolate", "idle"}
    BY <1>1 DEF FailRow, AfterFailure, WorkerState, Resting
  <2> QED BY <1>2, <1>5, <2>1, <2>2, <2>3
<1>6. CASE Isolate
  BY <1>6, OnePassReads
<1>7. CASE OneSubmit
  BY <1>7, OnePassThrows
<1>8. CASE OneRecord \/ OnePoison
  BY <1>8, OnePassGoesOn DEF OneRecord, OnePoison
<1>9. ~ BatchGivesUp /\ ~ OneGivesUp
  BY DEF BatchGivesUp, OneGivesUp
<1>10. WorkerStep => OneByOne(worker')
  BY <1>4, <1>5, <1>6, <1>7, <1>8 DEF WorkerStep
<1>11. WorkerStep \/ WorkerCrash \/ worker' = worker
  BY <1>9, OthersHold DEF Next, Environment
<1> QED BY <1>3, <1>4, <1>10, <1>11

LEMMA NextPoison ==
    ASSUME RegistryHasCode, ~ Resubmit, PipelineInv, PipelineInv', PoisonInv, [Next]_vars
    PROVE  PoisonInv'
<1> SUFFICES ASSUME Calm' PROVE PoisonInv'
  BY DEF PoisonInv
<1>1. Calm /\ ~ Spend("fault") /\ ~ Spend("lost")
  BY SpentGrows DEF Calm, Kinds
<1>2. OneByOne(worker)
  BY <1>1 DEF PoisonInv, OneByOne, Current
<1>3. OneByOne(worker')
  BY <1>1, <1>2, OnePassStep
<1>4. worker'.todo \subseteq Rows
  BY DEF PipelineInv, WorkerInv, WorkerOK, WorkerState
<1>5. worker'.pc \in {"one", "oneWait", "poison"} =>
         \A r \in worker'.todo : worker'.batch[r] = scans'[r].sig /\ scans'[r].sig # "none"
  BY <1>1, <1>3, <1>4, SigStays DEF OneByOne
<1>6. worker'.pc = "poison" => worker'.batch[Current'] = "bad"
  BY <1>3 DEF OneByOne, Current
<1>7. PoisonIsBad' /\ (api'.op = "queue" => scans'[api'.row].sig = "none")
  BY <1>1, PoisonedIsBad, HandlerQueuesOnce
<1> QED BY <1>5, <1>6, <1>7 DEF PoisonInv

\* The one-by-one pass marks 'poison' only what the registry refuses, as long
\* as no call to the chain fails for another reason and no receipt is queued
\* twice.  Without those conditions it does not hold: the catch of the pass
\* does not look at the error, and a new signature may arrive behind its back.
THEOREM PoisonIsBadWhenCalm ==
    ASSUME RegistryHasCode, ~ Resubmit
    PROVE  Spec => [](Calm => PoisonIsBad)
<1>1. Init => PoisonInv
  BY DEF Init, PoisonInv, PoisonIsBad, Resting
<1>2. PoisonInv => (Calm => PoisonIsBad)
  BY DEF PoisonInv
<1>3. PipelineInv /\ PipelineInv' /\ PoisonInv /\ [Next]_vars => PoisonInv'
  BY NextPoison
<1> QED BY <1>1, <1>2, <1>3, InitInv, NextInv, PTL DEF Spec
=============================================================================
