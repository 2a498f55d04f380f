----------------------- MODULE PasskeyAttestorProofs -----------------------
(***************************************************************************)
(* A page signs, publishes and shows only what belongs to the identity in  *)
(* use, for any number of passkeys, tasks, transactions and locks.         *)
(***************************************************************************)
EXTENDS PasskeyAttestor, SequenceTheorems, TLAPS

-----------------------------------------------------------------------------
(* What the page of a passkey p makes                                      *)

ToolIds == {ToolId(t) : t \in Spelled}

ReceiptsOf(p) ==
    [tool : Spelled, id : ToolIds, content : Manifests, issued_at : Nat,
     attestor : {KeyOf[p]}]

ScansOf(p) ==
    [toolId : ToolIds, contentHash : Manifests, verdict : Verdicts, score : {0},
     receiptHash : ReceiptsOf(p)]

InputsOf(p) ==
    [toolId : ToolIds, contentHash : Manifests, verdict : Verdicts, score : {0},
     receiptHash : ReceiptsOf(p),
     sig : {Sign(p, AnchorDigest(p, sc)) : sc \in ScansOf(p)}]

CallsOf(p) ==
    [fn : {"registerAttestor"}, key : {KeyOf[p]},
     sig : {Sign(p, RegistrationDigest(p, KeyOf[p]))}]
    \cup [fn : {"anchorScan"}, sc : InputsOf(p)]

EventsOf(p) ==
    [event : {"AttestorRegistered"}, attestor : {p},
     key : {KeyOf[p]} \cup {sig.key : sig \in Signatures}]
    \cup [event : {"ScanAnchored"}, toolId : ToolIds, attestor : {p},
          contentHash : Manifests, verdict : Verdicts, score : {0},
          receiptHash : ReceiptsOf(p), timestamp : Nat]

Identity == [address : Passkeys, wiped : BOOLEAN, ended : BOOLEAN]

Transaction ==
    [wallet : Nat, call : UNION {CallsOf(p) : p \in Passkeys},
     status : {"pending", "success", "reverted"}]

-----------------------------------------------------------------------------
(* The inductive invariant                                                 *)

PageTypeOK ==
    /\ opened \in Seq(Identity)
    /\ state \in 0..Len(opened)
    /\ prompt \in BOOLEAN
    /\ view.form = "panel" => state # 0
    /\ tasks = [t \in Slots |-> tasks[t]]
    /\ txs \in Seq(Transaction)
    /\ log \in Seq(UNION {EventsOf(p) : p \in Passkeys})
    /\ attestorKey = [a \in Attestors |-> attestorKey[a]]
    /\ now \in Nat
    /\ second \in Nat

\* The identity whose buttons can be pressed.
InUse == IF view.form = "panel" /\ ~ prompt THEN {state} ELSE {}

\* What an anchor under way may hold, among identities o of which those in `use`
\* can be clicked, and with the receipts `served` on the node.
AnchorOK(task, o, use) ==
    /\ task.anchors \in 1..Len(o)
    /\ task.scanned \in ScansOf(o[task.anchors].address)
    /\ task.anchors \in use \/ o[task.anchors].wiped

Backed(call, served) == call.fn = "anchorScan" => call.sc.receiptHash \in served

SendingOK(task, o, use, served) ==
    /\ task.wallet \in 1..Len(o)
    /\ task.call \in CallsOf(o[task.wallet].address)
    /\ task.wallet \in use \/ o[task.wallet].ended
    /\ Backed(task.call, served)

TaskOK(task, o, use, served) ==
    /\ task.at = "publishing" =>
          /\ AnchorOK(task, o, use)
          /\ task.jws.payload = task.scanned.receiptHash
          /\ task.jws.form = "jcs"
    /\ task.at = "published" =>
          /\ AnchorOK(task, o, use)
          /\ task.scanned.receiptHash \in served
    /\ task.at = "sending" => SendingOK(task, o, use, served)

TxOK(tx, o, served) ==
    /\ tx.wallet \in 1..Len(o)
    /\ tx.call \in CallsOf(o[tx.wallet].address)
    /\ Backed(tx.call, served)

\* The key that was registered is the passkey's own, and the log says so.
RegisteredBy(a, key) ==
    \E i \in 1..Len(log) : /\ log[i].event = "AttestorRegistered"
                           /\ log[i].attestor = a
                           /\ log[i].key = key

KeysLogged ==
    \A a, p \in Passkeys :
        attestorKey[a] = KeyOf[p] => a = p /\ RegisteredBy(p, KeyOf[p])

StoreServesPage ==
    /\ DOMAIN own = {}
    /\ \A h \in DOMAIN external : external[h].form = "jcs"

LogBacked ==
    \A n \in 1..Len(log) :
        log[n].event = "ScanAnchored" => log[n].receiptHash \in DOMAIN external

PageInv ==
    /\ PageTypeOK
    /\ \A t \in Slots : TaskOK(tasks[t], opened, InUse, DOMAIN external)
    /\ \A t \in Slots :
          tasks[t].at \in {"reading", "comparing"} => tasks[t].who \in Passkeys
    /\ \A i \in 1..Len(txs) : TxOK(txs[i], opened, DOMAIN external)
    /\ KeysLogged
    /\ StoreServesPage
    /\ LogBacked
    /\ ShownIsRegistered

-----------------------------------------------------------------------------
(* Nothing that a task or a transaction relies on is taken back            *)

Later(o, o2) ==
    /\ Len(o) <= Len(o2)
    /\ \A s \in 1..Len(o) : /\ o2[s].address = o[s].address
                            /\ o[s].wiped => o2[s].wiped
                            /\ o[s].ended => o2[s].ended

\* Who is in use stays in use or is wiped and signs no more.
Succeeds(use, use2, o2) ==
    \A s \in use : s \in use2 \/ (o2[s].wiped /\ o2[s].ended)

LEMMA TaskStaysOK ==
    ASSUME NEW task, NEW o, NEW o2, NEW use, NEW use2, NEW served, NEW served2,
           Len(o) \in Nat, Len(o2) \in Nat,
           Later(o, o2), Succeeds(use, use2, o2), served \subseteq served2,
           TaskOK(task, o, use, served)
    PROVE  TaskOK(task, o2, use2, served2)
<1>1. ASSUME AnchorOK(task, o, use) PROVE AnchorOK(task, o2, use2)
  BY <1>1 DEF AnchorOK, Later, Succeeds
<1>2. ASSUME SendingOK(task, o, use, served) PROVE SendingOK(task, o2, use2, served2)
  BY <1>2 DEF SendingOK, Backed, Later, Succeeds
<1> QED BY <1>1, <1>2 DEF TaskOK

LEMMA TxStaysOK ==
    ASSUME NEW tx, NEW o, NEW o2, NEW served, NEW served2,
           Len(o) \in Nat, Len(o2) \in Nat,
           Later(o, o2), served \subseteq served2, TxOK(tx, o, served)
    PROVE  TxOK(tx, o2, served2)
BY DEF TxOK, Backed, Later

Advances ==
    /\ opened' \in Seq(Identity)
    /\ state' \in 0..Len(opened')
    /\ prompt' \in BOOLEAN
    /\ view'.form = "panel" => state' # 0
    /\ Later(opened, opened')
    /\ Succeeds(InUse, InUse', opened')

\* Opening, locking and every change of the view.
LEMMA PageAdvances ==
    ASSUME PageTypeOK, BrowserNext
    PROVE  Advances
<1> USE DEF PageTypeOK
<1>1. ASSUME UNCHANGED <<opened, state, prompt, view>> PROVE Advances
  BY <1>1 DEF Advances, Later, Succeeds, InUse
<1>2. ASSUME UNCHANGED <<opened, state, prompt>>, state # 0, view'.form = "panel"
      PROVE  Advances
  BY <1>2 DEF Advances, Later, Succeeds, InUse
<1>3. ASSUME NEW t \in Slots, UNCHANGED <<opened, state, prompt>>, Refresh(t)
      PROVE  Advances
  <2>1. CASE state = 0
    <3>1. view' = LockedView  BY <1>3, <2>1 DEF Refresh
    <3>2. view'.form = "locked"  BY <3>1 DEF LockedView
    <3> QED BY <1>3, <2>1, <3>2 DEF Advances, Later, Succeeds, InUse
  <2>2. CASE state # 0
    BY <1>1, <1>3, <2>2 DEF Refresh
  <2> QED BY <2>1, <2>2
<1>4. ASSUME AskPasskey PROVE Advances
  BY <1>4 DEF AskPasskey, Advances, Later, Succeeds, InUse
<1>5. ASSUME Refuse PROVE Advances
  <2>1. InUse = {}
    BY <1>5 DEF Refuse, InUse
  <2>2. UNCHANGED <<opened, state, view>> /\ prompt' \in BOOLEAN
    BY <1>5 DEF Refuse
  <2> QED BY <2>1, <2>2 DEF Advances, Later, Succeeds
<1>6. ASSUME Lock PROVE Advances
  <2>1. state \in 1..Len(opened)
    BY <1>6 DEF Lock
  <2>2. opened' = [opened EXCEPT ![state].wiped = TRUE, ![state].ended = TRUE]
    BY <1>6, <2>1 DEF Lock
  <2>3. /\ opened' \in Seq(Identity) /\ Len(opened') = Len(opened)
        /\ opened'[state].wiped /\ opened'[state].ended
        /\ \A s \in 1..Len(opened) :
              /\ opened'[s].address = opened[s].address
              /\ opened[s].wiped => opened'[s].wiped
              /\ opened[s].ended => opened'[s].ended
    <3> DEFINE gone == [[opened[state] EXCEPT !.wiped = TRUE] EXCEPT !.ended = TRUE]
    <3>1. opened[state] \in Identity
      BY <2>1
    <3>2. gone \in Identity /\ gone.address = opened[state].address /\ gone.wiped /\ gone.ended
      BY <3>1 DEF Identity
    <3>3. opened' = [opened EXCEPT ![state] = gone]
      BY <2>1, <2>2
    <3> HIDE DEF gone
    <3> QED BY <2>1, <3>2, <3>3
  <2>4. state' = 0 /\ prompt' = prompt /\ view'.form = "locked"
    BY <1>6 DEF Lock, LockedView
  <2> QED BY <2>3, <2>4 DEF Advances, Later, Succeeds, InUse
<1>7. ASSUME NEW t \in Slots, NEW p \in Passkeys, Unlock(t, p) PROVE Advances
  <2>1. [address |-> p, wiped |-> FALSE, ended |-> FALSE] \in Identity
    BY DEF Identity
  <2>2. opened' \in Seq(Identity) /\ Len(opened') = Len(opened) + 1
        /\ \A s \in 1..Len(opened) : opened'[s] = opened[s]
    BY <1>7, <2>1 DEF Unlock, Open
  <2>3. state' = Len(opened) + 1 /\ prompt' \in BOOLEAN
    BY <1>7 DEF Unlock, Open
  <2>4. InUse = {}
    BY <1>7 DEF Unlock, InUse
  <2> QED BY <2>2, <2>3, <2>4 DEF Advances, Later, Succeeds
<1>8. ASSUME NEW t \in Slots, Click(t) PROVE Advances
  BY <1>1, <1>8 DEF Click, Register, RequestGas, ScanAndAnchor
<1>9. ASSUME NEW t \in Slots, Answer(t) PROVE Advances
  <2>1. ASSUME NEW low \in BOOLEAN, Read(t, low) PROVE Advances
    BY <1>1, <1>2, <2>1 DEF Read, Panel
  <2>2. CASE Compare(t)
    BY <1>1, <1>2, <2>2 DEF Compare, Panel
  <2>3. CASE Publish(t) \/ PublishFails(t) \/ SignAnchor(t) \/ Send(t) \/ SendFails(t)
             \/ WaitTimesOut(t)
    BY <1>1, <2>3 DEF Publish, PublishFails, SignAnchor, Send, SendFails, WaitTimesOut
  <2>4. CASE Receipted(t)
    BY <1>1, <1>3, <2>4 DEF Receipted
  <2>5. CASE GasAnswered(t)
    BY <1>1, <1>3, <2>5 DEF GasAnswered
  <2> QED BY <1>9, <2>1, <2>2, <2>3, <2>4, <2>5 DEF Answer
<1>10. ASSUME NEW i \in 1..Len(txs), Mine(i) PROVE Advances
  BY <1>1, <1>10 DEF Mine
<1>11. ASSUME NEW p \in Passkeys, NEW sig \in Signatures, RegisterElsewhere(p, sig.key, sig)
       PROVE  Advances
  BY <1>1, <1>11 DEF RegisterElsewhere, pageVars
<1> QED BY <1>4, <1>5, <1>6, <1>7, <1>8, <1>9, <1>10, <1>11 DEF BrowserNext
-----------------------------------------------------------------------------
(* The store, the registry and the transactions                            *)

\* POST /receipt from the page: what is served stays, and this receipt with it.
LEMMA PublishServes ==
    ASSUME NEW jws, StoreServesPage, jws.form = "jcs", PostReceipt(jws)
    PROVE  /\ StoreServesPage'
           /\ DOMAIN external \subseteq DOMAIN external'
           /\ jws.payload \in DOMAIN external'
BY DEF PostReceipt, StoreServesPage, With

\* One transaction of a page's address.
LEMMA RegistrationEffect ==
    ASSUME PageTypeOK, NEW a \in Attestors, NEW key, NEW sig, NEW p \in Passkeys,
           a = p, key \in {KeyOf[p]} \cup {s.key : s \in Signatures},
           RegisterAttestor(a, key, sig)
    PROVE  /\ log' \in Seq(UNION {EventsOf(q) : q \in Passkeys})
           /\ Len(log') = Len(log) + 1
           /\ \A n \in 1..Len(log) : log'[n] = log[n]
           /\ log'[Len(log) + 1].event = "AttestorRegistered"
           /\ log'[Len(log) + 1].attestor = p
           /\ log'[Len(log) + 1].key = key
           /\ attestorKey' = [attestorKey EXCEPT ![p] = key]
           /\ now' = now
<1> DEFINE ev == [event |-> "AttestorRegistered", attestor |-> a, key |-> key]
<1>1. ev \in EventsOf(p)
  BY DEF EventsOf
<1>2. ev \in UNION {EventsOf(q) : q \in Passkeys}
  BY <1>1
<1>3. /\ log' = Append(log, ev) /\ now' = now
      /\ attestorKey' = [attestorKey EXCEPT ![p] = key]
  BY DEF RegisterAttestor
<1>4. ev.event = "AttestorRegistered" /\ ev.attestor = p /\ ev.key = key
  OBVIOUS
<1> HIDE DEF ev
<1> QED BY <1>2, <1>3, <1>4 DEF PageTypeOK

LEMMA AnchorEffect ==
    ASSUME PageTypeOK, NEW p \in Passkeys, NEW sc \in InputsOf(p), AnchorScan(p, sc)
    PROVE  /\ log' \in Seq(UNION {EventsOf(q) : q \in Passkeys})
           /\ Len(log') = Len(log) + 1
           /\ \A n \in 1..Len(log) : log'[n] = log[n]
           /\ log'[Len(log) + 1].event = "ScanAnchored"
           /\ log'[Len(log) + 1].receiptHash = sc.receiptHash
           /\ attestorKey' = attestorKey
           /\ now' = now
<1> DEFINE scans == <<sc>>
           more  == [i \in 1..Len(scans) |-> AnchorEvent(p, scans[i])]
           Events == UNION {EventsOf(q) : q \in Passkeys}
<1>1. AnchorEvent(p, sc) \in EventsOf(p)
  BY DEF AnchorEvent, EventsOf, InputsOf, PageTypeOK
<1>2. AnchorEvent(p, sc) \in Events
  BY <1>1
<1>3. Len(scans) = 1 /\ scans[1] = sc
  OBVIOUS
<1>4. more \in Seq(Events) /\ Len(more) = 1 /\ more[1] = AnchorEvent(p, sc)
  <2>1. \A i \in 1..Len(scans) : AnchorEvent(p, scans[i]) \in Events
    BY <1>2, <1>3
  <2>2. \A s : Len(s) = 1 =>
           LET f == [i \in 1..Len(s) |-> AnchorEvent(p, s[i])]
           IN  /\ f[1] = AnchorEvent(p, s[1])
               /\ (\A i \in 1..Len(s) : AnchorEvent(p, s[i]) \in Events)
                     => f \in Seq(Events) /\ Len(f) = Len(s)
    OBVIOUS
  <2> HIDE DEF scans, Events
  <2> QED BY <1>3, <2>1, <2>2
<1>5. log' = log \o more /\ attestorKey' = attestorKey /\ now' = now
  BY DEF AnchorScan, Anchor
<1>6. /\ AnchorEvent(p, sc).event = "ScanAnchored"
      /\ AnchorEvent(p, sc).receiptHash = sc.receiptHash
  BY DEF AnchorEvent
<1>7. log \in Seq(Events)
  BY DEF PageTypeOK
<1> HIDE DEF more, Events, scans
<1>8. /\ log' \in Seq(Events) /\ Len(log') = Len(log) + 1
      /\ \A n \in 1..Len(log) : log'[n] = log[n]
      /\ log'[Len(log) + 1] = AnchorEvent(p, sc)
  <2>1. /\ log \o more \in Seq(Events)
        /\ Len(log \o more) = Len(log) + Len(more)
        /\ \A i \in 1..(Len(log) + Len(more)) : (log \o more)[i] =
              IF i <= Len(log) THEN log[i] ELSE more[i - Len(log)]
    BY <1>4, <1>7, ConcatProperties
  <2>2. Len(log) \in Nat
    BY <1>7
  <2> QED BY <1>4, <1>5, <2>1, <2>2
<1> QED BY <1>5, <1>6, <1>8 DEF Events

\* The one kind of transaction a page sends that changes the log by an anchor is
\* backed, and the log grows by one event.
LogGrowsBy(a) ==
    /\ log' \in Seq(UNION {EventsOf(p) : p \in Passkeys})
    /\ Len(log') = Len(log) + 1
    /\ \A n \in 1..Len(log) : log'[n] = log[n]
    /\ \/ /\ log'[Len(log) + 1].event = "ScanAnchored"
          /\ log'[Len(log) + 1].receiptHash \in DOMAIN external
          /\ attestorKey' = attestorKey
       \/ \E key :
             /\ log'[Len(log) + 1].event = "AttestorRegistered"
             /\ log'[Len(log) + 1].attestor = a
             /\ log'[Len(log) + 1].key = key
             /\ attestorKey' = [attestorKey EXCEPT ![a] = key]
             /\ \A p \in Passkeys : key = KeyOf[p] => a = p

\* Registered by whom it belongs to, and nothing unlogged, after any growth.
LEMMA GrownLog ==
    ASSUME PageInv, NEW a \in Passkeys, LogGrowsBy(a),
           UNCHANGED external, UNCHANGED <<view>>
    PROVE  KeysLogged' /\ LogBacked' /\ ShownIsRegistered'
<1> DEFINE n == Len(log) + 1
<1>1. Len(log) \in Nat /\ Len(log') = n
  BY DEF PageInv, PageTypeOK, LogGrowsBy
<1>2. \A i \in 1..Len(log) : i \in 1..Len(log') /\ log'[i] = log[i]
  BY <1>1 DEF LogGrowsBy
<1>3. ShownIsRegistered'
  BY <1>2 DEF PageInv, ShownIsRegistered
<1>4. LogBacked'
  BY <1>1, <1>2 DEF PageInv, LogBacked, LogGrowsBy
<1>5. ASSUME NEW b \in Passkeys, NEW p \in Passkeys, attestorKey'[b] = KeyOf[p]
      PROVE  b = p /\ RegisteredBy(p, KeyOf[p])'
  <2>1. CASE attestorKey[b] = KeyOf[p]
    <3>1. b = p /\ RegisteredBy(p, KeyOf[p])
      BY <1>5, <2>1 DEF PageInv, KeysLogged
    <3> QED BY <1>2, <3>1 DEF RegisteredBy
  <2>2. CASE attestorKey[b] # KeyOf[p]
    <3>1. b = a /\ a = p /\ KeyOf[p] = log'[n].key
          /\ log'[n].event = "AttestorRegistered" /\ log'[n].attestor = a
      <4>1. b \in Attestors /\ a \in Attestors
        BY PasskeyAssumption
      <4>2. attestorKey = [c \in Attestors |-> attestorKey[c]]
        BY DEF PageInv, PageTypeOK
      <4>3. PICK key :
              /\ log'[n].event = "AttestorRegistered"
              /\ log'[n].attestor = a
              /\ log'[n].key = key
              /\ attestorKey' = [attestorKey EXCEPT ![a] = key]
              /\ \A q \in Passkeys : key = KeyOf[q] => a = q
        BY <1>5, <2>2 DEF LogGrowsBy
      <4>4. attestorKey'[b] = IF b = a THEN key ELSE attestorKey[b]
        BY <4>1, <4>2, <4>3
      <4> QED BY <1>5, <2>2, <4>3, <4>4
    <3>2. n \in 1..Len(log')
      BY <1>1
    <3> QED BY <3>1, <3>2 DEF RegisteredBy
  <2> QED BY <2>1, <2>2
<1> QED BY <1>3, <1>4, <1>5 DEF KeysLogged

-----------------------------------------------------------------------------
(* What each step does to tasks, transactions, log and store               *)

Advanced ==
    /\ Advances
    /\ DOMAIN external \subseteq DOMAIN external'

\* A task that promises nothing.
LEMMA PlainTaskOK ==
    ASSUME NEW task, NEW o, NEW use, NEW served,
           task.at \notin {"publishing", "published", "sending"}
    PROVE  TaskOK(task, o, use, served)
BY DEF TaskOK

\* A task that was there before.
LEMMA OldTaskOK ==
    ASSUME PageInv, Advanced, NEW u \in Slots, tasks'[u] = tasks[u]
    PROVE  TaskOK(tasks'[u], opened', InUse', DOMAIN external')
<1>1. Len(opened) \in Nat /\ Len(opened') \in Nat
  BY DEF PageInv, PageTypeOK, Advanced, Advances
<1>2. TaskOK(tasks[u], opened, InUse, DOMAIN external)
  BY DEF PageInv
<1>3. Later(opened, opened') /\ Succeeds(InUse, InUse', opened')
      /\ DOMAIN external \subseteq DOMAIN external'
  BY DEF Advanced, Advances
<1>4. TaskOK(tasks[u], opened', InUse', DOMAIN external')
  BY <1>1, <1>2, <1>3, TaskStaysOK
<1> QED BY <1>4

\* Where an action sets one task, only that one has to be looked at.
LEMMA SetTask ==
    ASSUME PageInv, NEW t \in Slots, NEW task, tasks' = [tasks EXCEPT ![t] = task],
           NEW u \in Slots
    PROVE  tasks'[u] = (IF u = t THEN task ELSE tasks[u]) /\ u \in DOMAIN tasks
BY DEF PageInv, PageTypeOK

\* The tasks after a step that ends one, or leaves it something that promises
\* nothing, or leaves them alone.
Plain(t) ==
    \E task : /\ tasks' = [tasks EXCEPT ![t] = task]
              /\ task.at \notin {"publishing", "published", "sending"}
              /\ task.at \in {"reading", "comparing"} => task.who \in Passkeys

TasksOK ==
    /\ tasks' = [t \in Slots |-> tasks'[t]]
    /\ \A t \in Slots : TaskOK(tasks'[t], opened', InUse', DOMAIN external')
    /\ \A t \in Slots :
          tasks'[t].at \in {"reading", "comparing"} => tasks'[t].who \in Passkeys

LEMMA PlainTasks ==
    ASSUME PageInv, Advanced, NEW t \in Slots, Plain(t)
    PROVE  TasksOK
<1>1. PICK task : /\ tasks' = [tasks EXCEPT ![t] = task]
                  /\ task.at \notin {"publishing", "published", "sending"}
                  /\ task.at \in {"reading", "comparing"} => task.who \in Passkeys
  BY DEF Plain
<1>2. \A u \in Slots : tasks'[u] = IF u = t THEN task ELSE tasks[u]
  BY <1>1, SetTask
<1>3. tasks' = [u \in Slots |-> tasks'[u]]
  BY <1>1 DEF PageInv, PageTypeOK
<1>4. \A u \in Slots : TaskOK(tasks'[u], opened', InUse', DOMAIN external')
  BY <1>1, <1>2, OldTaskOK, PlainTaskOK
<1> QED BY <1>1, <1>2, <1>3, <1>4 DEF TasksOK, PageInv

LEMMA SameTasks ==
    ASSUME PageInv, Advanced, UNCHANGED tasks
    PROVE  TasksOK
<1>1. \A u \in Slots : TaskOK(tasks'[u], opened', InUse', DOMAIN external')
  BY OldTaskOK
<1> QED BY <1>1 DEF TasksOK, PageInv, PageTypeOK

LEMMA NewTask ==
    ASSUME PageInv, Advanced, NEW t \in Slots, NEW task,
           tasks' = [tasks EXCEPT ![t] = task],
           TaskOK(task, opened', InUse', DOMAIN external'),
           task.at \notin {"reading", "comparing"}
    PROVE  TasksOK
<1>2. \A u \in Slots : tasks'[u] = IF u = t THEN task ELSE tasks[u]
  BY SetTask
<1>3. tasks' = [u \in Slots |-> tasks'[u]]
  BY DEF PageInv, PageTypeOK
<1>4. \A u \in Slots : TaskOK(tasks'[u], opened', InUse', DOMAIN external')
  BY <1>2, OldTaskOK
<1> QED BY <1>2, <1>3, <1>4 DEF TasksOK, PageInv

TxsOK ==
    /\ txs' \in Seq(Transaction)
    /\ \A i \in 1..Len(txs') : TxOK(txs'[i], opened', DOMAIN external')

LEMMA SameTxs ==
    ASSUME PageInv, Advanced, UNCHANGED txs
    PROVE  TxsOK
<1>1. Len(opened) \in Nat /\ Len(opened') \in Nat
  BY DEF PageInv, PageTypeOK, Advanced, Advances
<1>2. \A i \in 1..Len(txs) : TxOK(txs[i], opened', DOMAIN external')
  BY <1>1, TxStaysOK DEF PageInv, Advanced, Advances
<1> QED BY <1>2 DEF TxsOK, PageInv, PageTypeOK

\* The parts of the invariant that steps off the chain and the store leave alone.
LEMMA QuietStep ==
    ASSUME PageInv, Advances, TasksOK, UNCHANGED <<txs, vars, storeVars>>,
           ShownIsRegistered'
    PROVE  PageInv'
<1>1. Advanced /\ TxsOK
  BY SameTxs DEF Advanced, storeVars
<1>2. PageTypeOK'
  BY <1>1 DEF PageInv, PageTypeOK, Advances, TasksOK, TxsOK, vars, storeVars
<1>3. KeysLogged' /\ LogBacked' /\ StoreServesPage'
  BY DEF PageInv, KeysLogged, RegisteredBy, LogBacked, StoreServesPage, vars, storeVars
<1> QED BY <1>1, <1>2, <1>3 DEF PageInv, TasksOK, TxsOK

LEMMA SameViewShown ==
    ASSUME ShownIsRegistered, UNCHANGED <<view, vars>>
    PROVE  ShownIsRegistered'
BY DEF ShownIsRegistered, vars

LEMMA QuietPlain ==
    ASSUME PageInv, Advances, NEW t \in Slots, Plain(t),
           UNCHANGED <<txs, vars, storeVars>>, ShownIsRegistered'
    PROVE  PageInv'
BY QuietStep, PlainTasks DEF Advanced, storeVars

LEMMA EndsIsPlain ==
    ASSUME NEW t \in Slots, Ends(t)
    PROVE  Plain(t)
<1>1. Idle.at = "idle"
  BY DEF Idle
<1> QED BY <1>1 DEF Ends, Plain

LEMMA RefreshIsPlain ==
    ASSUME PageInv, Advances, NEW t \in Slots, Refresh(t), UNCHANGED vars
    PROVE  Plain(t) /\ ShownIsRegistered'
<1>1. Plain(t)
  <2>1. CASE state' = 0
    <3>1. Idle.at = "idle"
      BY DEF Idle
    <3>2. tasks' = [tasks EXCEPT ![t] = Idle]
      BY <2>1 DEF Refresh, Refreshing
    <3> QED BY <3>1, <3>2 DEF Plain
  <2>2. CASE state' # 0
    <3>1. opened'[state'] \in Identity
      BY <2>2 DEF Advances
    <3>2. opened'[state'].address \in Passkeys
      BY <3>1 DEF Identity
    <3>3. Refreshing.at = "reading" /\ Refreshing.who \in Passkeys
      BY <2>2, <3>2 DEF Refreshing
    <3> QED BY <3>3 DEF Refresh, Plain
  <2> QED BY <2>1, <2>2
<1>2. ShownIsRegistered'
  <2>1. CASE state' = 0
    <3>1. view'.form = "locked"
      BY <2>1 DEF Refresh, LockedView
    <3> QED BY <3>1 DEF ShownIsRegistered
  <2>2. CASE state' # 0
    <3>1. view' = view
      BY <2>2 DEF Refresh
    <3> QED BY <3>1, SameViewShown DEF PageInv
  <2> QED BY <2>1, <2>2
<1> QED BY <1>1, <1>2

-----------------------------------------------------------------------------
(* The actions                                                             *)

LEMMA DialogSteps ==
    ASSUME PageInv, Advances, AskPasskey \/ Refuse \/ Lock
    PROVE  PageInv'
<1>1. UNCHANGED <<tasks, txs, vars, storeVars>>
  BY DEF AskPasskey, Refuse, Lock
<1>2. TasksOK
  BY <1>1, SameTasks DEF Advanced, storeVars
<1>3. ShownIsRegistered'
  <2>1. CASE AskPasskey \/ Refuse
    BY <2>1, SameViewShown DEF AskPasskey, Refuse, PageInv
  <2>2. CASE Lock
    <3>1. view'.form = "locked"
      BY <2>2 DEF Lock, LockedView
    <3> QED BY <3>1 DEF ShownIsRegistered
  <2> QED BY <2>1, <2>2
<1> QED BY <1>1, <1>2, <1>3, QuietStep

LEMMA UnlockStep ==
    ASSUME PageInv, Advances, NEW t \in Slots, NEW p \in Passkeys, Unlock(t, p)
    PROVE  PageInv'
BY RefreshIsPlain, QuietPlain DEF Unlock

\* A click finds the identity it acts for, and in use.
LEMMA Clicker ==
    ASSUME PageInv, NEW t \in Slots, Clicked(t)
    PROVE  /\ state \in 1..Len(opened)
           /\ InUse = {state}
           /\ opened[state] \in Identity
           /\ opened[state].address \in Passkeys
<1>1. state \in 1..Len(opened) /\ opened[state] \in Identity
  BY DEF PageInv, PageTypeOK, Clicked
<1>2. InUse = {state}
  BY DEF Clicked, InUse
<1> QED BY <1>1, <1>2 DEF Identity

LEMMA RegisterStep ==
    ASSUME PageInv, Advances, NEW t \in Slots, Register(t)
    PROVE  PageInv'
<1> DEFINE me   == opened[state].address
           call == [fn |-> "registerAttestor", key |-> KeyOf[me],
                    sig |-> Sign(me, RegistrationDigest(me, KeyOf[me]))]
           task == Sending(call)
<1>1. state \in 1..Len(opened) /\ InUse = {state} /\ me \in Passkeys
  BY Clicker DEF Register
<1>2. tasks' = [tasks EXCEPT ![t] = task]
  BY DEF Register
<1>3. UNCHANGED <<opened, state, prompt, view, txs, vars, storeVars>>
  BY DEF Register
<1>4. TaskOK(task, opened, InUse, DOMAIN external) /\ task.at = "sending"
  <2>1. call \in CallsOf(me) /\ call.fn = "registerAttestor"
    BY DEF CallsOf
  <2>2. task.at = "sending" /\ task.wallet = state /\ task.call = call
    BY DEF Sending
  <2> HIDE DEF task, call
  <2>3. SendingOK(task, opened, InUse, DOMAIN external)
    BY <1>1, <2>1, <2>2 DEF SendingOK, Backed
  <2> QED BY <2>2, <2>3 DEF TaskOK
<1>5. InUse' = InUse /\ opened' = opened /\ external' = external
  BY <1>3 DEF InUse, storeVars
<1>6. TaskOK(task, opened', InUse', DOMAIN external')
  BY <1>4, <1>5
<1>7. TasksOK
  <2> HIDE DEF task
  <2> QED BY <1>2, <1>4, <1>5, <1>6, NewTask DEF Advanced
<1> QED BY <1>3, <1>7, QuietStep, SameViewShown DEF PageInv

LEMMA RequestGasStep ==
    ASSUME PageInv, Advances, NEW t \in Slots, RequestGas(t)
    PROVE  PageInv'
<1>1. Plain(t)
  <2>1. [at |-> "gas"].at = "gas"
    OBVIOUS
  <2>2. tasks' = [tasks EXCEPT ![t] = [at |-> "gas"]]
    BY DEF RequestGas
  <2> QED BY <2>1, <2>2 DEF Plain
<1>2. UNCHANGED <<view, txs, vars, storeVars>>
  BY DEF RequestGas
<1> QED BY <1>1, <1>2, QuietPlain, SameViewShown DEF PageInv

\* What is signed in one go is about one tool and one identity.
LEMMA MadeScan ==
    ASSUME PageTypeOK, NEW p \in Passkeys, NEW tool \in Spelled,
           NEW content \in Manifests, NEW verdict \in Verdicts
    PROVE  LET receipt == Payload(tool, content, KeyOf[p])
           IN  /\ Scanned(tool, content, verdict, receipt) \in ScansOf(p)
               /\ Scanned(tool, content, verdict, receipt).receiptHash = receipt
               /\ SignReceipt(receipt, KeyOf[p]).payload = receipt
               /\ SignReceipt(receipt, KeyOf[p]).form = "jcs"
<1> DEFINE receipt == Payload(tool, content, KeyOf[p])
<1>1. ToolId(tool) \in ToolIds
  BY DEF ToolIds
<1>2. receipt \in ReceiptsOf(p)
  BY <1>1 DEF Payload, ReceiptsOf, PageTypeOK
<1> HIDE DEF receipt
<1>3. Scanned(tool, content, verdict, receipt) \in ScansOf(p)
  BY <1>1, <1>2 DEF Scanned, ScansOf
<1>4. Scanned(tool, content, verdict, receipt).receiptHash = receipt
  BY DEF Scanned
<1>5. SignReceipt(receipt, KeyOf[p]).payload = receipt
      /\ SignReceipt(receipt, KeyOf[p]).form = "jcs"
  BY DEF SignReceipt
<1> QED BY <1>3, <1>4, <1>5 DEF receipt

LEMMA ScanAndAnchorStep ==
    ASSUME PageInv, Advances, NEW t \in Slots, NEW tool \in Spelled,
           NEW content \in Manifests, NEW verdict \in Verdicts,
           ScanAndAnchor(t, tool, content, verdict)
    PROVE  PageInv'
<1> DEFINE me      == opened[state].address
           receipt == Payload(tool, content, KeyOf[me])
           scanned == Scanned(tool, content, verdict, receipt)
           jws     == SignReceipt(receipt, KeyOf[me])
           task    == [at |-> "publishing", anchors |-> state,
                       scanned |-> scanned, jws |-> jws]
<1>1. state \in 1..Len(opened) /\ InUse = {state} /\ me \in Passkeys
  BY Clicker DEF ScanAndAnchor
<1>2. tasks' = [tasks EXCEPT ![t] = task]
  BY DEF ScanAndAnchor
<1>3. UNCHANGED <<opened, state, prompt, view, txs, vars, storeVars>>
  BY DEF ScanAndAnchor
<1>4. /\ scanned \in ScansOf(me) /\ scanned.receiptHash = receipt
      /\ jws.payload = receipt /\ jws.form = "jcs"
  BY <1>1, MadeScan DEF PageInv
<1>5. InUse' = InUse /\ opened' = opened /\ external' = external
  BY <1>3 DEF InUse, storeVars
<1>6. TaskOK(task, opened', InUse', DOMAIN external') /\ task.at = "publishing"
  <2> HIDE DEF scanned, jws, receipt
  <2>1. /\ task.at = "publishing" /\ task.anchors = state /\ task.scanned = scanned
        /\ task.jws = jws
    OBVIOUS
  <2> HIDE DEF task
  <2> QED BY <1>1, <1>4, <1>5, <2>1 DEF TaskOK, AnchorOK
<1>7. TasksOK
  <2> HIDE DEF task
  <2> QED BY <1>2, <1>5, <1>6, NewTask DEF Advanced
<1> QED BY <1>3, <1>7, QuietStep, SameViewShown DEF PageInv

\* The panel calls the key matching only where the registry's key of the address
\* that was read is the current identity's, and then the two are one.
LEMMA ReadSteps ==
    ASSUME PageInv, Advances, NEW t \in Slots,
           Compare(t) \/ \E low \in BOOLEAN : Read(t, low)
    PROVE  PageInv'
<1>1. UNCHANGED <<opened, state, prompt, txs, vars, storeVars>>
  BY DEF Compare, Read
<1>2. ASSUME state # 0
      PROVE  opened[state].address \in Passkeys
  <2>1. opened[state] \in Identity
    BY <1>2 DEF PageInv, PageTypeOK
  <2> QED BY <2>1 DEF Identity
<1>3. ASSUME Compare(t) PROVE Plain(t) /\ ShownIsRegistered'
  <2>1. Plain(t)
    BY <1>3, EndsIsPlain DEF Compare
  <2>2. CASE state = 0
    <3>1. view' = view
      BY <1>3, <2>2 DEF Compare
    <3> QED BY <1>1, <3>1, <2>1, SameViewShown DEF PageInv
  <2>3. CASE state # 0
    <3> DEFINE a == opened[state].address
               who == tasks[t].who
    <3>1. who \in Passkeys /\ a \in Passkeys
      BY <1>2, <1>3, <2>3 DEF PageInv, Compare
    <3>2. view' = Panel(a, tasks[t].low, TRUE, attestorKey[who] = KeyOf[a])
      BY <1>3, <2>3 DEF Compare
    <3>3. view'.address = a /\ (view'.keyMatches <=> attestorKey[who] = KeyOf[a])
      BY <3>2 DEF Panel
    <3>4. log' = log
      BY <1>1 DEF vars
    <3>5. view'.keyMatches => RegisteredBy(a, KeyOf[a])
      BY <3>1, <3>3 DEF PageInv, KeysLogged
    <3> HIDE DEF a
    <3>6. view'.keyMatches =>
             \E i \in 1..Len(log') : /\ log'[i].event = "AttestorRegistered"
                                     /\ log'[i].attestor = view'.address
                                     /\ log'[i].key = KeyOf[view'.address]
      BY <3>3, <3>4, <3>5, Zenon DEF RegisteredBy
    <3> QED BY <2>1, <3>6, Zenon DEF ShownIsRegistered
  <2> QED BY <2>1, <2>2, <2>3
<1>4. ASSUME NEW low \in BOOLEAN, Read(t, low) PROVE Plain(t) /\ ShownIsRegistered'
  <2>1. CASE state = 0
    BY <1>1, <1>4, <2>1, SameViewShown, EndsIsPlain DEF Read, PageInv
  <2>2. CASE state # 0 /\ IsRegistered(tasks[t].who)
    <3> DEFINE task == [at |-> "comparing", who |-> opened[state].address, low |-> low]
    <3>1. tasks' = [tasks EXCEPT ![t] = task] /\ view' = view
      BY <1>4, <2>2 DEF Read
    <3>2. task.at = "comparing" /\ task.who \in Passkeys
      BY <1>2, <2>2
    <3> HIDE DEF task
    <3>3. Plain(t)
      BY <3>1, <3>2 DEF Plain
    <3> QED BY <1>1, <3>1, <3>3, SameViewShown DEF PageInv
  <2>3. CASE state # 0 /\ ~ IsRegistered(tasks[t].who)
    <3>1. Ends(t) /\ view' = Panel(opened[state].address, low, FALSE, FALSE)
      BY <1>4, <2>3 DEF Read
    <3>2. ~ view'.keyMatches
      BY <3>1 DEF Panel
    <3> QED BY <3>1, <3>2, EndsIsPlain DEF ShownIsRegistered
  <2> QED BY <2>1, <2>2, <2>3
<1> QED BY <1>1, <1>3, <1>4, QuietPlain

LEMMA PublishStep ==
    ASSUME PageInv, Advances, NEW t \in Slots, Publish(t)
    PROVE  PageInv'
<1> DEFINE old == tasks[t]
           new == Acknowledged(old)
<1>1. old.at = "publishing" /\ PostReceipt(old.jws)
      /\ UNCHANGED <<vars, opened, state, prompt, view, txs>>
  BY DEF Publish
<1>2. /\ AnchorOK(old, opened, InUse)
      /\ old.jws.payload = old.scanned.receiptHash
      /\ old.jws.form = "jcs"
  BY <1>1 DEF PageInv, TaskOK
<1>3. /\ StoreServesPage'
      /\ DOMAIN external \subseteq DOMAIN external'
      /\ old.scanned.receiptHash \in DOMAIN external'
      /\ second' = second
  BY <1>1, <1>2, PublishServes DEF PageInv, PostReceipt
<1>4. Advanced
  BY <1>3 DEF Advanced
<1>5. InUse' = InUse /\ opened' = opened
  BY <1>1 DEF InUse
<1>6. new.at = "published" /\ new.anchors = old.anchors /\ new.scanned = old.scanned
  BY DEF Acknowledged
<1>7. TasksOK
  <2> HIDE DEF new, old
  <2>1. TaskOK(new, opened', InUse', DOMAIN external')
    BY <1>2, <1>3, <1>5, <1>6 DEF TaskOK, AnchorOK
  <2>2. PICK answered \in BOOLEAN :
           tasks' = [tasks EXCEPT ![t] = IF answered THEN new ELSE Idle]
    BY DEF Publish, new, old
  <2>3. CASE answered
    BY <1>4, <1>6, <2>1, <2>2, <2>3, NewTask
  <2>4. CASE ~ answered
    BY <1>4, <2>2, <2>4, EndsIsPlain, PlainTasks DEF Ends
  <2> QED BY <2>3, <2>4
<1>8. TxsOK
  BY <1>1, <1>4, SameTxs
<1>9. PageTypeOK'
  BY <1>1, <1>3, <1>7, <1>8 DEF PageInv, PageTypeOK, Advances, TasksOK, TxsOK, vars
<1>10. KeysLogged' /\ ShownIsRegistered'
  BY <1>1, SameViewShown DEF PageInv, KeysLogged, RegisteredBy, vars
<1>11. LogBacked'
  BY <1>1, <1>3 DEF PageInv, LogBacked, vars
<1> QED BY <1>3, <1>7, <1>8, <1>9, <1>10, <1>11 DEF PageInv, TasksOK, TxsOK

\* The key that can still sign is the one in use, so what is signed for the
\* identity of the start is handed to its own wallet.
LEMMA SignAnchorStep ==
    ASSUME PageInv, Advances, NEW t \in Slots, SignAnchor(t)
    PROVE  PageInv'
<1> DEFINE old  == tasks[t]
           me   == opened[old.anchors].address
           sc   == ScanInputOf(old.scanned, Sign(me, AnchorDigest(me, old.scanned)))
           call == [fn |-> "anchorScan", sc |-> sc]
           new  == Sending(call)
<1>1. old.at = "published"
      /\ UNCHANGED <<opened, state, prompt, view, txs, vars, storeVars>>
  BY DEF SignAnchor
<1>2. AnchorOK(old, opened, InUse) /\ old.scanned.receiptHash \in DOMAIN external
  BY <1>1 DEF PageInv, TaskOK
<1>3. InUse' = InUse /\ opened' = opened /\ external' = external /\ Advanced
  BY <1>1 DEF InUse, storeVars, Advanced
<1>4. CASE state = 0 \/ ~ CanSign(old.anchors)
  <2>1. Plain(t)
    BY <1>4, EndsIsPlain DEF SignAnchor, Ends
  <2> QED BY <1>1, <2>1, QuietPlain, SameViewShown DEF PageInv
<1>5. CASE ~ (state = 0 \/ ~ CanSign(old.anchors))
  <2>1. tasks' = [tasks EXCEPT ![t] = new]
    BY <1>5 DEF SignAnchor
  <2>2. InUse = {state} /\ old.anchors = state
    BY <1>2, <1>5 DEF AnchorOK, CanSign, InUse
  <2>3. sc \in InputsOf(me) /\ sc.receiptHash = old.scanned.receiptHash
    <3> DEFINE sig == Sign(me, AnchorDigest(me, old.scanned))
               sigs == {Sign(me, AnchorDigest(me, x)) : x \in ScansOf(me)}
    <3>1. old.scanned \in ScansOf(me)
      BY <1>2 DEF AnchorOK
    <3>2. sig \in sigs
      BY <3>1
    <3> HIDE DEF sig, sigs
    <3>3. InputsOf(me) =
            [toolId : ToolIds, contentHash : Manifests, verdict : Verdicts, score : {0},
             receiptHash : ReceiptsOf(me), sig : sigs]
      BY DEF InputsOf, sigs
    <3>4. ScanInputOf(old.scanned, sig) \in
            [toolId : ToolIds, contentHash : Manifests, verdict : Verdicts, score : {0},
             receiptHash : ReceiptsOf(me), sig : sigs]
      BY <3>1, <3>2 DEF ScanInputOf, ScansOf
    <3>5. ScanInputOf(old.scanned, sig).receiptHash = old.scanned.receiptHash
      BY DEF ScanInputOf
    <3> QED BY <3>3, <3>4, <3>5 DEF sig
  <2>4. call \in CallsOf(me) /\ call.sc = sc
    <3> HIDE DEF sc
    <3> QED BY <2>3 DEF CallsOf
  <2>5. new.at = "sending" /\ new.wallet = state /\ new.call = call
    BY DEF Sending
  <2> HIDE DEF new, call, sc
  <2>6. SendingOK(new, opened, InUse, DOMAIN external)
    BY <1>2, <2>2, <2>3, <2>4, <2>5 DEF SendingOK, Backed, AnchorOK
  <2>7. TaskOK(new, opened', InUse', DOMAIN external')
    BY <1>3, <2>5, <2>6 DEF TaskOK
  <2>8. TasksOK
    BY <1>3, <2>1, <2>5, <2>7, NewTask
  <2> QED BY <1>1, <2>8, QuietStep, SameViewShown DEF PageInv
<1> QED BY <1>4, <1>5

\* Nothing but a task ends, or the panel is refreshed.
LEMMA EndingSteps ==
    ASSUME PageInv, Advances, NEW t \in Slots,
           PublishFails(t) \/ SendFails(t) \/ Receipted(t) \/ WaitTimesOut(t)
             \/ GasAnswered(t)
    PROVE  PageInv'
<1>1. UNCHANGED <<txs, vars, storeVars>> /\ UNCHANGED vars
  BY DEF PublishFails, SendFails, Receipted, WaitTimesOut, GasAnswered
<1>2. (Ends(t) /\ UNCHANGED view) \/ Refresh(t)
  BY DEF PublishFails, SendFails, Receipted, WaitTimesOut, GasAnswered
<1>3. CASE Ends(t) /\ UNCHANGED view
  BY <1>1, <1>3, EndsIsPlain, QuietPlain, SameViewShown DEF PageInv
<1>4. CASE Refresh(t)
  BY <1>1, <1>4, RefreshIsPlain, QuietPlain
<1> QED BY <1>2, <1>3, <1>4

\* A session that has not ended is the one in use.
LEMMA SenderIsCurrent ==
    ASSUME PageInv, NEW t \in Slots, Send(t)
    PROVE  /\ SendingOK(tasks[t], opened, InUse, DOMAIN external)
           /\ tasks[t].wallet = state
<1>1. SendingOK(tasks[t], opened, InUse, DOMAIN external)
  BY DEF Send, PageInv, TaskOK
<1>2. tasks[t].wallet \in InUse
  BY <1>1 DEF Send, SendingOK
<1> QED BY <1>1, <1>2 DEF InUse

LEMMA SendStep ==
    ASSUME PageInv, Advances, NEW t \in Slots, Send(t)
    PROVE  PageInv'
<1> DEFINE tx == [wallet |-> tasks[t].wallet, call |-> tasks[t].call, status |-> "pending"]
<1>1. SendingOK(tasks[t], opened, InUse, DOMAIN external)
  BY SenderIsCurrent
<1>2. txs' = Append(txs, tx) /\ UNCHANGED <<opened, state, prompt, view, vars, storeVars>>
  BY DEF Send
<1>3. external' = external /\ opened' = opened /\ Advanced
  BY <1>2 DEF storeVars, Advanced
<1>4. Plain(t)
  <2>1. PICK answered \in BOOLEAN :
          tasks' = [tasks EXCEPT ![t] =
                      IF answered THEN [at |-> "waiting", tx |-> Len(txs) + 1,
                                        call |-> tasks[t].call]
                      ELSE Idle]
    BY DEF Send
  <2>2. CASE ~ answered
    BY <2>1, <2>2, EndsIsPlain DEF Ends
  <2>3. CASE answered
    <3> DEFINE new == [at |-> "waiting", tx |-> Len(txs) + 1, call |-> tasks[t].call]
    <3>1. new.at = "waiting"
      OBVIOUS
    <3>2. tasks' = [tasks EXCEPT ![t] = new]
      BY <2>1, <2>3
    <3> HIDE DEF new
    <3> QED BY <3>1, <3>2 DEF Plain
  <2> QED BY <2>2, <2>3
<1>5. TasksOK
  BY <1>3, <1>4, PlainTasks
<1>6. TxsOK
  <2>1. tx \in Transaction /\ TxOK(tx, opened, DOMAIN external)
    <3>1. /\ tasks[t].wallet \in 1..Len(opened)
          /\ tasks[t].call \in CallsOf(opened[tasks[t].wallet].address)
          /\ Backed(tasks[t].call, DOMAIN external)
      BY <1>1 DEF SendingOK
    <3>2. opened[tasks[t].wallet] \in Identity
      BY <3>1 DEF PageInv, PageTypeOK
    <3>3. opened[tasks[t].wallet].address \in Passkeys
      BY <3>2 DEF Identity
    <3>4. tasks[t].call \in UNION {CallsOf(p) : p \in Passkeys}
      BY <3>1, <3>3
    <3>5. tasks[t].wallet \in Nat
      BY <3>1 DEF PageInv, PageTypeOK
    <3> QED BY <3>1, <3>4, <3>5 DEF Transaction, TxOK
  <2> HIDE DEF tx
  <2>2. /\ txs' \in Seq(Transaction) /\ Len(txs') = Len(txs) + 1
        /\ txs'[Len(txs) + 1] = tx /\ Len(txs) \in Nat
        /\ \A i \in 1..Len(txs) : txs'[i] = txs[i]
    BY <1>2, <2>1 DEF PageInv, PageTypeOK
  <2>3. \A i \in 1..Len(txs') : TxOK(txs'[i], opened, DOMAIN external)
    BY <2>1, <2>2 DEF PageInv
  <2> QED BY <1>3, <2>2, <2>3 DEF TxsOK
<1>7. PageTypeOK'
  BY <1>2, <1>5, <1>6 DEF PageInv, PageTypeOK, Advances, TasksOK, TxsOK, vars, storeVars
<1>8. KeysLogged' /\ LogBacked' /\ StoreServesPage' /\ ShownIsRegistered'
  BY <1>2, SameViewShown
     DEF PageInv, KeysLogged, RegisteredBy, LogBacked, StoreServesPage, vars, storeVars
<1> QED BY <1>5, <1>6, <1>7, <1>8 DEF PageInv, TasksOK, TxsOK

\* A transaction of a passkey's address that passes leaves the log one longer.
LEMMA ChainStep ==
    ASSUME PageInv, Advances, TasksOK, TxsOK, UNCHANGED <<view, storeVars>>,
           now' = now, NEW a \in Passkeys, LogGrowsBy(a)
    PROVE  PageInv'
<1>1. KeysLogged' /\ LogBacked' /\ ShownIsRegistered'
  BY GrownLog DEF storeVars
<1>2. log' \in Seq(UNION {EventsOf(p) : p \in Passkeys})
  BY DEF LogGrowsBy
<1>3. attestorKey' = [c \in Attestors |-> attestorKey'[c]]
  <2>1. attestorKey = [c \in Attestors |-> attestorKey[c]]
    BY DEF PageInv, PageTypeOK
  <2>2. attestorKey' = attestorKey
        \/ \E key : attestorKey' = [attestorKey EXCEPT ![a] = key]
    BY DEF LogGrowsBy
  <2> QED BY <2>1, <2>2
<1>4. PageTypeOK'
  BY <1>2, <1>3 DEF PageInv, PageTypeOK, Advances, TasksOK, TxsOK, storeVars
<1>5. StoreServesPage'
  BY DEF PageInv, StoreServesPage, storeVars
<1> QED BY <1>1, <1>4, <1>5 DEF PageInv, TasksOK, TxsOK

LEMMA MineStep ==
    ASSUME PageInv, Advances, NEW i \in 1..Len(txs), Mine(i)
    PROVE  PageInv'
<1> DEFINE tx     == txs[i]
           sender == opened[tx.wallet].address
           call   == tx.call
<1>1. UNCHANGED <<opened, state, prompt, view, tasks, storeVars>>
  BY DEF Mine
<1>2. external' = external /\ opened' = opened /\ Advanced
  BY <1>1 DEF storeVars, Advanced
<1>3. TasksOK
  BY <1>1, <1>2, SameTasks
<1>4. TxOK(tx, opened, DOMAIN external) /\ tx \in Transaction
  BY DEF PageInv, PageTypeOK
<1>5. sender \in Passkeys /\ sender \in Attestors
  <2>1. opened[tx.wallet] \in Identity
    BY <1>4 DEF TxOK, PageInv, PageTypeOK
  <2>2. sender \in Passkeys
    BY <2>1 DEF Identity
  <2> QED BY <2>2, PasskeyAssumption
<1>6. TxsOK
  <2>1. PICK mined \in {"success", "reverted"} : txs' = [txs EXCEPT ![i].status = mined]
    BY DEF Mine
  <2> DEFINE new == [tx EXCEPT !.status = mined]
  <2>2. new \in Transaction /\ new.wallet = tx.wallet /\ new.call = tx.call
    BY <1>4 DEF Transaction
  <2>3. TxOK(new, opened, DOMAIN external)
    <3> HIDE DEF new
    <3> QED BY <1>4, <2>2 DEF TxOK
  <2>4. txs' = [txs EXCEPT ![i] = new]
    BY <2>1
  <2> HIDE DEF new
  <2>5. /\ txs' \in Seq(Transaction) /\ Len(txs') = Len(txs)
        /\ \A j \in 1..Len(txs) : txs'[j] = IF j = i THEN new ELSE txs[j]
    BY <2>2, <2>4 DEF PageInv, PageTypeOK
  <2>6. \A j \in 1..Len(txs') : TxOK(txs'[j], opened, DOMAIN external)
    BY <2>3, <2>5 DEF PageInv
  <2> QED BY <1>2, <2>5, <2>6 DEF TxsOK
<1>7. ASSUME call.fn = "registerAttestor", RegisterAttestor(sender, call.key, call.sig)
      PROVE  LogGrowsBy(sender) /\ now' = now
  <2>1. call.key = KeyOf[sender]
    BY <1>4, <1>7 DEF TxOK, CallsOf
  <2>2. PICK p \in Passkeys : p = sender
    BY <1>5
  <2>2a. PICK key, sig : key = call.key /\ sig = call.sig
    OBVIOUS
  <2>3. /\ p \in Attestors /\ PageTypeOK /\ RegisterAttestor(p, key, sig)
        /\ key \in {KeyOf[p]} \cup {s.key : s \in Signatures}
        /\ key = KeyOf[p]
    BY <1>5, <1>7, <2>1, <2>2, <2>2a DEF PageInv
  <2>4. /\ log' \in Seq(UNION {EventsOf(q) : q \in Passkeys})
        /\ Len(log') = Len(log) + 1
        /\ \A n \in 1..Len(log) : log'[n] = log[n]
        /\ log'[Len(log) + 1].event = "AttestorRegistered"
        /\ log'[Len(log) + 1].attestor = p
        /\ log'[Len(log) + 1].key = key
        /\ attestorKey' = [attestorKey EXCEPT ![p] = key]
        /\ now' = now
    BY <2>3, RegistrationEffect
  <2>5. \A q \in Passkeys : key = KeyOf[q] => p = q
    BY <2>3, PasskeyAssumption
  <2>6. LogGrowsBy(p)
    BY <2>4, <2>5 DEF LogGrowsBy
  <2> QED BY <2>2, <2>4, <2>6
<1>8. ASSUME call.fn # "registerAttestor", AnchorScan(sender, call.sc)
      PROVE  LogGrowsBy(sender) /\ now' = now
  <2>1. call.fn = "anchorScan" /\ call.sc \in InputsOf(sender)
    BY <1>4, <1>8 DEF TxOK, CallsOf
  <2>2. call.sc.receiptHash \in DOMAIN external
    BY <1>4, <2>1 DEF TxOK, Backed
  <2>3. /\ log' \in Seq(UNION {EventsOf(q) : q \in Passkeys})
        /\ Len(log') = Len(log) + 1
        /\ \A n \in 1..Len(log) : log'[n] = log[n]
        /\ log'[Len(log) + 1].event = "ScanAnchored"
        /\ log'[Len(log) + 1].receiptHash = call.sc.receiptHash
        /\ attestorKey' = attestorKey
        /\ now' = now
    BY <1>5, <1>8, <2>1, AnchorEffect DEF PageInv
  <2> QED BY <2>2, <2>3 DEF LogGrowsBy
<1>9. CASE UNCHANGED vars
  <2>1. PageTypeOK'
    BY <1>1, <1>3, <1>6, <1>9 DEF PageInv, PageTypeOK, Advances, TasksOK, TxsOK, vars, storeVars
  <2>2. KeysLogged' /\ LogBacked' /\ StoreServesPage' /\ ShownIsRegistered'
    BY <1>1, <1>9, SameViewShown
       DEF PageInv, KeysLogged, RegisteredBy, LogBacked, StoreServesPage, vars, storeVars
  <2> QED BY <1>3, <1>6, <2>1, <2>2 DEF PageInv, TasksOK, TxsOK
<1>10. \/ UNCHANGED vars
       \/ call.fn = "registerAttestor" /\ RegisterAttestor(sender, call.key, call.sig)
       \/ call.fn # "registerAttestor" /\ AnchorScan(sender, call.sc)
  BY DEF Mine
<1>11. UNCHANGED <<view, storeVars>>
  BY <1>1
<1> HIDE DEF sender, call, tx
<1> QED BY <1>3, <1>5, <1>6, <1>7, <1>8, <1>9, <1>10, <1>11, ChainStep

\* Nobody else's consent is among the signatures.
LEMMA ElsewhereStep ==
    ASSUME PageInv, Advances, NEW p \in Passkeys, NEW sig \in Signatures,
           RegisterElsewhere(p, sig.key, sig)
    PROVE  PageInv'
<1>1. RegisterAttestor(p, sig.key, sig) /\ UNCHANGED pageVars /\ UNCHANGED storeVars
  BY DEF RegisterElsewhere
<1>2. Advanced
  BY <1>1 DEF Advanced, storeVars
<1>3. TasksOK /\ TxsOK
  BY <1>1, <1>2, SameTasks, SameTxs DEF pageVars
<1>4. p \in Attestors /\ PageTypeOK /\ sig.key \in {KeyOf[p]} \cup {s.key : s \in Signatures}
  BY PasskeyAssumption DEF PageInv
<1>5. /\ log' \in Seq(UNION {EventsOf(q) : q \in Passkeys})
      /\ Len(log') = Len(log) + 1
      /\ \A n \in 1..Len(log) : log'[n] = log[n]
      /\ log'[Len(log) + 1].event = "AttestorRegistered"
      /\ log'[Len(log) + 1].attestor = p
      /\ log'[Len(log) + 1].key = sig.key
      /\ attestorKey' = [attestorKey EXCEPT ![p] = sig.key]
      /\ now' = now
  BY <1>1, <1>4, RegistrationEffect
<1>6. \A q \in Passkeys : sig.key = KeyOf[q] => p = q
  <2> SUFFICES ASSUME NEW q \in Passkeys, sig.key = KeyOf[q] PROVE p = q
    OBVIOUS
  <2>1. sig = [key |-> KeyOf[q], digest |-> RegistrationDigest(p, KeyOf[q])]
    BY <1>1 DEF RegisterAttestor, VerifyP256
  <2> QED BY <2>1, ConsentAssumption
<1>7. LogGrowsBy(p)
  BY <1>5, <1>6 DEF LogGrowsBy
<1>8. UNCHANGED <<view, storeVars>>
  BY <1>1 DEF pageVars
<1> QED BY <1>3, <1>5, <1>7, <1>8, ChainStep

-----------------------------------------------------------------------------
(* The invariant, and what it says                                         *)

LEMMA PageInit ==
    ASSUME BrowserInit
    PROVE  PageInv
<1>1. view.form = "locked" /\ InUse = {}
  BY DEF BrowserInit, LockedView, InUse
<1>2. \A t \in Slots : tasks[t].at = "idle"
  BY DEF BrowserInit, Idle
<1>3. PageTypeOK
  <2>1. opened = <<>> /\ state = 0 /\ prompt = FALSE /\ txs = <<>> /\ log = <<>>
        /\ now = 1 /\ second = 1 /\ tasks = [t \in Slots |-> Idle]
        /\ attestorKey = [a \in Attestors |-> Zero]
    BY DEF BrowserInit, Init, StoreInit
  <2>2. state \in 0..Len(opened) /\ prompt \in BOOLEAN
    <3>1. Len(<<>>) = 0
      OBVIOUS
    <3>2. state \in 0..Len(opened)
      BY <2>1, <3>1
    <3>3. prompt \in BOOLEAN
      BY <2>1
    <3> QED BY <3>2, <3>3
  <2>3. /\ opened \in Seq(Identity) /\ txs \in Seq(Transaction)
        /\ log \in Seq(UNION {EventsOf(p) : p \in Passkeys})
    <3>1. \A S : <<>> \in Seq(S)
      OBVIOUS
    <3> QED BY <2>1, <3>1, Zenon
  <2>4. /\ tasks = [t \in Slots |-> tasks[t]]
        /\ attestorKey = [a \in Attestors |-> attestorKey[a]]
        /\ now \in Nat /\ second \in Nat
    BY <2>1
  <2> QED BY <1>1, <2>2, <2>3, <2>4 DEF PageTypeOK
<1>4. \A t \in Slots : TaskOK(tasks[t], opened, InUse, DOMAIN external)
  BY <1>2 DEF TaskOK
<1>5. \A i \in 1..Len(txs) : TxOK(txs[i], opened, DOMAIN external)
  BY DEF BrowserInit
<1>6. KeysLogged
  <2> SUFFICES ASSUME NEW a \in Passkeys, NEW p \in Passkeys, attestorKey[a] = KeyOf[p]
               PROVE  FALSE
    BY DEF KeysLogged
  <2>1. attestorKey[a] = Zero
    BY PasskeyAssumption DEF BrowserInit, Init
  <2>2. KeyOf[p] \in Keys
    BY PasskeyAssumption
  <2> QED BY <2>1, <2>2, ZeroAssumption
<1>7. StoreServesPage
  BY DEF BrowserInit, StoreInit, StoreServesPage
<1>8. LogBacked
  BY DEF BrowserInit, Init, LogBacked
<1>9. ShownIsRegistered
  BY <1>1 DEF ShownIsRegistered
<1> QED BY <1>2, <1>3, <1>4, <1>5, <1>6, <1>7, <1>8, <1>9 DEF PageInv

LEMMA PageStep ==
    ASSUME PageInv, [BrowserNext]_browserVars
    PROVE  PageInv'
<1>1. ASSUME UNCHANGED browserVars PROVE PageInv'
  <2>1. UNCHANGED <<opened, state, prompt, view, tasks, txs, vars, storeVars>>
    BY <1>1 DEF browserVars, pageVars
  <2>2. Advances
    BY <2>1 DEF Advances, Later, Succeeds, InUse, PageInv, PageTypeOK
  <2>3. TasksOK
    BY <2>1, <2>2, SameTasks DEF Advanced, storeVars
  <2> QED BY <2>1, <2>2, <2>3, QuietStep, SameViewShown DEF PageInv
<1>2. ASSUME BrowserNext PROVE PageInv'
  <2>1. Advances
    BY <1>2, PageAdvances DEF PageInv
  <2>2. CASE AskPasskey \/ Refuse \/ Lock
    BY <2>1, <2>2, DialogSteps
  <2>3. ASSUME NEW t \in Slots, NEW p \in Passkeys, Unlock(t, p) PROVE PageInv'
    BY <2>1, <2>3, UnlockStep
  <2>4. ASSUME NEW t \in Slots, Click(t) PROVE PageInv'
    BY <2>1, <2>4, RegisterStep, RequestGasStep, ScanAndAnchorStep DEF Click
  <2>5. ASSUME NEW t \in Slots, Answer(t) PROVE PageInv'
    BY <2>1, <2>5, ReadSteps, PublishStep, SignAnchorStep, SendStep, EndingSteps DEF Answer
  <2>6. ASSUME NEW i \in 1..Len(txs), Mine(i) PROVE PageInv'
    BY <2>1, <2>6, MineStep
  <2>7. ASSUME NEW p \in Passkeys, NEW sig \in Signatures, RegisterElsewhere(p, sig.key, sig)
        PROVE  PageInv'
    BY <2>1, <2>7, ElsewhereStep
  <2> QED BY <1>2, <2>2, <2>3, <2>4, <2>5, <2>6, <2>7 DEF BrowserNext
<1> QED BY <1>1, <1>2

\* PageInv is inductive: every reachable state of a page satisfies it.
THEOREM PageInvHolds == BrowserSpec => []PageInv
<1>1. BrowserInit => PageInv
  BY PageInit
<1>2. PageInv /\ [BrowserNext]_browserVars => PageInv'
  BY PageStep
<1> QED BY <1>1, <1>2, PTL DEF BrowserSpec

\* Whatever was locked, unlocked or switched while an anchor was under way, it
\* and the receipt it points to are one identity's (passkey.js:138).
THEOREM AnchorsOwnReceiptHolds == BrowserSpec => []AnchorsOwnReceipt
<1>1. PageInv => AnchorsOwnReceipt
  <2> SUFFICES ASSUME PageInv, NEW n \in 1..Len(log), log[n].event = "ScanAnchored"
               PROVE  log[n].receiptHash.attestor = KeyOf[log[n].attestor]
    BY DEF AnchorsOwnReceipt
  <2>1. PICK p \in Passkeys : log[n] \in EventsOf(p)
    BY DEF PageInv, PageTypeOK
  <2>2. log[n].attestor = p /\ log[n].receiptHash \in ReceiptsOf(p)
    BY <2>1 DEF EventsOf
  <2> QED BY <2>2 DEF ReceiptsOf
<1> QED BY <1>1, PageInvHolds, PTL

\* No anchor of the page is on chain before the node serves its receipt
\* (passkey.js:155).
THEOREM PublishedBeforeAnchoredHolds == BrowserSpec => []PublishedBeforeAnchored
<1>1. PageInv => PublishedBeforeAnchored
  BY DEF PageInv, LogBacked, StoreServesPage, PublishedBeforeAnchored, Served
<1> QED BY <1>1, PageInvHolds, PTL

\* A panel that shows a registered attestor with the right key is right, though
\* what it shows was read at several moments (passkey.js:105-117).
THEOREM ShownIsRegisteredHolds == BrowserSpec => []ShownIsRegistered
<1>1. PageInv => ShownIsRegistered
  BY DEF PageInv
<1> QED BY <1>1, PageInvHolds, PTL

\* No transaction is sent but by the identity in use (passkey.js:90-94, 119-120).
THEOREM OnlyCurrentSignsHolds == BrowserSpec => OnlyCurrentSigns
<1>1. ASSUME PageInv, [BrowserNext]_browserVars
      PROVE  [\A i \in (Len(txs) + 1)..Len(txs') : txs'[i].wallet = state]_browserVars
  <2> DEFINE Good == \A i \in (Len(txs) + 1)..Len(txs') : txs'[i].wallet = state
  <2>1. Len(txs) \in Nat /\ txs \in Seq(Transaction)
    BY <1>1 DEF PageInv, PageTypeOK
  <2>2. ASSUME Len(txs') = Len(txs) PROVE Good
    BY <2>1, <2>2
  <2>3. ASSUME UNCHANGED txs PROVE Good
    BY <2>2, <2>3
  <2>4. ASSUME NEW t \in Slots, Send(t) PROVE Good
    <3> DEFINE tx == [wallet |-> tasks[t].wallet, call |-> tasks[t].call,
                      status |-> "pending"]
    <3>1. tx.wallet = state /\ txs' = Append(txs, tx)
      BY <1>1, <2>4, SenderIsCurrent DEF Send
    <3>2. PageInv'
      BY <1>1, PageStep
    <3> HIDE DEF tx
    <3>3. Len(txs') = Len(txs) + 1 /\ txs'[Len(txs) + 1] = tx
      BY <2>1, <3>1
    <3> QED BY <2>1, <3>1, <3>3
  <2>5. ASSUME NEW i \in 1..Len(txs), Mine(i) PROVE Good
    <3>1. PICK mined \in {"success", "reverted"} : txs' = [txs EXCEPT ![i].status = mined]
      BY <2>5 DEF Mine
    <3>2. Len(txs') = Len(txs)
      BY <2>1, <3>1
    <3> QED BY <2>2, <3>2
  <2>6. ASSUME NEW t \in Slots, Answer(t), ~ Send(t) PROVE UNCHANGED txs
    BY <2>6 DEF Answer, Read, Compare, Publish, PublishFails, SignAnchor, SendFails,
                Receipted, WaitTimesOut, GasAnswered
  <2>7. ASSUME NEW t \in Slots, Click(t) PROVE UNCHANGED txs
    BY <2>7 DEF Click, Register, RequestGas, ScanAndAnchor
  <2>8. ASSUME NEW t \in Slots, NEW p \in Passkeys, Unlock(t, p) PROVE UNCHANGED txs
    BY <2>8 DEF Unlock
  <2>9. ASSUME NEW p \in Passkeys, NEW sig \in Signatures, RegisterElsewhere(p, sig.key, sig)
        PROVE  UNCHANGED txs
    BY <2>9 DEF RegisterElsewhere, pageVars
  <2>10. ASSUME AskPasskey \/ Refuse \/ Lock PROVE UNCHANGED txs
    BY <2>10 DEF AskPasskey, Refuse, Lock
  <2>11. ASSUME BrowserNext PROVE Good
    <3> HIDE DEF Good
    <3> QED BY <2>3, <2>4, <2>5, <2>6, <2>7, <2>8, <2>9, <2>10, <2>11 DEF BrowserNext
  <2> QED BY <1>1, <2>11
<1>2. PageInv /\ [BrowserNext]_browserVars
        => [\A i \in (Len(txs) + 1)..Len(txs') : txs'[i].wallet = state]_browserVars
  BY <1>1
<1> QED BY <1>2, PageInvHolds, PTL DEF BrowserSpec, OnlyCurrentSigns
=============================================================================
