-------------------------- MODULE PasskeyAttestor --------------------------
(***************************************************************************)
(* web/src/passkey.js and the buttons of web/index.html that drive it: a   *)
(* browser that is its own attestor.  A passkey yields an address and a    *)
(* P-256 key; the page registers the key, signs receipts, publishes them   *)
(* on a node (ReceiptStore) and anchors them on chain (ScanRegistry).      *)
(*                                                                         *)
(* Everything the page does awaits a network, and the module variable      *)
(* `state` may be another identity, or none, when the answer comes.  The   *)
(* code between two awaits is one action.                                  *)
(***************************************************************************)
EXTENDS ScanRegistry, ReceiptStore

CONSTANTS
    Passkeys,       \* addresses of the person's passkeys
    KeyOf,          \* address => the P-256 key the same passkey yields
    Verdicts,       \* what scans end with, UNKNOWN excluded: nothing is signed then
    Slots,          \* bound: page tasks under way at a time
    MaxOpens,       \* bound: passkeys opened
    MaxTxs          \* bound: transactions sent

ASSUME PasskeyAssumption ==
    /\ Passkeys \subseteq Attestors
    /\ KeyOf \in [Passkeys -> Keys]
    /\ Verdicts \subseteq 1..VERDICT_MAX
    /\ \A p, q \in Passkeys : KeyOf[p] = KeyOf[q] => p = q

\* A passkey's key consents to no address but the passkey's own: whatever device
\* it is on, register() signs for the address that came with it.
ASSUME ConsentAssumption ==
    \A p, q \in Passkeys :
        [key |-> KeyOf[p], digest |-> RegistrationDigest(q, KeyOf[p])] \in Signatures
            => p = q

VARIABLES
    opened,     \* what open() made so far: [address, wiped, ended]
    state,      \* its index among `opened`, 0 for null
    prompt,     \* the platform asks for a passkey: its dialog is modal
    view,       \* what the page shows
    tasks,      \* slot => what awaits its next answer there
    txs         \* transactions the node took: [wallet, call, status]

pageVars == <<opened, state, prompt, view, tasks, txs>>
browserVars == <<vars, storeVars, pageVars>>

Idle == [at |-> "idle"]
LockedView == [form |-> "locked"]
Panel(address, low, registered, keyMatches) ==
    [form |-> "panel", address |-> address, low |-> low,
     registered |-> registered, keyMatches |-> keyMatches]

BrowserInit ==
    /\ Init /\ StoreInit
    /\ opened = <<>> /\ state = 0 /\ prompt = FALSE
    /\ view = LockedView
    /\ tasks = [t \in Slots |-> Idle]
    /\ txs = <<>>

-----------------------------------------------------------------------------
(* One passkey, two keys                                                   *)

\* deriveAttestorKey: the key is wiped by filling it with zeros, and a zero
\* scalar signs nothing.
CanSign(s) == ~ opened[s].wiped

Sign(address, digest) == [key |-> KeyOf[address], digest |-> digest]

\* open(): the identity that was current before is dropped as it is.
Open(address) ==
    /\ opened' = Append(opened, [address |-> address, wiped |-> FALSE, ended |-> FALSE])
    /\ state' = Len(opened) + 1

\* MUTANT: the signing session outlives the lock.
Lock_SessionLives ==
    /\ view.form = "panel" /\ ~ prompt
    /\ opened' = IF state = 0 THEN opened ELSE [opened EXCEPT ![state].wiped = TRUE]
    /\ state' = 0
    /\ view' = LockedView
    /\ UNCHANGED <<prompt, tasks, txs, vars, storeVars>>

\* lock(), under its button: the session signs no more, the key is wiped.
Lock ==
    /\ view.form = "panel" /\ ~ prompt
    /\ opened' = IF state = 0 THEN opened
                 ELSE [opened EXCEPT ![state].wiped = TRUE, ![state].ended = TRUE]
    /\ state' = 0
    /\ view' = LockedView
    /\ UNCHANGED <<prompt, tasks, txs, vars, storeVars>>

-----------------------------------------------------------------------------
(* refresh() and status()                                                  *)

\* Where a task goes on when it calls refresh().
Refreshing == IF state' = 0 THEN Idle ELSE [at |-> "reading", who |-> opened'[state'].address]

Refresh(t) ==
    /\ tasks' = [tasks EXCEPT ![t] = Refreshing]
    /\ view' = IF state' = 0 THEN LockedView ELSE view

Ends(t) == tasks' = [tasks EXCEPT ![t] = Idle]

\* Balance and registration are read of the address that was current when the
\* read was sent.  What comes next looks at `state` again: it throws when that
\* is null, and summary() is of whoever is current.
Read(t, low) ==
    /\ tasks[t].at = "reading"
    /\ IF state = 0
       THEN Ends(t) /\ UNCHANGED view
       ELSE IF IsRegistered(tasks[t].who)
       THEN /\ tasks' = [tasks EXCEPT ![t] =
                [at |-> "comparing", who |-> opened[state].address, low |-> low]]
            /\ UNCHANGED view
       ELSE /\ Ends(t)
            /\ view' = Panel(opened[state].address, low, FALSE, FALSE)
    /\ UNCHANGED <<opened, state, prompt, txs, vars, storeVars>>

\* MUTANT: compared with the key of the identity the key was read of.
Compare_WithWhoWasRead(t) ==
    /\ tasks[t].at = "comparing"
    /\ Ends(t)
    /\ view' = IF state = 0 THEN view
               ELSE Panel(opened[state].address, tasks[t].low, TRUE,
                          attestorKey[tasks[t].who] = KeyOf[tasks[t].who])
    /\ UNCHANGED <<opened, state, prompt, txs, vars, storeVars>>

\* attestorKey(address) has come: it is compared with the current identity's.
Compare(t) ==
    /\ tasks[t].at = "comparing"
    /\ Ends(t)
    /\ view' = IF state = 0 THEN view
               ELSE Panel(opened[state].address, tasks[t].low, TRUE,
                          attestorKey[tasks[t].who] = KeyOf[opened[state].address])
    /\ UNCHANGED <<opened, state, prompt, txs, vars, storeVars>>

-----------------------------------------------------------------------------
(* Unlock, create                                                          *)

\* Either button of the locked view.
AskPasskey ==
    /\ view.form = "locked" /\ ~ prompt
    /\ Len(opened) < MaxOpens
    /\ prompt' = TRUE
    /\ UNCHANGED <<opened, state, view, tasks, txs, vars, storeVars>>

\* unlock() or create(): the person picks a passkey, or makes one.
Unlock(t, address) ==
    /\ prompt
    /\ tasks[t] = Idle
    /\ prompt' = FALSE
    /\ Open(address)
    /\ Refresh(t)
    /\ UNCHANGED <<txs, vars, storeVars>>

\* The person gives up, or the passkey cannot do it.
Refuse ==
    /\ prompt
    /\ prompt' = FALSE
    /\ UNCHANGED <<opened, state, view, tasks, txs, vars, storeVars>>

-----------------------------------------------------------------------------
(* register(), scanAndAnchor(), requestGas() and the send() under them     *)

Clicked(t) == view.form = "panel" /\ ~ prompt /\ tasks[t] = Idle

\* writeContract is called on the wallet that is current now.
Sending(call) == [at |-> "sending", wallet |-> state, call |-> call]

Register(t) ==
    LET me     == opened[state].address
        digest == RegistrationDigest(me, KeyOf[me])
    IN  /\ Clicked(t)
        /\ ~ view.registered /\ ~ view.low
        /\ state # 0 /\ CanSign(state)
        /\ tasks' = [tasks EXCEPT ![t] =
                Sending([fn |-> "registerAttestor", key |-> KeyOf[me],
                         sig |-> Sign(me, digest)])]
        /\ UNCHANGED <<opened, state, prompt, view, txs, vars, storeVars>>

RequestGas(t) ==
    /\ Clicked(t)
    /\ view.low /\ state # 0
    /\ tasks' = [tasks EXCEPT ![t] = [at |-> "gas"]]
    /\ UNCHANGED <<opened, state, prompt, view, txs, vars, storeVars>>

\* What the scan of a tool ends with is up to the tool.
Scanned(tool, content, verdict, receipt) ==
    [toolId |-> ToolId(tool), contentHash |-> content, verdict |-> verdict,
     score |-> 0, receiptHash |-> receipt]

\* The ScanInput of a scan and the signature over it.
ScanInputOf(scanned, sig) ==
    [toolId |-> scanned.toolId, contentHash |-> scanned.contentHash,
     verdict |-> scanned.verdict, score |-> scanned.score,
     receiptHash |-> scanned.receiptHash, sig |-> sig]

\* One at a time: the button is disabled meanwhile.
Anchoring ==
    \E t \in Slots :
        \/ tasks[t].at \in {"publishing", "published"}
        \/ tasks[t].at \in {"sending", "waiting"} /\ tasks[t].call.fn = "anchorScan"

\* scanAndAnchor up to its first await: scanned and signed by the identity of
\* that moment, which is kept.
ScanAndAnchor(t, tool, content, verdict) ==
    LET key     == KeyOf[opened[state].address]
        receipt == Payload(tool, content, key)
    IN  /\ Clicked(t) /\ view.registered /\ view.keyMatches
        /\ ~ Anchoring
        /\ state # 0 /\ CanSign(state)
        /\ tasks' = [tasks EXCEPT ![t] =
                [at |-> "publishing", anchors |-> state,
                 scanned |-> Scanned(tool, content, verdict, receipt),
                 jws |-> SignReceipt(receipt, key)]]
        /\ UNCHANGED <<opened, state, prompt, view, txs, vars, storeVars>>

Acknowledged(task) ==
    [at |-> "published", anchors |-> task.anchors, scanned |-> task.scanned]

\* The node takes the receipt or does not, and its answer may be lost.
Publish(t) ==
    /\ tasks[t].at = "publishing"
    /\ \E answered \in BOOLEAN :
          /\ PostReceipt(tasks[t].jws)
          /\ tasks' = [tasks EXCEPT ![t] =
                IF answered THEN Acknowledged(tasks[t]) ELSE Idle]
    /\ UNCHANGED <<vars, opened, state, prompt, view, txs>>

\* MUTANTS: the answer's status is not looked at; the identity is taken from
\* `state` when the anchor is signed, not from the start.
PublishFails_Anyway(t) ==
    /\ tasks[t].at = "publishing"
    /\ tasks' = [tasks EXCEPT ![t] = Acknowledged(tasks[t])]
    /\ UNCHANGED <<opened, state, prompt, view, txs, vars, storeVars>>

PublishFails(t) ==
    /\ tasks[t].at = "publishing"
    /\ Ends(t)
    /\ UNCHANGED <<opened, state, prompt, view, txs, vars, storeVars>>

SignAnchor_Current(t) ==
    LET me   == opened[state].address
        task == tasks[t]
    IN  /\ task.at = "published"
        /\ tasks' = [tasks EXCEPT ![t] =
                IF state = 0 THEN Idle
                ELSE Sending([fn |-> "anchorScan", sc |-> ScanInputOf(task.scanned,
                          Sign(me, AnchorDigest(me, task.scanned)))])]
        /\ UNCHANGED <<opened, state, prompt, view, txs, vars, storeVars>>

\* Signed for the identity of the start, whose key may be wiped by now, and
\* handed to the wallet of the present one, which may be null.
SignAnchor(t) ==
    LET task == tasks[t]
        me   == opened[task.anchors].address
    IN  /\ task.at = "published"
        /\ tasks' = [tasks EXCEPT ![t] =
                IF state = 0 \/ ~ CanSign(task.anchors) THEN Idle
                ELSE Sending([fn |-> "anchorScan", sc |-> ScanInputOf(task.scanned,
                          Sign(me, AnchorDigest(me, task.scanned)))])]
        /\ UNCHANGED <<opened, state, prompt, view, txs, vars, storeVars>>

Passes(sender, call) ==
    IF call.fn = "registerAttestor"
    THEN VerifyP256(RegistrationDigest(sender, call.key), call.sig, call.key)
    ELSE IsRegistered(sender) /\ Acceptable(sender, call.sc)

\* Gas is estimated, the session signs, the node takes it; then its receipt is
\* waited for, unless the hash is lost on the way back.
Send(t) ==
    LET task == tasks[t]
    IN  /\ task.at = "sending"
        /\ ~ opened[task.wallet].ended
        /\ Passes(opened[task.wallet].address, task.call)
        /\ Len(txs) < MaxTxs
        /\ txs' = Append(txs, [wallet |-> task.wallet, call |-> task.call,
                               status |-> "pending"])
        /\ \E answered \in BOOLEAN :
              tasks' = [tasks EXCEPT ![t] =
                  IF answered THEN [at |-> "waiting", tx |-> Len(txs) + 1, call |-> task.call]
                  ELSE Idle]
        /\ UNCHANGED <<opened, state, prompt, view, vars, storeVars>>

\* It would revert, the session has ended, there is no gas or no answer.
SendFails(t) ==
    /\ tasks[t].at = "sending"
    /\ Ends(t)
    /\ UNCHANGED <<opened, state, prompt, view, txs, vars, storeVars>>

\* The receipt is there.  A registration refreshes the panel after it.
Receipted(t) ==
    /\ tasks[t].at = "waiting"
    /\ txs[tasks[t].tx].status # "pending"
    /\ UNCHANGED <<opened, state, prompt, txs, vars, storeVars>>
    /\ IF txs[tasks[t].tx].status = "success" /\ tasks[t].call.fn = "registerAttestor"
       THEN Refresh(t)
       ELSE Ends(t) /\ UNCHANGED view

\* Sixty seconds are over; what was sent stays sent.
WaitTimesOut(t) ==
    /\ tasks[t].at = "waiting"
    /\ Ends(t)
    /\ UNCHANGED <<opened, state, prompt, view, txs, vars, storeVars>>

\* POST /faucet answers.
GasAnswered(t) ==
    /\ tasks[t].at = "gas"
    /\ UNCHANGED <<opened, state, prompt, txs, vars, storeVars>>
    /\ \/ Refresh(t)
       \/ Ends(t) /\ UNCHANGED view

-----------------------------------------------------------------------------
(* The chain                                                               *)

\* A sender's transactions are mined in the order of their nonces.
Mine(i) ==
    LET sender == opened[txs[i].wallet].address
        call   == txs[i].call
    IN  /\ txs[i].status = "pending"
        /\ \A j \in 1..(i - 1) :
              opened[txs[j].wallet].address = sender => txs[j].status # "pending"
        /\ IF Passes(sender, call)
           THEN /\ IF call.fn = "registerAttestor"
                   THEN RegisterAttestor(sender, call.key, call.sig)
                   ELSE AnchorScan(sender, call.sc)
                /\ txs' = [txs EXCEPT ![i].status = "success"]
           ELSE UNCHANGED vars /\ txs' = [txs EXCEPT ![i].status = "reverted"]
        /\ UNCHANGED <<opened, state, prompt, view, tasks, storeVars>>

\* The holder of a passkey's address binds a key to it, not from this page: the
\* same key on a device the passkey is synced to, or another one.
RegisterElsewhere(p, key, sig) ==
    /\ RegisterAttestor(p, key, sig)
    /\ UNCHANGED <<pageVars, storeVars>>

Click(t) ==
    \/ Register(t)
    \/ RequestGas(t)
    \/ \E tool \in Spelled, content \in Manifests, verdict \in Verdicts :
          ScanAndAnchor(t, tool, content, verdict)

Answer(t) ==
    \/ \E low \in BOOLEAN : Read(t, low)
    \/ Compare(t)
    \/ Publish(t) \/ PublishFails(t) \/ SignAnchor(t)
    \/ Send(t) \/ SendFails(t)
    \/ Receipted(t) \/ WaitTimesOut(t)
    \/ GasAnswered(t)

BrowserNext ==
    \/ AskPasskey \/ Refuse \/ Lock
    \/ \E t \in Slots, p \in Passkeys : Unlock(t, p)
    \/ \E t \in Slots : Click(t) \/ Answer(t)
    \/ \E i \in 1..Len(txs) : Mine(i)
    \/ \E p \in Passkeys, sig \in Signatures : RegisterElsewhere(p, sig.key, sig)

BrowserSpec == BrowserInit /\ [][BrowserNext]_browserVars

-----------------------------------------------------------------------------
(* Properties                                                              *)

\* An anchor and the receipt it points to are one identity's: whatever was
\* locked, unlocked or switched while it was under way, the receipt names the
\* key of the passkey that sent the anchor (passkey.js:138, captured once).
AnchorsOwnReceipt ==
    \A n \in 1..Len(log) :
        log[n].event = "ScanAnchored" =>
            log[n].receiptHash.attestor = KeyOf[log[n].attestor]

\* "Publish before anchoring so the on-chain receiptURI resolves from block
\* one" (passkey.js:155): no anchor of the page is ever on chain while the
\* node does not serve the receipt whose hash it carries.
PublishedBeforeAnchored ==
    \A n \in 1..Len(log) :
        log[n].event = "ScanAnchored" =>
            Served(log[n].receiptHash).form = "jcs"

\* Whoever the panel shows as a registered attestor with the right key has
\* registered that very key, though three reads of `state` and two of the
\* chain made the panel and the identity may have changed between any two.
ShownIsRegistered ==
    (view.form = "panel" /\ view.keyMatches) =>
        \E i \in 1..Len(log) :
            /\ log[i].event = "AttestorRegistered"
            /\ log[i].attestor = view.address
            /\ log[i].key = KeyOf[view.address]

\* Only the identity in use ever signs a transaction: none goes out after the
\* page was locked, nor from the passkey used before, however long ago the
\* button was pressed.
OnlyCurrentSigns ==
    [][\A i \in (Len(txs) + 1)..Len(txs') : txs'[i].wallet = state]_browserVars
=============================================================================
