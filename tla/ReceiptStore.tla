---------------------------- MODULE ReceiptStore ----------------------------
(***************************************************************************)
(* What the node keeps and serves about receipts and tools: the receipts   *)
(* it signed itself (`scans`), those other attestors published             *)
(* (POST /receipt, `external_receipts`), GET /receipt/:hash over both, the *)
(* `tools` table both write, and GET /registry/resolve, which answers the  *)
(* question "what is this origin known as".                                *)
(*                                                                         *)
(* A receipt hash is the hash of the canonical payload, so it stands for   *)
(* the payload and is the payload here.  A JWS signs bytes, which need not *)
(* be the canonical form of what they parse to.                            *)
(***************************************************************************)
EXTENDS Integers, FiniteSets

CONSTANTS
    Spelled,        \* tools as somebody wrote them: [origin, name, slash]
    Manifests,      \* content hashes
    NodeKey,        \* the key this node signs with
    Published,      \* what anybody may POST to /receipt
    RESOLVE_LIMIT,  \* LIMIT 10
    MaxRows,        \* bound: rows of scans
    MaxSecond       \* bound: the clock

ASSUME StoreAssumption ==
    /\ \A t \in Spelled : t.slash \in BOOLEAN
    /\ RESOLVE_LIMIT \in Nat /\ MaxRows \in Nat /\ MaxSecond \in Nat

\* What the node did not sign is not signed with its key.
ASSUME NodeKeyAssumption == \A jws \in Published : jws.key # NodeKey

NotFound == [form |-> "none"]

VARIABLES
    own,        \* receipt hash => [jws, anchored]: the rows of scans
    external,   \* receipt hash => jws: the rows of external_receipts
    tools,      \* tool id => [tool, first_seen]: as it is written, and since when
    second      \* Date.now() in seconds

storeVars == <<own, external, tools, second>>

StoreInit ==
    /\ own = [h \in {} |-> NotFound]
    /\ external = [h \in {} |-> NotFound]
    /\ tools = [i \in {} |-> NotFound]
    /\ second = 1

-----------------------------------------------------------------------------
(* Identity: trailing slashes of an origin do not count, nor does case      *)

ToolId(t) == [origin |-> t.origin, name |-> t.name]

Payload(tool, content, key) ==
    [tool |-> tool, id |-> ToolId(tool), content |-> content,
     issued_at |-> second, attestor |-> key]

SignReceipt(payload, key) == [payload |-> payload, form |-> "jcs", key |-> key]

VerifyReceipt(jws) == jws.key = jws.payload.attestor

With(table, key, row) ==
    [k \in DOMAIN table \cup {key} |-> IF k = key THEN row ELSE table[k]]

UpsertTool(id, tool) ==
    tools' = With(tools, id,
        [tool |-> tool,
         first_seen |-> IF id \in DOMAIN tools THEN tools[id].first_seen ELSE second])

-----------------------------------------------------------------------------
(* Handlers                                                                *)

\* POST /scan, as far as these tables go: the tool is written as it was
\* spelled last; a receipt that is there already stays as it is.
PostScan(tool, content) ==
    LET payload == Payload(tool, content, NodeKey)
        jws     == SignReceipt(payload, NodeKey)
    IN  /\ payload \in DOMAIN own \/ Cardinality(DOMAIN own) < MaxRows
        /\ UpsertTool(ToolId(tool), tool)
        /\ own' = IF payload \in DOMAIN own THEN own
                  ELSE With(own, payload, [jws |-> jws, anchored |-> FALSE])
        /\ UNCHANGED <<external, second>>

\* What POST /receipt accepts: it verifies against the key inside it, and it
\* names the tool its fields describe.
Accepted(jws) ==
    /\ VerifyReceipt(jws)
    /\ ToolId(jws.payload.tool) = jws.payload.id

\* MUTANTS: the key inside the payload is not the one that has to verify; a
\* receipt published again replaces the first.
PostReceipt_AnyKey(jws) ==
    /\ ToolId(jws.payload.tool) = jws.payload.id
    /\ external' = IF jws.payload \in DOMAIN external THEN external
                   ELSE With(external, jws.payload, jws)
    /\ IF jws.payload.id \in DOMAIN tools THEN UNCHANGED tools
       ELSE UpsertTool(jws.payload.id, jws.payload.tool)
    /\ UNCHANGED <<own, second>>
PostReceipt_Replaces(jws) ==
    /\ Accepted(jws)
    /\ external' = With(external, jws.payload, jws)
    /\ IF jws.payload.id \in DOMAIN tools THEN UNCHANGED tools
       ELSE UpsertTool(jws.payload.id, jws.payload.tool)
    /\ UNCHANGED <<own, second>>

\* INSERT OR IGNORE, by the hash of the parsed payload; a tool nobody scanned
\* yet is written down, a known one keeps its spelling.
PostReceipt(jws) ==
    /\ Accepted(jws)
    /\ external' = IF jws.payload \in DOMAIN external THEN external
                   ELSE With(external, jws.payload, jws)
    /\ IF jws.payload.id \in DOMAIN tools THEN UNCHANGED tools
       ELSE UpsertTool(jws.payload.id, jws.payload.tool)
    /\ UNCHANGED <<own, second>>

\* markAnchored(hash, ..., 'confirmed'), which AnchorPipeline models.
MarkConfirmed(h) ==
    /\ h \in DOMAIN own
    /\ own' = [own EXCEPT ![h].anchored = TRUE]
    /\ UNCHANGED <<external, tools, second>>

NextSecond ==
    /\ second < MaxSecond
    /\ second' = second + 1
    /\ UNCHANGED <<own, external, tools>>

StoreNext ==
    \/ \E tool \in Spelled, content \in Manifests : PostScan(tool, content)
    \/ \E jws \in Published \cup {own[h].jws : h \in DOMAIN own} : PostReceipt(jws)
    \/ \E h \in DOMAIN own : MarkConfirmed(h)
    \/ NextSecond

StoreSpec == StoreInit /\ [][StoreNext]_storeVars

-----------------------------------------------------------------------------
(* Reads                                                                   *)

\* GET /receipt/:hash
Served(h) == IF h \in DOMAIN own THEN own[h].jws
             ELSE IF h \in DOMAIN external THEN external[h]
             ELSE NotFound

Anchored(id) == Cardinality({h \in DOMAIN own : own[h].anchored /\ h.id = id})

\* The query's origin loses its trailing slashes, the stored one does not.
KnownUnder(origin) ==
    {id \in DOMAIN tools : tools[id].tool.origin = origin /\ ~ tools[id].tool.slash}

\* ORDER BY anchored DESC, first_seen ASC
Before(i, j) ==
    \/ Anchored(i) > Anchored(j)
    \/ Anchored(i) = Anchored(j) /\ tools[i].first_seen < tools[j].first_seen

\* GET /registry/resolve: the answers possible, ties falling either way.
Resolve(origin) ==
    {S \in SUBSET KnownUnder(origin) :
        /\ IF Cardinality(KnownUnder(origin)) <= RESOLVE_LIMIT
           THEN S = KnownUnder(origin)
           ELSE Cardinality(S) = RESOLVE_LIMIT
        /\ \A i \in S, j \in KnownUnder(origin) \ S : ~ Before(j, i)}

-----------------------------------------------------------------------------
(* Properties                                                              *)

\* Whatever the node serves under a hash, its own or another attestor's, is a
\* receipt with that very hash, signed by the key it names, about the tool it
\* names (index.js:258-265): whoever published what, and in which form.
ServedIsGenuine ==
    \A h \in DOMAIN own \cup DOMAIN external :
        /\ Served(h).payload = h
        /\ Served(h).key = h.attestor
        /\ h.id = ToolId(h.tool)

\* GET /receipt answers "immutable" (index.js:255): once something is served
\* under a hash the same bytes always are, though two tables are asked in turn
\* and the same payload can be signed in more than one form.
ServedNeverChanges ==
    [][\A h \in DOMAIN own \cup DOMAIN external : Served(h)' = Served(h)]_storeVars

\* index.js:310: resolving "maps an origin to the identities this node has
\* actually scanned".
ScannedToolResolves ==
    \A h \in DOMAIN own :
        Cardinality(DOMAIN tools) <= RESOLVE_LIMIT => h.id \in KnownUnder(h.id.origin)
=============================================================================
