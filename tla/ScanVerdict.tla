---------------------------- MODULE ScanVerdict ----------------------------
(***************************************************************************)
(* What the scanner asserts about a text: server/scanner/engine.js (skill  *)
(* rules), server/scanner/mcp.js (manifests), the level's way to a signed  *)
(* verdict in server/receipt.js, and POST /scan.  A regular expression is  *)
(* abstracted to the set of rules a chunk of text matches.                 *)
(*                                                                         *)
(* The state is one server's manifest, which its publisher edits, and     *)
(* the last receipt signed for it as a manifest and as a skill text.       *)
(***************************************************************************)
EXTENDS Integers, Sequences, FiniteSets, FiniteSetsExt

CONSTANTS
    Contents,   \* chunks the publisher may write
    MaxChunks,  \* bound
    MaxEdits,   \* bound: chunks edited in place
    MaxEnded    \* bound: matches one edit ends

\* Severities, in the order the rules are tried.
SkillSev == <<100, 100, 100, 100, 100, 95, 95, 90, 90, 88,
              85, 85, 82, 80, 80, 78, 75, 75, 72, 70,
              65, 65, 62, 60, 58, 55, 55, 52, 50, 50,
              48, 45, 40, 38, 35, 32, 30, 28, 25, 20>>
McpSev   == <<95, 92, 30, 88, 85, 82, 78, 20, 70, 65>>

BUILTIN_NAME == 3   \* M003
BAD_URI      == 6   \* M006
LONG         == 8   \* M008
CREDENTIALS  == 9   \* M009
NEAR_NAME    == 10  \* M010

\* What a chunk of text belongs to: "server" is the server's own name or
\* description; "bare" is a tool, resource or prompt without any text; like:
\* how many earlier tool names this one is one edit away from.
ChunkKinds == {"server", "name", "text", "schema", "uri", "bare"}
\* A built-in's name is matched whole, so it matches nothing else.
ASSUME VerdictAssumption ==
    /\ Contents \subseteq [kind : ChunkKinds, mcp : SUBSET (DOMAIN McpSev),
                          skill : SUBSET (DOMAIN SkillSev), like : Nat]
    /\ \A c \in Contents : BUILTIN_NAME \in c.mcp => c.mcp = {BUILTIN_NAME}
    /\ {MaxChunks, MaxEdits, MaxEnded} \subseteq Nat

CRITICAL == 3
WARN     == 2
CLEAN    == 1
UNKNOWN  == 0

VARIABLES
    chunks,     \* the text, in the order extractTextFromManifest lists it
    oversize,   \* over MAX_MANIFEST_BYTES
    receipt,    \* what was last signed, per kind
    edits

verdictVars == <<chunks, oversize, receipt, edits>>

NoReceipt == [signed |-> FALSE]

VerdictInit ==
    /\ chunks = <<>>
    /\ oversize = FALSE
    /\ receipt = [kind \in {"mcp", "skill"} |-> NoReceipt]
    /\ edits = 0

-----------------------------------------------------------------------------
(* Findings, a set of [at, sev]: at tells repeated hits of a rule apart    *)

\* Rules that are tried on a chunk of this kind.
Applies(rule, kind) ==
    /\ rule # NEAR_NAME
    /\ rule = BUILTIN_NAME => kind = "name"
    /\ rule = BAD_URI => kind = "uri"
    /\ rule = LONG => kind # "schema"

Matching(c) == {r \in c.mcp : Applies(r, c.kind)}

\* MUTANT: the last matching rule of a chunk is reported.
ChunkFindings_Last(text) ==
    {[at |-> <<"chunk", i, 0>>, sev |-> McpSev[Max(Matching(text[i]))]] :
        i \in {j \in DOMAIN text : Matching(text[j]) # {}}}

\* Each chunk reports the first rule that matches.
ChunkFindings(text) ==
    {[at |-> <<"chunk", i, 0>>, sev |-> McpSev[Min(Matching(text[i]))]] :
        i \in {j \in DOMAIN text : Matching(text[j]) # {}}}

\* checkToolShadowing: a finding per pair of near-identical names.
NameFindings(text) ==
    UNION {{[at |-> <<"tools", i, k>>, sev |-> McpSev[NEAR_NAME]] : k \in 1..text[i].like} :
              i \in DOMAIN text}

\* engine.js: each skill rule reports once, however often it matches.
SkillFindings(text) ==
    {[at |-> <<"content", r, 0>>, sev |-> SkillSev[r]] :
        r \in UNION {text[i].skill : i \in DOMAIN text}}

Count(findings, lo, hi) == Cardinality({f \in findings : lo <= f.sev /\ f.sev < hi})
Crits(findings)   == Count(findings, 90, 101)
Highs(findings)   == Count(findings, 70, 90)
Mediums(findings) == Count(findings, 40, 70)
Lows(findings)    == Count(findings, 0, 40)

Score(findings) ==
    Min({100, 30 * Crits(findings) + 15 * Highs(findings)
              + 7 * Mediums(findings) + 2 * Lows(findings)})

SkillLevel(findings) ==
    IF Crits(findings) > 0 THEN "CRITICAL"
    ELSE IF Highs(findings) > 2 THEN "HIGH"
    ELSE IF Score(findings) >= 15 THEN "MEDIUM"
    ELSE "SAFE"

\* MUTANT: one strong signal is not enough on its own.
McpLevel_TwoSignals(findings) ==
    IF Crits(findings) > 0 THEN "CRITICAL"
    ELSE IF Highs(findings) > 2 THEN "HIGH"
    ELSE IF Mediums(findings) + Highs(findings) > 1 /\ Score(findings) >= 15 THEN "MEDIUM"
    ELSE "SAFE"

McpLevel(findings) ==
    LET strong == \E f \in findings : f.sev >= 60
    IN  IF Crits(findings) > 0 THEN "CRITICAL"
        ELSE IF Highs(findings) > 2 THEN "HIGH"
        ELSE IF strong \/ (Mediums(findings) + Highs(findings) > 0 /\ Score(findings) >= 15)
             THEN "MEDIUM"
        ELSE "SAFE"

-----------------------------------------------------------------------------
(* From the findings to a signed verdict *)

Declared(text) == \E i \in DOMAIN text : text[i].kind # "server"

ScanOf(findings, level) == [scanned |-> TRUE, level |-> level, score |-> Score(findings)]
Unscanned == [scanned |-> FALSE]

\* MUTANT: what is too long to read is safe.
ScanMCP_OversizeIsSafe(text, tooLong) ==
    LET findings == ChunkFindings(text) \union NameFindings(text) \union SkillFindings(text)
    IN  IF tooLong THEN ScanOf({}, "SAFE")
        ELSE IF ~ Declared(text) THEN Unscanned
        ELSE ScanOf(findings, McpLevel(findings))

ScanMCP(text, tooLong) ==
    LET findings == ChunkFindings(text) \union NameFindings(text) \union SkillFindings(text)
    IN  IF tooLong \/ ~ Declared(text) THEN Unscanned
        ELSE ScanOf(findings, McpLevel(findings))

\* A skill without text never reaches the engine.
ScanSkill(text) ==
    IF \A i \in DOMAIN text : text[i].kind = "bare" THEN Unscanned
    ELSE ScanOf(SkillFindings(text), SkillLevel(SkillFindings(text)))

ToVerdict(level) ==
    CASE level = "SAFE" -> CLEAN
      [] level \in {"MEDIUM", "HIGH"} -> WARN
      [] level = "CRITICAL" -> CRITICAL
      [] OTHER -> UNKNOWN

ToGate(level) == IF level = "SAFE" THEN "act" ELSE "halt"

\* POST /scan: an unscanned text is answered 422 and nothing is signed.
Submit(kind) ==
    LET result == IF kind = "mcp" THEN ScanMCP(chunks, oversize) ELSE ScanSkill(chunks)
    IN  /\ result.scanned
        /\ receipt' = [receipt EXCEPT ![kind] =
              [signed |-> TRUE, verdict |-> ToVerdict(result.level),
               gate |-> ToGate(result.level), score |-> result.score,
               of |-> chunks]]
        /\ UNCHANGED <<chunks, oversize, edits>>

-----------------------------------------------------------------------------
(* The publisher *)

NamesIn(text) == {i \in DOMAIN text : text[i].kind = "name"}

AddChunk(c) ==
    /\ Len(chunks) < MaxChunks
    /\ c.like <= Cardinality(NamesIn(chunks))
    /\ chunks' = Append(chunks, c)
    /\ UNCHANGED <<oversize, receipt, edits>>

\* The text of a chunk is edited.  It comes to match what c does and goes on
\* matching mcp and skill of what it matched: even text put behind a match may
\* end it, since some rules look at what follows (engine.js:9, 26, 40 and
\* mcp.js:39).  Names are left as they are: an edit moves those that are like
\* them.
Edit(i, c, mcp, skill) ==
    /\ edits < MaxEdits
    /\ Cardinality(chunks[i].mcp \ mcp) + Cardinality(chunks[i].skill \ skill) <= MaxEnded
    /\ chunks[i].kind = c.kind /\ c.kind \notin {"name", "bare"}
    /\ chunks' = [chunks EXCEPT ![i].mcp = mcp \union c.mcp, ![i].skill = skill \union c.skill]
    /\ edits' = edits + 1
    /\ UNCHANGED <<oversize, receipt>>

\* Text outside every chunk that is read: the manifest crosses the size cap.
Pad ==
    /\ ~ oversize
    /\ oversize' = TRUE
    /\ UNCHANGED <<chunks, receipt, edits>>

VerdictNext ==
    \/ \E kind \in {"mcp", "skill"} : Submit(kind)
    \/ \E c \in Contents : AddChunk(c)
    \/ \E c \in Contents : \E i \in DOMAIN chunks :
          \E mcp \in SUBSET chunks[i].mcp, skill \in SUBSET chunks[i].skill : Edit(i, c, mcp, skill)
    \/ Pad

VerdictSpec == VerdictInit /\ [][VerdictNext]_verdictVars

-----------------------------------------------------------------------------
(* Properties                                                              *)

Lengthened(old, new) ==
    \E i \in DOMAIN old :
        LONG \in Matching(new[i]) /\ LONG \notin Matching(old[i])

\* A chunk no longer matches a rule it matched: all that is known of an edit
\* in place, wherever it is made.
Lost(old, new) ==
    \E i \in DOMAIN old : ~ (/\ Matching(old[i]) \subseteq Matching(new[i])
                           /\ old[i].skill \subseteq new[i].skill)

\* While every chunk goes on matching what it matched, and none becomes long,
\* no chunk that is added and no match more turns a receipt into a milder one:
\* neither the cap, nor the one finding a chunk reports (mcp.js:220), nor the
\* thresholds lose anything already flagged.  (An edit may well end a match,
\* and a milder verdict is then what the scanner promises.)
ReceiptNeverSoftens ==
    [][\A kind \in {"mcp", "skill"} :
         (/\ receipt'[kind] # receipt[kind] /\ receipt[kind].signed
          /\ ~ Lost(receipt[kind].of, chunks) /\ ~ Lengthened(receipt[kind].of, chunks))
             => receipt'[kind].verdict >= receipt[kind].verdict]_verdictVars

\* Whatever else a manifest holds, text that matches a rule of severity 60 or
\* more halts the caller and a critical one is signed CRITICAL: the one finding
\* a chunk reports hides no other of that weight, except that being long
\* (M008) hides a form that asks for credentials (M009).
StrongTextIsFlagged ==
    receipt["mcp"].signed =>
        \A i \in DOMAIN receipt["mcp"].of :
            LET c == receipt["mcp"].of[i]
                hidden == IF LONG \in Matching(c) THEN {CREDENTIALS} ELSE {}
                sevs == {McpSev[r] : r \in Matching(c) \ hidden}
                          \union {SkillSev[r] : r \in c.skill}
            IN  /\ (\E s \in sevs : s >= 60) => receipt["mcp"].gate = "halt"
                /\ (\E s \in sevs : s >= 90) => receipt["mcp"].verdict = CRITICAL

\* The same text is judged at least as strictly inside a manifest as it is as
\* a skill, though the two scanners turn findings into levels differently.
ManifestIsJudgedAsStrictly ==
    (receipt["mcp"].signed /\ receipt["skill"].signed
       /\ receipt["mcp"].of = receipt["skill"].of)
        => receipt["mcp"].verdict >= receipt["skill"].verdict
=============================================================================
