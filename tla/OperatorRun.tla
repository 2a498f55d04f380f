---------------------------- MODULE OperatorRun ----------------------------
(***************************************************************************)
(* The operator's scripts that anchor in bulk: scripts/survey.mjs,         *)
(* scripts/anchor-capture.mjs ("capture") and scripts/seed.mjs.  Each      *)
(* scans with the rules of its own checkout, then has the API scan again   *)
(* with the rules it loaded at startup, sign, and anchor what it signed.   *)
(* The API may be restarted with other rules between any two requests, and *)
(* the index the scripts consult may lag or be down.                       *)
(***************************************************************************)
EXTENDS Integers, Sequences, FiniteSets

CONSTANTS
    Scripts,        \* which of the scripts are run
    Entries,        \* captures and seeds
    Listed,         \* script => the entries it goes through
    ToolIds,
    Snapshots,      \* manifests
    Own,            \* entry => its tool and the manifest in its own file
    Reread,         \* entry => what the survey posts for it
    Others,         \* the tools and manifests other attestors anchor
    Real,           \* those of somebody else's server
    Reviewed,       \* capture/reviewed.json
    INCLUDE_REAL,   \* the seeder's --include-real
    Rules,          \* rulesVersion values
    Checkout,       \* the one of the checkout
    JudgedUnder,    \* rules => manifest => verdict and score
    MaxAnchors,     \* bound
    MaxRestarts     \* bound: API restarts

VERDICT_CRITICAL == 3

Judgement == [verdict : 0..3, score : Nat]
Posting   == [tool : ToolIds, manifest : Snapshots]

ASSUME OperatorAssumption ==
    /\ Scripts \subseteq {"survey", "capture", "seed"}
    /\ Listed \in [Scripts -> SUBSET Entries]
    /\ Own \in [Entries -> Posting] /\ Reread \in [Entries -> Posting]
    /\ Others \subseteq Posting
    /\ Real \subseteq Entries /\ Reviewed \subseteq Entries
    /\ INCLUDE_REAL \in BOOLEAN
    /\ Checkout \in Rules
    /\ JudgedUnder \in [Rules -> [Snapshots -> Judgement]]
    /\ MaxAnchors \in Nat /\ MaxRestarts \in Nat

VARIABLES
    api,        \* the rules the API signs with
    run,        \* the script in progress
    chain,      \* what was anchored, and (history) by which script, for which
                \* entry, and how many anchors its index had shown it
    restarts

operatorVars == <<api, run, chain, restarts>>

Ended == [script |-> "none", pc |-> "ended", todo |-> {}]

OperatorInit ==
    /\ api \in Rules
    /\ run = Ended
    /\ chain = <<>>
    /\ restarts = 0

\* The script's own scan: the row of the survey's report.
LocalScan(e) == JudgedUnder[Checkout][Own[e].manifest]

\* What is sent to be scanned: the survey reads the manifest again, from the
\* first file whose name starts like the package's, which may be another's.
Posted(script, e) == IF script = "survey" THEN Reread[e] ELSE Own[e]

\* GET /health: a mismatch ends the run before it begins.
Start(script) ==
    /\ run.pc = "ended"
    /\ api = Checkout
    /\ \E todo \in IF script = "capture" THEN {{e} : e \in Listed[script]} ELSE {Listed[script]} :
          /\ todo # {}
          /\ run' = [script |-> script, pc |-> "next", todo |-> todo]
    /\ UNCHANGED <<api, chain, restarts>>

\* MUTANT: reviewed.json is not consulted.
MayAnchor_Unreviewed(script, e) ==
    script = "seed" /\ e \in Real => INCLUDE_REAL /\ LocalScan(e).verdict # VERDICT_CRITICAL

\* What each script refuses by its own scan.
MayAnchor(script, e) ==
    IF script = "seed"
    THEN e \in Real => INCLUDE_REAL /\ LocalScan(e).verdict # VERDICT_CRITICAL
    ELSE LocalScan(e).verdict = VERDICT_CRITICAL => e \in Reviewed

Rest(e) == [script |-> run.script, todo |-> run.todo \ {e},
            pc |-> IF run.todo = {e} THEN "ended" ELSE "next"]

Pick(e) ==
    /\ run.pc = "next"
    /\ e \in run.todo
    /\ run' = IF MayAnchor(run.script, e)
              THEN [script |-> run.script, todo |-> run.todo, pc |-> "lookup", entry |-> e]
              ELSE Rest(e)
    /\ UNCHANGED <<api, chain, restarts>>

\* The j-th anchor is the latest of tool t among the first n.
IsLatest(j, t, n) ==
    /\ j \in 1..n /\ chain[j].of.tool = t
    /\ \A k \in j + 1..n : chain[k].of.tool # t

\* It is of this very manifest, with the verdict of the script's own scan; the
\* survey compares the score too.
Says(j, script, e) ==
    /\ chain[j].of.manifest = Own[e].manifest
    /\ chain[j].says.verdict = LocalScan(e).verdict
    /\ script = "survey" => chain[j].says = LocalScan(e)

\* Of the first n anchors, the latest on the entry's tool says it all.
AlreadyAnchored(script, e, n) ==
    \E j \in 1..n : IsLatest(j, Own[e].tool, n) /\ Says(j, script, e)

\* MUTANT: an entry anchored before is looked for, whatever was said of it.
Lookup_Ignored ==
    /\ run.pc = "lookup"
    /\ \E seen \in 0..Len(chain) :
          run' = [script |-> run.script, todo |-> run.todo, pc |-> "scan",
                  entry |-> run.entry, seen |-> seen]
    /\ UNCHANGED <<api, chain, restarts>>

\* GET /registry/:toolId: whichever index answers has seen some of the anchors,
\* the oldest first; one that is silent shows none.
Lookup ==
    /\ run.pc = "lookup"
    /\ \E seen \in 0..Len(chain) :
          run' = IF AlreadyAnchored(run.script, run.entry, seen)
                 THEN Rest(run.entry)
                 ELSE [script |-> run.script, todo |-> run.todo, pc |-> "scan",
                       entry |-> run.entry, seen |-> seen]
    /\ UNCHANGED <<api, chain, restarts>>

ApiSays == JudgedUnder[api][Posted(run.script, run.entry).manifest]

\* MUTANT: only the preflight compares rules.
Agrees_Trusting == TRUE

\* The mid-run check the seeder lacks: the API's rules are this checkout's, and
\* what it made of the manifest posted is what the script made of its own.
Agrees == run.script = "seed" \/ (api = Checkout /\ ApiSays = LocalScan(run.entry))

\* POST /scan: the API signs its own verdict.
Scan ==
    /\ run.pc = "scan"
    /\ run' = IF Agrees
              THEN [script |-> run.script, todo |-> run.todo, pc |-> "anchor",
                    entry |-> run.entry, seen |-> run.seen, signed |-> ApiSays]
              ELSE Rest(run.entry)
    /\ UNCHANGED <<api, chain, restarts>>

\* POST /anchor of that receipt; a failure is counted and the run goes on.
AnchorSigned ==
    /\ run.pc = "anchor"
    /\ \/ /\ Len(chain) < MaxAnchors
          /\ chain' = Append(chain, [script |-> run.script, entry |-> run.entry,
                                     seen |-> run.seen, says |-> run.signed,
                                     of |-> Posted(run.script, run.entry)])
       \/ UNCHANGED chain
    /\ run' = Rest(run.entry)
    /\ UNCHANGED <<api, restarts>>

\* Another attestor, with rules of its own, anchors on one of the tools.
AnotherAnchors(posting, rules) ==
    /\ Len(chain) < MaxAnchors
    /\ chain' = Append(chain, [script |-> "another", of |-> posting,
                               says |-> JudgedUnder[rules][posting.manifest]])
    /\ UNCHANGED <<api, run, restarts>>

ApiRestart(rules) ==
    /\ restarts < MaxRestarts
    /\ restarts' = restarts + 1
    /\ api' = rules
    /\ UNCHANGED <<run, chain>>

OperatorNext ==
    \/ \E script \in Scripts : Start(script)
    \/ \E e \in Entries : Pick(e)
    \/ Lookup \/ Scan \/ AnchorSigned
    \/ \E posting \in Others, rules \in Rules : AnotherAnchors(posting, rules)
    \/ \E rules \in Rules \ {api} : ApiRestart(rules)

OperatorSpec == OperatorInit /\ [][OperatorNext]_operatorVars

-----------------------------------------------------------------------------
(* Properties                                                              *)

By(i, scripts) == chain[i].script \in scripts

\* The survey and anchor-capture never anchor a verdict or a score their own
\* scan of the entry contradicts, whenever the API is restarted
\* (survey.mjs:169-172, 210-215), and whichever file the survey read again: then
\* the manifest is another's, and the API judged it alike.  The seeder, which
\* checks the rules only once, promises no such thing.
SurveyAnchorsItsReport ==
    \A i \in DOMAIN chain :
        By(i, {"survey", "capture"}) => chain[i].says = LocalScan(chain[i].entry)

\* Nor a CRITICAL on an entry no human reviewed (survey.mjs:11-14).
CriticalIsReviewed ==
    \A i \in DOMAIN chain :
        (By(i, {"survey", "capture"}) /\ chain[i].says.verdict = VERDICT_CRITICAL)
            => chain[i].entry \in Reviewed

\* A script anchors nothing for an entry whose latest anchor, by whoever made
\* it, already says what the script would say, unless the index had not shown
\* the script that anchor.  This ends no repetition by itself.  An entry whose
\* file the survey does not find again (survey.mjs:190) is anchored as another
\* manifest, and so anew by each run; and two snapshots of one tool, the
\* survey's and the seeder's older one (seed.mjs:12-16), displace each other.
RepeatsOnlyBlind ==
    \A i \in DOMAIN chain : By(i, Scripts) =>
        \A j \in 1..i - 1 :
            (/\ IsLatest(j, Own[chain[i].entry].tool, i - 1)
             /\ Says(j, chain[i].script, chain[i].entry)) => chain[i].seen < j
=============================================================================
