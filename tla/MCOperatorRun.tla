--------------------------- MODULE MCOperatorRun ---------------------------
(* Four entries: a reviewed server that only the new rules flag; an older    *)
(* snapshot of it among the seeds; a package whose file the survey does not   *)
(* find again, because another's name starts alike; and a server that is      *)
(* flagged and not reviewed.  The API may run either rules.                   *)
EXTENDS OperatorRun

CONSTANTS current, older, prefixed, flagged, old, new

MCListed == [s \in {"survey", "capture", "seed"} |->
                CASE s = "survey" -> {current, prefixed, flagged}
                  [] s = "capture" -> {prefixed, flagged}
                  [] s = "seed" -> {older}]

\* A manifest is named after the entry whose file holds it.
File(tool, e) == [tool |-> tool, manifest |-> e]

MCOwn == [e \in {current, older, prefixed, flagged} |->
             File(IF e = older THEN current ELSE e, e)]

MCReread == [MCOwn EXCEPT ![prefixed] = File(prefixed, older)]

\* Another attestor takes up either snapshot of the one tool.
MCOthers == {MCOwn[current], MCOwn[older]}

MCJudgedUnder ==
    [r \in {old, new} |-> [m \in {current, older, prefixed, flagged} |->
        CASE m = flagged -> [verdict |-> 3, score |-> 80]
          [] m = current /\ r = new -> [verdict |-> 3, score |-> 90]
          [] m = older /\ r = old -> [verdict |-> 1, score |-> 5]
          [] OTHER -> [verdict |-> 1, score |-> 10]]]
=============================================================================
