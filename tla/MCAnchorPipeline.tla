-------------------------- MODULE MCAnchorPipeline --------------------------
(* Instances of AnchorPipeline: how many accidents of each kind a run allows. *)
EXTENDS AnchorPipeline

\* No accident at all; each receipt may be queued once.
CalmBudget == [k \in Kinds |-> IF k = "queue" THEN NumRows ELSE 0]

\* One process dies once.
CrashBudget == [CalmBudget EXCEPT !["crash"] = 1]

\* Every accident once, as many of them together as Mix says, and two requests
\* to queue a receipt.
EveryAccident == [k \in Kinds |-> IF k = "queue" THEN 2 ELSE 1]
=============================================================================
