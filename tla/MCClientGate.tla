---------------------------- MODULE MCClientGate ----------------------------
(* A small instance of ClientGate: two attestors, two manifests of a tool,  *)
(* every verdict, and one tool strangers scanned and nobody anchored.       *)
EXTENDS ClientGate

CONSTANTS a1, a2, k1, k2, t1, t2, c1, c2, here, zero

Bind(k, a) ==
    [key |-> k, digest |-> [kind |-> "register", deployment |-> here,
                            attestor |-> a, key |-> k]]

Said(k, a, c, v) ==
    [key |-> k, digest |->
        [kind |-> "anchor", deployment |-> here, attestor |-> a, toolId |-> t1,
         contentHash |-> c, verdict |-> v, score |-> 0, receiptHash |-> 0]]

Anchors ==
    {Said(k1, a1, c1, CLEAN), Said(k1, a1, c1, CRITICAL), Said(k1, a1, c2, CLEAN),
     Said(k1, a1, c1, 0), Said(k2, a2, c1, WARN), Said(k2, a2, c1, CLEAN)}

MCSignatures == {Bind(k1, a1), Bind(k2, a2)} \cup Anchors

MCCalldata ==
    {[toolId |-> s.digest.toolId, contentHash |-> s.digest.contentHash,
      verdict |-> s.digest.verdict, score |-> s.digest.score,
      receiptHash |-> s.digest.receiptHash, sig |-> s] : s \in Anchors}

Unasked == {[toolId |-> t2, contentHash |-> c1, verdict |-> CLEAN, receiptHash |-> 7]}
=============================================================================
