----------------------------- MODULE MCRegistry -----------------------------
(* A small instance of ScanRegistry: two attestors (the second may take a   *)
(* second key), two tools, two manifests of one of them, and signatures of  *)
(* every kind a sender may hold, most of which the contract must refuse.    *)
(* The router trusts a1, who can clear two manifests of t1 and withdraw one. *)
EXTENDS RegistryBoard, GatedRouter

CONSTANTS a1, a2, k1, k2, k3, t1, t2, c1, c2, here, elsewhere, zero

MCAttestors == {a1, a2}
MCTools     == {t1, t2}
MCContents  == {c1, c2}
MCKeys      == {k1, k2, k3}
MCReceipts  == {1, 2, 3}

Input(t, c, v, s, r) ==
    [toolId |-> t, contentHash |-> c, verdict |-> v, score |-> s, receiptHash |-> r]

Bind(k, d, a) ==
    [key |-> k, digest |-> [kind |-> "register", deployment |-> d,
                            attestor |-> a, key |-> k]]

Vouch(k, d, a, in) ==
    [key |-> k, digest |-> [kind |-> "anchor", deployment |-> d, attestor |-> a,
        toolId |-> in.toolId, contentHash |-> in.contentHash,
        verdict |-> in.verdict, score |-> in.score, receiptHash |-> in.receiptHash]]

CleanT1  == Input(t1, c1, 1, 0, 1)
BadT1    == Input(t1, c1, 3, 95, 2)
NewT1    == Input(t1, c2, 1, 0, 3)
CleanT2  == Input(t2, c1, 1, 5, 1)

\* What a contract must refuse although it is signed.
Malformed ==
    {Input(zero, c1, 1, 0, 1), Input(t1, zero, 1, 0, 1),
     Input(t1, c1, 4, 0, 1), Input(t1, c1, 1, 101, 1)}

MCSignatures ==
    {Bind(k1, here, a1), Bind(k2, here, a2), Bind(k3, here, a2),
     Bind(k3, elsewhere, a1),
     Vouch(k1, here, a1, CleanT1), Vouch(k1, here, a1, BadT1),
     Vouch(k1, here, a1, NewT1), Vouch(k1, here, a1, CleanT2),
     Vouch(k2, here, a2, CleanT1), Vouch(k3, here, a2, BadT1),
     Vouch(k1, elsewhere, a1, CleanT2), Vouch(k1, here, a2, CleanT1)}
    \cup {Vouch(k1, here, a1, in) : in \in Malformed}

Submit(in, sig) ==
    [toolId |-> in.toolId, contentHash |-> in.contentHash, verdict |-> in.verdict,
     score |-> in.score, receiptHash |-> in.receiptHash, sig |-> sig]

\* Every signed statement as it was signed, and a CRITICAL one sent as CLEAN.
MCCalldata ==
    {Submit(sig.digest, sig) : sig \in {s \in MCSignatures : s.digest.kind = "anchor"}}
    \cup {Submit(CleanT1, Vouch(k1, here, a1, BadT1))}
=============================================================================
