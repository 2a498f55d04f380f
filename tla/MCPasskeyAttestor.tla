------------------------- MODULE MCPasskeyAttestor -------------------------
(* Two passkeys of one person, one pasted tool with one manifest.           *)
EXTENDS PasskeyAttestor, TLC

CONSTANTS p1, p2, k1, k2, k3, o1, n1, m1

MCKeyOf == (p1 :> k1) @@ (p2 :> k2)

Pasted == [origin |-> o1, name |-> n1, slash |-> FALSE]
MCSpelled == {Pasted}
MCTools == {ToolId(Pasted)}
MCManifests == {m1}

Receipt(k) == [tool |-> Pasted, id |-> ToolId(Pasted), content |-> m1,
               issued_at |-> 1, attestor |-> k]
MCReceipts == {Receipt(k1), Receipt(k2)}

Input(v, k) == [toolId |-> ToolId(Pasted), contentHash |-> m1, verdict |-> v,
                score |-> 0, receiptHash |-> Receipt(k)]

\* The first address may also be bound to a key that is no passkey's.
MCSignatures ==
    {[key |-> k3, digest |-> RegistrationDigest(p1, k3)]} \cup
    {[key |-> MCKeyOf[p], digest |-> RegistrationDigest(p, MCKeyOf[p])] : p \in Passkeys}
    \cup {[key |-> MCKeyOf[p], digest |-> AnchorDigest(p, Input(v, MCKeyOf[p]))] :
            p \in Passkeys, v \in Verdicts}

MCCalldata == {}
=============================================================================
