--------------------------- MODULE MCReceiptStore ---------------------------
(* One origin, three names, one of them written with a slash and without.   *)
EXTENDS ReceiptStore

CONSTANTS o1, n1, n2, n3, m1, kn, kp

Written(n, slash) == [origin |-> o1, name |-> n, slash |-> slash]

MCSpelled == {Written(n, FALSE) : n \in {n1, n2, n3}} \cup {Written(n1, TRUE)}

About(t, id, k) ==
    [tool |-> t, id |-> id, content |-> m1, issued_at |-> 1, attestor |-> k]
Signed(p, form, k) == [payload |-> p, form |-> form, key |-> k]

Passkeys == About(Written(n1, TRUE), ToolId(Written(n1, TRUE)), kp)

\* A passkey's receipt, the same in another form, one that names the node as
\* its attestor and one that names another tool than it describes.
MCPublished ==
    {Signed(Passkeys, "jcs", kp), Signed(Passkeys, "other", kp),
     Signed(About(Written(n2, FALSE), ToolId(Written(n2, FALSE)), kn), "jcs", kp),
     Signed(About(Written(n1, FALSE), ToolId(Written(n2, FALSE)), kp), "jcs", kp)}
=============================================================================
