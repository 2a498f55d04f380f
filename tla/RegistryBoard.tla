--------------------------- MODULE RegistryBoard ---------------------------
(***************************************************************************)
(* ScanRegistry implements AttestationBoard: the board is the storage slot *)
(* latest[toolId][attestor] read through latestVerdict, a slot with        *)
(* timestamp 0 meaning "never attested by this attestor".                  *)
(***************************************************************************)
EXTENDS ScanRegistry

CONSTANT Silence

StatementOf(x) ==
    [contentHash |-> x.contentHash, verdict |-> x.verdict, score |-> x.score]

\* The signatures that count here: made for this deployment, by a key whose
\* holder agreed to be bound to the address the digest names.
Binding ==
    {sig \in Signatures :
        /\ sig.digest.kind = "anchor"
        /\ sig.digest.deployment = Here
        /\ [key |-> sig.key,
            digest |-> RegistrationDigest(sig.digest.attestor, sig.key)] \in Signatures}

VouchedHere ==
    {<<sig.digest.attestor, sig.digest.toolId, StatementOf(sig.digest)>> : sig \in Binding}

StatementsHere == {StatementOf(sig.digest) : sig \in Binding}

Shown(view) ==
    IF view.timestamp = 0 THEN Silence
    ELSE [what |-> StatementOf(view), at |-> view.timestamp]

BoardOf == [t \in Tools |-> [a \in Attestors |-> Shown(LatestVerdict(t, a))]]

Board ==
    INSTANCE AttestationBoard
    WITH Statements <- StatementsHere, Vouched <- VouchedHere,
         board <- BoardOf, clock <- now

\* Every transaction and every block of the registry is a publication, a wait
\* or invisible on the board of statements its readers rely on.
ImplementsBoard == Board!BoardSpec
=============================================================================
