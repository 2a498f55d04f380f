---------------------------- MODULE GatedRouter ----------------------------
(***************************************************************************)
(* contracts/examples/GatedRouter.sol on top of ScanRegistry: a contract   *)
(* that forwards a tool call only while one attestor's clearance of the    *)
(* exact manifest is fresh.  The check and the call are one transaction.   *)
(***************************************************************************)
EXTENDS ScanRegistry

CONSTANTS
    Trusted,    \* attestor: whose verdict this router accepts
    MaxAge,     \* a stale clearance is not a clearance
    MaxCalls    \* bound: calls forwarded

ASSUME RouterAssumption == Trusted \in Attestors /\ MaxAge \in Nat /\ MaxCalls \in Nat

VARIABLE calls  \* history: the calls forwarded, and how much of the log they saw

routerVars == <<vars, calls>>

RouterInit == Init /\ calls = {}

\* callTool: reverts unless isCleared, then calls the target, whose own state
\* is outside the registry.
CallTool(t, contentHash) ==
    /\ IsCleared(t, contentHash, Trusted, MaxAge)
    /\ Cardinality(calls) < MaxCalls
    /\ calls' = calls \cup {[toolId |-> t, contentHash |-> contentHash,
                             at |-> now, seen |-> Len(log)]}
    /\ UNCHANGED vars

RouterNext ==
    \/ Next /\ UNCHANGED calls
    \/ \E t \in Tools, c \in Contents : CallTool(t, c)

RouterSpec == RouterInit /\ [][RouterNext]_routerVars

-----------------------------------------------------------------------------
(* Properties                                                              *)

\* Every forwarded call had, in the history as it stood, a CLEAN verdict of
\* the trusted attestor on exactly that manifest as its last word on the tool,
\* signed when it was written, and not older than MaxAge: a manifest swapped
\* after it was cleared, a later CRITICAL, another attestor's CLEAN or an
\* expired one never lets a call through.
CallsWereCleared ==
    \A c \in calls :
        \E i \in 1..Len(log) :
            /\ IsLastAnchor(i, c.toolId, Trusted, c.seen)
            /\ log[i].verdict = CLEAN
            /\ log[i].contentHash = c.contentHash
            /\ c.at - log[i].timestamp <= MaxAge
            /\ \E j \in 1..i : SignedBy(j, i)
=============================================================================
