------------------------------- MODULE MCNode -------------------------------
(* The parts of the node and of the operator's scripts that share no state: *)
(* the order of steps of two of them cannot matter, so a behaviour moves    *)
(* one part and leaves the others as they began.                            *)
EXTENDS Faucet, RateLimit, IndexSource, MCReceiptStore, MCScanVerdict, MCOperatorRun

VARIABLE part   \* the one that moves

nodeVars == <<faucetVars, rateVars, sourceVars, storeVars, verdictVars, operatorVars, part>>

NodeInit ==
    /\ part \in {"faucet", "rate", "source", "store", "verdict", "operator"}
    /\ FaucetInit
    /\ RateInit /\ (part = "rate" \/ limiter = "rl")
    /\ SourceInit /\ (part = "source" \/ (up = {} /\ chainOf = [i \in Indexes |-> Here]))
    /\ StoreInit
    /\ VerdictInit
    /\ OperatorInit /\ (part = "operator" \/ api = Checkout)

Still == UNCHANGED part

NodeNext ==
    \/ /\ part = "faucet"   /\ FaucetNext   /\ Still
       /\ UNCHANGED <<rateVars, sourceVars, storeVars, verdictVars, operatorVars>>
    \/ /\ part = "rate"     /\ RateNext     /\ Still
       /\ UNCHANGED <<faucetVars, sourceVars, storeVars, verdictVars, operatorVars>>
    \/ /\ part = "source"   /\ SourceNext   /\ Still
       /\ UNCHANGED <<faucetVars, rateVars, storeVars, verdictVars, operatorVars>>
    \/ /\ part = "store"    /\ StoreNext    /\ Still
       /\ UNCHANGED <<faucetVars, rateVars, sourceVars, verdictVars, operatorVars>>
    \/ /\ part = "verdict"  /\ VerdictNext  /\ Still
       /\ UNCHANGED <<faucetVars, rateVars, sourceVars, storeVars, operatorVars>>
    \/ /\ part = "operator" /\ OperatorNext /\ Still
       /\ UNCHANGED <<faucetVars, rateVars, sourceVars, storeVars, verdictVars>>

NodeSpec == NodeInit /\ [][NodeNext]_nodeVars
=============================================================================
