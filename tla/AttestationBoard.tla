-------------------------- MODULE AttestationBoard --------------------------
(***************************************************************************)
(* What the registry promises its readers, without logs, counters or key   *)
(* storage: a board that shows, for every tool and attestor, the           *)
(* attestor's last statement and when it was made.  Only a publication of  *)
(* the attestor itself changes what the board shows of it, all it changes  *)
(* at once carries one time, and every statement is one the attestor       *)
(* vouched for.                                                            *)
(***************************************************************************)
EXTENDS Integers

CONSTANTS
    Attestors,
    Tools,
    Statements,
    Vouched,        \* <<attestor, tool, statement>>: the attestor signed it
    Silence         \* nothing said yet

VARIABLES
    board,          \* tool => attestor => [what, at] or Silence
    clock

boardVars == <<board, clock>>

Blank ==
    /\ board = [t \in Tools |-> [a \in Attestors |-> Silence]]
    /\ clock = 1

\* Attestor a says said[t] of every tool t in the domain of said.
Publish(a, said) ==
    /\ \A t \in DOMAIN said : <<a, t, said[t]>> \in Vouched
    /\ board' = [t \in Tools |-> [b \in Attestors |->
                    IF b = a /\ t \in DOMAIN said
                    THEN [what |-> said[t], at |-> clock]
                    ELSE board[t][b]]]
    /\ UNCHANGED clock

Wait ==
    /\ clock' > clock
    /\ UNCHANGED board

BoardNext ==
    \/ \E a \in Attestors, about \in SUBSET Tools :
          \E said \in [about -> Statements] : Publish(a, said)
    \/ Wait

BoardSpec == Blank /\ [][BoardNext]_boardVars
=============================================================================
