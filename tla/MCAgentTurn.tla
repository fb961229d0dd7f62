----------------------------- MODULE MCAgentTurn -----------------------------
(* Instances of AgentTurn: all addresses belong to one customer, who may     *)
(* write on the Web and by email.                                            *)
EXTENDS AgentTurn, TLC

CONSTANT c1

SameCustomer == [a \in Addresses |-> c1]
TurnSymmetry == Permutations(Turns)

\* What the actions read.  The other variables count: no guard and no value in
\* store, pc, of, st, sent or complaints depends on them.
ReadByActions == <<store, pc, of, st, sent, complaints>>
=============================================================================
