--------------------------- MODULE MCClientHistory ---------------------------
(* An instance of ClientHistory: three requests about one customer, two      *)
(* about another.                                                            *)
EXTENDS ClientHistory

CONSTANTS r1, r2, r3, r4, r5, c1, c2

FiveRequests == {r1, r2, r3, r4, r5}
TwoClients == {c1, c2}
ThreeAndTwo == [r \in FiveRequests |-> IF r \in {r1, r2, r3} THEN c1 ELSE c2]
=============================================================================
