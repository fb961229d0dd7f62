---------------------------- MODULE MCLivePolicy -----------------------------
(* An instance of LivePolicy: a policy with two versions, of two chunks each,  *)
(* and a second policy document that states no threshold.                     *)
EXTENDS LivePolicy, TLC

CONSTANTS complaints, returns

TheFacts == {"domestic", "international", "auto", "manual"}

Windows == {"domestic", "international"}
Amounts == {"auto", "manual"}

TheFiles == {complaints, returns}
TheMovable == {complaints}
TheNames == complaints :> "Complaint Policy" @@ returns :> "Return Policy"
TheContents ==
    complaints :> << << {} >> >> @@ returns :> << <<Windows, Amounts>>, <<Windows, Amounts>> >>
NamesInOrder == <<"Complaint Policy", "Return Policy">>

First == [domestic |-> 21, international |-> 30, auto |-> 80, manual |-> 200]
Second == [domestic |-> 14, international |-> 30, auto |-> 50, manual |-> 150]
TheStatements == complaints :> <<First>> @@ returns :> <<First, Second>>
TheBundled ==
    [domestic |-> 20, international |-> 30, auto |-> 70, manual |-> 200, warranty |-> 730]

Order(d, a) ==
    [age |-> d, amount |-> a, delivered |-> TRUE, returnable |-> TRUE, international |-> FALSE]

\* The last day and the last amount of each policy, an order that cannot be
\* returned, and one that is still to be delivered.
TheSamples ==
    {Order(14, 49), Order(14, 50), Order(20, 70), Order(21, 80), Order(730, 80),
     [Order(1, 70) EXCEPT !.returnable = FALSE],
     [Order(0, 50) EXCEPT !.delivered = FALSE, !.international = TRUE]}
=============================================================================
