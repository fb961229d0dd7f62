----------------------------- MODULE Eligibility -----------------------------
(***************************************************************************)
(* The decision on a return or a complaint, from the customer's order and  *)
(* the retailer's thresholds to what the agent does: EligibilityService    *)
(* and EligibilityController on the Java side, verification_node and       *)
(* decision_node on the other.                                             *)
(*                                                                         *)
(* Days and amounts are whole numbers: an order's age is the number of     *)
(* days since its delivery, below zero if it is still to be delivered.     *)
(***************************************************************************)
EXTENDS Integers

\* PolicyThresholds.
Thresholds == [domestic : Nat, international : Nat, auto : Nat, manual : Nat, warranty : Nat]

\* delivered: the order has a delivery date.
Orders == [age : Int, amount : Nat, delivered : BOOLEAN,
           returnable : BOOLEAN, international : BOOLEAN]

\* EligibilityCheckResponse: the rule stands for appliedRule.
Answer(eligible, auto, rule) == [eligible |-> eligible, auto |-> auto, rule |-> rule]

\* getDeliveryDate() is null: the request ends in a server error.
Error == Answer(FALSE, FALSE, "error")

Window(th, o) == IF o.international THEN th.international ELSE th.domestic

\* Mutant: the amount is compared the wrong way round.
ByAmountReversed(th, o) ==
    IF o.amount >= th.auto
    THEN Answer(TRUE, TRUE, "auto_refund_threshold")
    ELSE Answer(TRUE, FALSE, "manual_review_threshold")

ByAmount(th, o) ==
    IF o.amount <= th.auto
    THEN Answer(TRUE, TRUE, "auto_refund_threshold")
    ELSE Answer(TRUE, FALSE, "manual_review_threshold")

\* checkReturnEligibility.
CheckReturn(th, o) ==
    CASE ~o.returnable -> Answer(FALSE, FALSE, "non_returnable")
      [] o.returnable /\ ~o.delivered -> Error
      [] o.returnable /\ o.delivered /\ o.age > Window(th, o) ->
            Answer(FALSE, FALSE, "return_window")
      [] o.returnable /\ o.delivered /\ o.age <= Window(th, o) -> ByAmount(th, o)

\* Mutant: the last day of the return window is past the window.
CheckComplaintLate(th, o) ==
    CASE ~o.delivered -> Error
      [] o.delivered /\ o.age > th.warranty -> Answer(FALSE, TRUE, "legal_warranty")
      [] o.delivered /\ o.age <= th.warranty /\ o.age >= Window(th, o) ->
            Answer(TRUE, FALSE, "legal_warranty")
      [] o.delivered /\ o.age <= th.warranty /\ o.age < Window(th, o) -> ByAmount(th, o)

\* checkComplaintEligibility, as check translates its requiresEscalation: a
\* complaint past the warranty is not eligible and yet autoApprovable.
CheckComplaint(th, o) ==
    CASE ~o.delivered -> Error
      [] o.delivered /\ o.age > th.warranty -> Answer(FALSE, TRUE, "legal_warranty")
      [] o.delivered /\ o.age <= th.warranty /\ o.age > Window(th, o) ->
            Answer(TRUE, FALSE, "legal_warranty")
      [] o.delivered /\ o.age <= th.warranty /\ o.age <= Window(th, o) -> ByAmount(th, o)

\* verification_node never says that an order is international.
Requested(o) == [o EXCEPT !.international = FALSE]

Check(th, o, type) ==
    IF type = "complaint" THEN CheckComplaint(th, Requested(o)) ELSE CheckReturn(th, Requested(o))

\* decision_node, and verification_node for an error.
Decision(a) ==
    CASE a.rule = "error" -> "unavailable"
      [] a.rule # "error" /\ ~a.eligible -> "refused"
      [] a.rule # "error" /\ a.eligible /\ a.auto -> "auto"
      [] a.rule # "error" /\ a.eligible /\ ~a.auto /\ a.rule = "legal_warranty" -> "warranty"
      [] a.rule # "error" /\ a.eligible /\ ~a.auto /\ a.rule # "legal_warranty" -> "amount"

Decide(th, o, type) == Decision(Check(th, o, type))

\* How well a decision serves the customer: a human decides in between.
Rank(d) == CASE d = "refused" -> 0
             [] d = "auto" -> 2
             [] d \notin {"refused", "auto"} -> 1
=============================================================================
