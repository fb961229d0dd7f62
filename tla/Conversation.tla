---------------------------- MODULE Conversation ----------------------------
(***************************************************************************)
(* What a conversation is to the customer and to the back office, without  *)
(* turns, nodes or calls: the state machine of data-model.md, one message  *)
(* at a time.  A case is opened, its customer identified, the request      *)
(* qualified, the reason collected, and the case closed once, for good,    *)
(* with one outcome; from every open stage it may be handed to a human.    *)
(* A message never moves a case by more than one stage, nor back.          *)
(***************************************************************************)
CONSTANT Cases
VARIABLES stage, outcome

Init ==
    /\ stage = [c \in Cases |-> "new"]
    /\ outcome = [c \in Cases |-> "open"]

GoTo(c, from, to) ==
    /\ stage[c] = from
    /\ stage' = [stage EXCEPT ![c] = to]
    /\ UNCHANGED outcome

CloseAs(c, from, result) ==
    /\ stage[c] = from
    /\ stage' = [stage EXCEPT ![c] = "closed"]
    /\ outcome' = [outcome EXCEPT ![c] = result]

Greet(c) == GoTo(c, "new", "identifying")
Identify(c) == GoTo(c, "identifying", "qualifying")
Qualify(c) == GoTo(c, "qualifying", "collecting")

\* An out-of-scope request is redirected, not processed (FR-004).
Redirect(c) == CloseAs(c, "qualifying", "redirected")

\* Java's answer decides: refused, or settled with a label and a refund.
Decide(c) ==
    \E result \in {"refused", "settled"} : CloseAs(c, "collecting", result)

\* A human takes over (FR-008), for good (FR-009).
HandOver(c) ==
    \E from \in {"identifying", "qualifying", "collecting"} :
        CloseAs(c, from, "escalated")

Next ==
    \E c \in Cases :
        \/ Greet(c) \/ Identify(c) \/ Qualify(c)
        \/ Redirect(c) \/ Decide(c) \/ HandOver(c)

Spec == Init /\ [][Next]_<<stage, outcome>>
=============================================================================
