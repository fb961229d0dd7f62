----------------------------- MODULE BoundedCall -----------------------------
(***************************************************************************)
(* What a caller of call_with_breaker may rely on, without its loop: the   *)
(* operation runs at most MaxEffects times, at any moment, also after the  *)
(* call returned; the call returns once; a value is only returned for an   *)
(* operation that ran.  Nothing says that a failed call did not run.       *)
(* AgentTurn summarises the nodes' calls of Java by this contract.         *)
(***************************************************************************)
EXTENDS Naturals

CONSTANT MaxEffects     \* a natural number: one per try of the caller's loop

VARIABLES effects, result

Init ==
    /\ effects = 0
    /\ result = "pending"

\* The operation runs once more at the service.
Effect ==
    /\ effects < MaxEffects
    /\ effects' = effects + 1
    /\ UNCHANGED result

\* The call returns a value, so the operation has run.
Succeed ==
    /\ result = "pending"
    /\ effects > 0
    /\ result' = "ok"
    /\ UNCHANGED effects

\* The call fails, or answers with something else than the operation's value.
Fail ==
    /\ result = "pending"
    /\ result' \in {"business", "technical", "fallback"}
    /\ UNCHANGED effects

Next == Effect \/ Succeed \/ Fail

Spec == Init /\ [][Next]_<<effects, result>>
=============================================================================
