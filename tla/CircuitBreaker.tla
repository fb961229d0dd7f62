--------------------------- MODULE CircuitBreaker ---------------------------
(***************************************************************************)
(* One call of call_with_breaker (config/circuit_breaker.py) and the       *)
(* service it calls.  The agent's calls of Java, of pgvector and of the    *)
(* language model go through it, those of Redis and Slack do not.  A call  *)
(* is tried MaxRetries + 1 times, each try under a timeout, and whatever   *)
(* the last try leaves becomes the answer the caller sees.                 *)
(*                                                                         *)
(* The loop knows only whether a try answered.  A try that timed out may   *)
(* still be travelling to the service, or running there: asyncio.wait_for  *)
(* cancels the client, not the request.  The model keeps those requests in *)
(* "late" and lets each of them land at any later moment, even after the   *)
(* call has returned.                                                      *)
(***************************************************************************)
EXTENDS Naturals

CONSTANT MaxRetries     \* settings.max_retries

ASSUME BreakerAssumption == MaxRetries \in Nat

VARIABLES
    kind,       \* which of the agent's calls this is, see Kinds
    attempt,    \* the loop variable: how many tries have failed so far
    request,    \* the request of the current try, as the service sees it
    late,       \* requests given up by the loop that the service may yet run
    effects,    \* how many times the service ran the operation
    result      \* what call_with_breaker gave its caller

vars == <<kind, attempt, request, late, effects, result>>

\* A "refusing" call can raise a BusinessFailure (check_order: OrderNotFound), a
\* "fallback" call passes on_fallback (query_policy, the LLM), the rest do neither.
Kinds == {"plain", "refusing", "fallback"}

Requests == {"unsent", "sent", "ran", "refused", "lost"}

\* What the caller gets: the value, the BusinessFailure, the TechnicalFailure,
\* or the value of on_fallback; "pending" while the coroutine runs.
Results == {"pending", "ok", "business", "technical", "fallback"}

\* Type invariant: the loop of call_with_breaker and its requests.
TypeOK ==
    /\ kind \in Kinds
    /\ attempt \in Nat
    /\ request \in Requests
    /\ late \in Nat
    /\ effects \in Nat
    /\ result \in Results

Init ==
    /\ kind \in Kinds
    /\ attempt = 0
    /\ request = "unsent"
    /\ late = 0
    /\ effects = 0
    /\ result = "pending"

-----------------------------------------------------------------------------
\* Mutant: an off-by-one in the range of the for loop.
TryOnceMore ==
    /\ result = "pending"
    /\ attempt <= MaxRetries + 1
    /\ request = "unsent"
    /\ request' = "sent"
    /\ UNCHANGED <<kind, attempt, late, effects, result>>

\* One more turn of the for loop: func() sends its request.
Try ==
    /\ result = "pending"
    /\ attempt <= MaxRetries
    /\ request = "unsent"
    /\ request' = "sent"
    /\ UNCHANGED <<kind, attempt, late, effects, result>>

\* The service runs the operation of the request that is being waited for.
Run ==
    /\ request = "sent"
    /\ request' = "ran"
    /\ effects' = effects + 1
    /\ UNCHANGED <<kind, attempt, late, result>>

\* The service turns the request down for good (an unknown order: OrderNotFound).
Refuse ==
    /\ kind = "refusing"
    /\ request = "sent"
    /\ request' = "refused"
    /\ UNCHANGED <<kind, attempt, late, effects, result>>

\* The request never gets there.
Lose ==
    /\ request = "sent"
    /\ request' = "lost"
    /\ UNCHANGED <<kind, attempt, late, effects, result>>

\* Mutant: a request that was sent counts as done.
AnswerUnread ==
    /\ result = "pending"
    /\ request # "unsent"
    /\ result' = "ok"
    /\ UNCHANGED <<kind, attempt, request, late, effects>>

\* return await asyncio.wait_for(...): the answer came in time.
Answer ==
    /\ result = "pending"
    /\ request = "ran"
    /\ result' = "ok"
    /\ UNCHANGED <<kind, attempt, request, late, effects>>

\* except BusinessFailure: raise -- no retry.
RaiseBusiness ==
    /\ result = "pending"
    /\ request = "refused"
    /\ result' = "business"
    /\ UNCHANGED <<kind, attempt, request, late, effects>>

\* except Exception: a timeout or an error, whatever became of the request.
\* A refusal that did arrive is a BusinessFailure, one that timed out is not.
GiveUpTry ==
    /\ result = "pending"
    /\ request # "unsent"
    /\ attempt' = attempt + 1
    /\ late' = IF request = "sent" THEN late + 1 ELSE late
    /\ request' = "unsent"
    /\ UNCHANGED <<kind, effects, result>>

\* Mutant: the value of the last try is taken for an outcome.
ExhaustUntyped ==
    /\ result = "pending"
    /\ attempt > MaxRetries
    /\ result' = request
    /\ UNCHANGED <<kind, attempt, request, late, effects>>

\* Mutant: the call gives up before its last try.
ExhaustEarly ==
    /\ result = "pending"
    /\ attempt >= MaxRetries
    /\ result' = IF kind = "fallback" THEN "fallback" ELSE "technical"
    /\ UNCHANGED <<kind, attempt, request, late, effects>>

\* Mutant: the loop ends, and the call does not.
ExhaustNever ==
    /\ result = "pending"
    /\ attempt > MaxRetries + 1
    /\ result' = IF kind = "fallback" THEN "fallback" ELSE "technical"
    /\ UNCHANGED <<kind, attempt, request, late, effects>>

\* After the loop: on_fallback(), or TechnicalFailure.
Exhaust ==
    /\ result = "pending"
    /\ attempt > MaxRetries
    /\ result' = IF kind = "fallback" THEN "fallback" ELSE "technical"
    /\ UNCHANGED <<kind, attempt, request, late, effects>>

\* A request the loop gave up on runs after all, or is dropped.
LateRun ==
    /\ late > 0
    /\ late' = late - 1
    /\ effects' = effects + 1
    /\ UNCHANGED <<kind, attempt, request, result>>

LateDrop ==
    /\ late > 0
    /\ late' = late - 1
    /\ UNCHANGED <<kind, attempt, request, effects, result>>

Service == Run \/ Refuse \/ Lose \/ LateRun \/ LateDrop
Loop == Try \/ Answer \/ RaiseBusiness \/ GiveUpTry \/ Exhaust

Next == Service \/ Loop

Spec == Init /\ [][Next]_vars

\* wait_for bounds every try and the loop runs on the event loop, so the
\* coroutine always moves on; nothing is assumed of the service.
FairSpec == Spec /\ WF_vars(Loop)

-----------------------------------------------------------------------------
\* The request the loop waits for may still run, and so may the late ones:
\* everything that ran or may yet run stems from a try of its own.
Outstanding == late + (IF request = "sent" THEN 1 ELSE 0)
Tries == attempt + (IF request # "unsent" THEN 1 ELSE 0)

\* However requests are delayed, the service runs one operation at most
\* MaxRetries + 1 times: a try that times out is retried at most MaxRetries
\* times (the range of the for loop), and runs at most once.
EffectBound == effects + Outstanding <= MaxRetries + 1

\* The number of tries, and what is known of them, when the call has returned:
\* a value means the service ran the operation, and a technical failure or a
\* fallback means that every try the loop allows was spent.
ResultMeaning ==
    /\ result = "ok" => effects >= 1
    /\ result \in {"technical", "fallback"} => attempt = MaxRetries + 1
    /\ result = "business" => attempt <= MaxRetries
    /\ result = "technical" => kind # "fallback"
    /\ result = "business" => kind = "refusing"

\* Every call returns: no dependency that is called through call_with_breaker
\* can hang a conversation, however its requests are lost or delayed
\* (constitution VI.2).  Redis and Slack are not called through it.
Returns == <>(result # "pending")

-----------------------------------------------------------------------------
\* What callers rely on, stated in BoundedCall.
Abstract == INSTANCE BoundedCall WITH MaxEffects <- MaxRetries + 1
ImplementsBoundedCall == Abstract!Spec
=============================================================================
