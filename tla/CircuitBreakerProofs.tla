------------------------ MODULE CircuitBreakerProofs ------------------------
(***************************************************************************)
(* Theorems about CircuitBreaker, for every number of retries.             *)
(*                                                                         *)
(* The bound on effects is not inductive alone: it has to count the tries. *)
(* Inv says that whatever ran or may still run stems from a try of its     *)
(* own, that the loop starts at most MaxRetries + 1 tries, and what each   *)
(* answer implies about the try that gave it.                              *)
(***************************************************************************)
EXTENDS CircuitBreaker, TLAPS

Inv ==
    /\ TypeOK
    /\ effects + Outstanding <= Tries
    /\ attempt <= MaxRetries + 1
    /\ request # "unsent" => attempt <= MaxRetries
    /\ request = "ran" => effects >= 1
    /\ request = "refused" => kind = "refusing"
    /\ result = "ok" => request = "ran"
    /\ result = "business" => request = "refused"
    /\ result \in {"technical", "fallback"} =>
          attempt = MaxRetries + 1 /\ request = "unsent"
    /\ result = "technical" => kind # "fallback"

LEMMA InitInv == Init => Inv
  BY BreakerAssumption DEF Init, Inv, TypeOK, Outstanding, Tries, Requests, Results

\* Every step of the loop and of the service keeps the count of tries.
LEMMA NextInv == Inv /\ [Next]_vars => Inv'
  <1> SUFFICES ASSUME Inv, [Next]_vars PROVE Inv'
    OBVIOUS
  <1> USE BreakerAssumption DEF Inv, TypeOK, Outstanding, Tries, Requests, Results
  <1>1. CASE Try
    BY <1>1 DEF Try
  <1>2. CASE Run
    BY <1>2 DEF Run
  <1>3. CASE Refuse
    BY <1>3 DEF Refuse
  <1>4. CASE Lose
    BY <1>4 DEF Lose
  <1>5. CASE Answer
    BY <1>5 DEF Answer
  <1>6. CASE RaiseBusiness
    BY <1>6 DEF RaiseBusiness
  <1>7. CASE GiveUpTry
    BY <1>7 DEF GiveUpTry
  <1>8. CASE Exhaust
    BY <1>8 DEF Exhaust
  <1>9. CASE LateRun
    BY <1>9 DEF LateRun
  <1>10. CASE LateDrop
    BY <1>10 DEF LateDrop
  <1>11. CASE UNCHANGED vars
    BY <1>11 DEF vars
  <1> QED
    BY <1>1, <1>2, <1>3, <1>4, <1>5, <1>6, <1>7, <1>8, <1>9, <1>10, <1>11
    DEF Next, Service, Loop

LEMMA Invariance == Spec => []Inv
  BY InitInv, NextInv, PTL DEF Spec

-----------------------------------------------------------------------------
\* The variables of a call keep their types.
THEOREM TypeCorrect == Spec => []TypeOK
  <1>1. Inv => TypeOK
    BY DEF Inv
  <1> QED
    BY <1>1, Invariance, PTL

\* The service runs one operation at most MaxRetries + 1 times, however its
\* requests are delayed (call_with_breaker's for loop).
THEOREM EffectsBounded == Spec => []EffectBound
  <1>1. Inv => EffectBound
    BY BreakerAssumption DEF Inv, TypeOK, EffectBound, Outstanding, Tries, Requests
  <1> QED
    BY <1>1, Invariance, PTL

\* What each outcome of call_with_breaker tells its caller about the tries.
THEOREM ResultsMean == Spec => []ResultMeaning
  <1>1. Inv => ResultMeaning
    BY BreakerAssumption DEF Inv, TypeOK, ResultMeaning, Results
  <1> QED
    BY <1>1, Invariance, PTL

\* The loop implements the contract that AgentTurn gives every external call.
THEOREM Refinement == Spec => ImplementsBoundedCall
  <1>1. Init => Abstract!Init
    BY DEF Init, Abstract!Init
  <1>2. Inv /\ [Next]_vars => [Abstract!Next]_<<effects, result>>
    <2> SUFFICES ASSUME Inv, [Next]_vars
                 PROVE  [Abstract!Next]_<<effects, result>>
      OBVIOUS
    <2> USE BreakerAssumption DEF Inv, TypeOK, Outstanding, Tries, Requests, Results
    <2>1. CASE Run
      <3>1. effects < MaxRetries + 1
        BY <2>1 DEF Run
      <3> QED
        BY <2>1, <3>1 DEF Run, Abstract!Next, Abstract!Effect
    <2>2. CASE LateRun
      <3>1. effects < MaxRetries + 1
        BY <2>2 DEF LateRun
      <3> QED
        BY <2>2, <3>1 DEF LateRun, Abstract!Next, Abstract!Effect
    <2>3. CASE Answer
      BY <2>3 DEF Answer, Abstract!Next, Abstract!Succeed
    <2>4. CASE RaiseBusiness
      BY <2>4 DEF RaiseBusiness, Abstract!Next, Abstract!Fail
    <2>5. CASE Exhaust
      BY <2>5 DEF Exhaust, Abstract!Next, Abstract!Fail
    <2>6. CASE Try \/ Refuse \/ Lose \/ GiveUpTry \/ LateDrop \/ UNCHANGED vars
      BY <2>6 DEF Try, Refuse, Lose, GiveUpTry, LateDrop, vars
    <2> QED
      BY <2>1, <2>2, <2>3, <2>4, <2>5, <2>6 DEF Next, Service, Loop
  <1> QED
    BY <1>1, <1>2, Invariance, PTL DEF Spec, Abstract!Spec, ImplementsBoundedCall
=============================================================================
