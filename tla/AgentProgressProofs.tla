------------------------- MODULE AgentProgressProofs -------------------------
(***************************************************************************)
(* Theorems about how far a conversation of AgentTurn gets: what is decided*)
(* once, what is paid for, and that a saved session moves like a case of   *)
(* Conversation.                                                           *)
(*                                                                         *)
(* The ground is Lawful, what a node may change: one lemma per node.  It   *)
(* holds of every turn, whatever overlaps, and so does the theorem on      *)
(* complaints.  The others compare a turn's copy with the session it was   *)
(* read from, which is meaningful only as long as nobody else saves that   *)
(* session: they assume NoOverlap, and AgentOverlap.cfg shows a run        *)
(* without it.  The last theorem is about AgentExchanges, which counts     *)
(* what happened beside the session's own counters.                        *)
(***************************************************************************)
EXTENDS AgentTurnProofs, AgentExchanges

\* Where run_turn may go from each point: the edges of graph.py, and the calls
\* of the nodes that make two.
After(p) ==
    CASE p = "GREETING" -> {"IDENTIFICATION"}
      [] p = "IDENTIFICATION" -> {"IDENTIFICATION", "QUALIFICATION", "ESCALATION"}
      [] p = "QUALIFICATION" -> {"QUALIFICATION", "RETURN_FLOW", "COMPLAINT_FLOW",
                                 "CONFIRMATION", "ESCALATION"}
      [] p = "RETURN_FLOW" -> {"VERIFICATION"}
      [] p = "COMPLAINT_FLOW" -> {"COMPLAINT_FLOW", "RECORD_COMPLAINT"}
      [] p = "RECORD_COMPLAINT" -> {"VERIFICATION", "ESCALATION"}
      [] p = "VERIFICATION" -> {"DECISION", "ESCALATION"}
      [] p = "DECISION" -> {"AUTO_ACTION", "ESCALATION", "CONFIRMATION"}
      [] p = "AUTO_ACTION" -> {"TRIGGER_REFUND", "ESCALATION"}
      [] p = "TRIGGER_REFUND" -> {"ESCALATION", "CONFIRMATION"}
      [] p = "ESCALATION" -> {"NOTIFY", "CONFIRMATION"}
      [] p = "NOTIFY" -> {"CONFIRMATION"}
      [] p = "CONFIRMATION" -> {"CONFIRMATION"}

\* From the copy a at the point p to the copy b on its way to n: no step undoes
\* progress, and each field is written by one node.
Progresses(a, p, b, n) ==
    /\ n \in After(p)
    /\ a.order # NoOrder => b.order = a.order
    /\ p # "IDENTIFICATION" => b.order = a.order
    /\ a.settled => b.settled
    /\ a.escalated => b.escalated
    /\ b.escalated => a.escalated \/ n = "ESCALATION"
    /\ b.attempts >= a.attempts
    /\ b.reform >= a.reform
    /\ p # "QUALIFICATION" => b.intent = a.intent
    /\ p # "VERIFICATION" => b.verdict = a.verdict
    /\ p # "DECISION" => b.decision = a.decision
    /\ p # "TRIGGER_REFUND" => b.settled = a.settled

\* A turn pauses in front of the nodes that read a message, and after
\* CONFIRMATION.
Lawful(a, p, b, q) ==
    /\ Progresses(a, p, b, Where(b, q))
    /\ q = "SAVE" <=> Where(b, q) \in RequiresFreshInput \/ p = "CONFIRMATION"

\* Copies that agree on all of this but the escalation.
Alike(a, b) ==
    /\ b.order = a.order /\ b.intent = a.intent
    /\ b.verdict = a.verdict /\ b.decision = a.decision
    /\ b.settled = a.settled
    /\ b.attempts >= a.attempts /\ b.reform >= a.reform

\* Copies that agree on all of this.
Same(a, b) ==
    /\ b.order = a.order /\ b.escalated = a.escalated
    /\ b.intent = a.intent /\ b.verdict = a.verdict
    /\ b.decision = a.decision /\ b.settled = a.settled
    /\ b.attempts = a.attempts /\ b.reform = a.reform

LEMMA SameAlike ==
    ASSUME NEW a \in Session, NEW b, Same(a, b)
    PROVE  Alike(a, b)
  <1>1. a.attempts \in Nat /\ a.reform \in Nat
    BY DEF Session
  <1> QED
    BY <1>1 DEF Same, Alike

LEMMA AdvanceLawful ==
    ASSUME IInv, NEW w \in Turns, NEW t \in Session, NEW n \in Nodes,
           Advance(w, t, n), Progresses(st[w], pc[w], t, n),
           pc[w] # "CONFIRMATION"
    PROVE  Lawful(st[w], pc[w], st'[w], pc'[w])
  <1> DEFINE b == [t EXCEPT !.node = n]
             q == IF n \in RequiresFreshInput THEN "SAVE" ELSE n
  <1>1. st'[w] = b /\ pc'[w] = q
    BY DEF IInv, TypeOK, Advance, Move
  <1>2. /\ b.node = n /\ b.order = t.order /\ b.escalated = t.escalated
        /\ b.attempts = t.attempts /\ b.reform = t.reform /\ b.intent = t.intent
        /\ b.verdict = t.verdict /\ b.decision = t.decision
        /\ b.settled = t.settled
    BY DEF Session
  <1> HIDE DEF b
  <1>3. Where(b, q) = n
    BY <1>2 DEF Where, Nodes
  <1>4. q = "SAVE" <=> n \in RequiresFreshInput
    BY DEF Nodes
  <1>5. Progresses(st[w], pc[w], b, n)
    BY <1>2 DEF Progresses
  <1> QED
    BY <1>1, <1>3, <1>4, <1>5 DEF Lawful

LEMMA EscalatedAlike ==
    ASSUME NEW a \in Session, NEW reason \in EscalationReasons
    PROVE  /\ Escalated(a, reason) \in Session
           /\ Escalated(a, reason).escalated
           /\ Alike(a, Escalated(a, reason))
  <1> DEFINE e == Escalated(a, reason)
  <1>1. /\ e \in Session /\ e.escalated
        /\ e.order = a.order /\ e.intent = a.intent
        /\ e.verdict = a.verdict /\ e.decision = a.decision
        /\ e.settled = a.settled
        /\ e.attempts = a.attempts /\ e.reform = a.reform
    BY DEF Escalated, Session
  <1>2. a.attempts \in Nat /\ a.reform \in Nat
    BY DEF Session
  <1> QED
    BY <1>1, <1>2 DEF Alike

\* A node that gives up on a copy like its own hands it to ESCALATION.
LEMMA EscalationLawful ==
    ASSUME IInv, NEW w \in Turns, NEW t \in Session,
           NEW reason \in EscalationReasons, Alike(st[w], t),
           Advance(w, Escalated(t, reason), "ESCALATION"),
           "ESCALATION" \in After(pc[w]), pc[w] # "CONFIRMATION"
    PROVE  Lawful(st[w], pc[w], st'[w], pc'[w])
  <1> DEFINE e == Escalated(t, reason)
  <1>1. e \in Session /\ e.escalated /\ Alike(t, e)
    BY EscalatedAlike
  <1> HIDE DEF e
  <1>2. st[w] \in Session
    BY DEF IInv, TypeOK
  <1>3. Progresses(st[w], pc[w], e, "ESCALATION")
    BY <1>1, <1>2 DEF Alike, Progresses, Session
  <1> QED
    BY <1>1, <1>3, AdvanceLawful DEF Nodes, e

LEMMA GreetingLawful ==
    ASSUME IInv, NEW w \in Turns, StandsAt(w, "GREETING"), Greet(w)
    PROVE  Lawful(st[w], pc[w], st'[w], pc'[w])
  <1>1. st[w] \in Session /\ pc[w] = "GREETING"
    BY DEF StandsAt
  <1>2. Progresses(st[w], pc[w], st[w], "IDENTIFICATION")
    BY <1>1 DEF Progresses, After, Session
  <1> QED
    BY <1>1, <1>2, AdvanceLawful DEF Greet, Nodes

LEMMA IdentificationLawful ==
    ASSUME IInv, NEW w \in Turns, StandsAt(w, "IDENTIFICATION"),
           \/ HoldIdentification(w) \/ Identify(w)
           \/ FailIdentification(w) \/ IdentificationUnavailable(w)
    PROVE  Lawful(st[w], pc[w], st'[w], pc'[w])
  <1> DEFINE c == st[w]
  <1>1. /\ c \in Session /\ c.order = NoOrder /\ ~c.escalated
        /\ pc[w] = "IDENTIFICATION"
        /\ c.attempts \in Nat /\ c.reform \in Nat
    BY DEF StandsAt, Sound, SoundAt, Where, Session
  <1>2. After(pc[w]) = {"IDENTIFICATION", "QUALIFICATION", "ESCALATION"}
    BY <1>1 DEF After
  <1>3. CASE HoldIdentification(w)
    <2>1. Advance(w, c, "IDENTIFICATION")
      BY <1>1, <1>3 DEF HoldIdentification, RouteAfterIdentification
    <2>2. Progresses(c, pc[w], c, "IDENTIFICATION")
      BY <1>1, <1>2 DEF Progresses
    <2> QED
      BY <1>1, <2>1, <2>2, AdvanceLawful DEF Nodes
  <1>4. CASE Identify(w)
    <2>1. PICK o \in Orders :
             Advance(w, [c EXCEPT !.order = o],
                     RouteAfterIdentification([c EXCEPT !.order = o]))
      BY <1>4 DEF Identify
    <2> DEFINE t == [c EXCEPT !.order = o]
    <2>2. /\ t \in Session /\ t.order # NoOrder /\ ~t.escalated
          /\ RouteAfterIdentification(t) = "QUALIFICATION"
      BY <1>1, OrderAssumption DEF Session, RouteAfterIdentification
    <2>3. Progresses(c, pc[w], t, "QUALIFICATION")
      BY <1>1, <1>2 DEF Progresses, Session
    <2>4. Advance(w, t, "QUALIFICATION")
      BY <2>1, <2>2
    <2> HIDE DEF t
    <2> QED
      BY <1>1, <2>2, <2>3, <2>4, AdvanceLawful DEF Nodes
  <1>5. CASE FailIdentification(w)
    <2> DEFINE n == c.attempts + 1
               a == [c EXCEPT !.attempts = n]
               e == Escalated(a, "identification_failed")
    <2>1. n \in Nat /\ n >= c.attempts
      BY <1>1
    <2>2. \/ Advance(w, a, RouteAfterIdentification(a))
          \/ Advance(w, e, RouteAfterIdentification(e))
      BY <1>5 DEF FailIdentification
    <2> HIDE DEF n
    <2>3. a \in Session /\ Alike(c, a) /\ a.order = NoOrder /\ ~a.escalated
      BY <1>1, <2>1 DEF Session, Alike
    <2> HIDE DEF a
    <2>4. e.escalated
      BY <2>3, EscalatedAlike DEF EscalationReasons
    <2>5. \/ Advance(w, a, "IDENTIFICATION")
          \/ Advance(w, e, "ESCALATION")
      BY <2>2, <2>3, <2>4 DEF RouteAfterIdentification
    <2>6. Progresses(c, pc[w], a, "IDENTIFICATION")
      BY <1>1, <1>2, <2>3 DEF Progresses, Alike
    <2> QED
      BY <1>1, <1>2, <2>3, <2>5, <2>6, AdvanceLawful, EscalationLawful
      DEF Nodes, EscalationReasons
  <1>6. CASE IdentificationUnavailable(w)
    <2>1. Advance(w, Escalated(c, "service_unavailable"), "ESCALATION")
      BY <1>1, <1>6, EscalatedSound
      DEF IdentificationUnavailable, RouteAfterIdentification, EscalationReasons
    <2>2. Alike(c, c)
      BY <1>1 DEF Alike
    <2> QED
      BY <1>1, <1>2, <2>1, <2>2, EscalationLawful DEF EscalationReasons
  <1> QED
    BY <1>3, <1>4, <1>5, <1>6

LEMMA QualificationLawful ==
    ASSUME IInv, NEW w \in Turns, StandsAt(w, "QUALIFICATION"),
           Qualify(w) \/ AskIntent(w)
    PROVE  Lawful(st[w], pc[w], st'[w], pc'[w])
  <1> DEFINE c == st[w]
  <1>1. /\ c \in Session /\ c.order # NoOrder /\ ~c.escalated /\ c.intent = "none"
        /\ pc[w] = "QUALIFICATION"
        /\ c.attempts \in Nat /\ c.reform \in Nat
    BY DEF StandsAt, Sound, SoundAt, Where, Session, Serving
  <1>2. After(pc[w]) = {"QUALIFICATION", "RETURN_FLOW", "COMPLAINT_FLOW",
                        "CONFIRMATION", "ESCALATION"}
    BY <1>1 DEF After
  <1>3. CASE Qualify(w)
    <2>1. PICK intent \in {"return", "complaint", "other"} :
             Advance(w, [c EXCEPT !.intent = intent],
                     RouteAfterQualification([c EXCEPT !.intent = intent]))
      BY <1>3 DEF Qualify
    <2> DEFINE t == [c EXCEPT !.intent = intent]
               n == RouteAfterQualification(t)
    <2>2. t \in Session /\ ~t.escalated /\ t.intent = intent
      BY <1>1 DEF Session, Intents
    <2>3. n \in {"RETURN_FLOW", "COMPLAINT_FLOW", "CONFIRMATION"}
      <3> HIDE DEF t
      <3> QED
        BY <2>2 DEF RouteAfterQualification
    <2>4. /\ t.order = c.order /\ t.attempts = c.attempts /\ t.reform = c.reform
          /\ t.verdict = c.verdict /\ t.decision = c.decision
          /\ t.settled = c.settled
      BY <1>1 DEF Session
    <2> HIDE DEF t, n
    <2>5. Progresses(c, pc[w], t, n)
      BY <1>1, <1>2, <2>2, <2>3, <2>4 DEF Progresses
    <2> QED
      BY <1>1, <2>1, <2>2, <2>3, <2>5, AdvanceLawful DEF Nodes, t, n
  <1>4. CASE AskIntent(w)
    <2> DEFINE n == c.reform + 1
               a == [c EXCEPT !.reform = n]
               e == Escalated(a, "qualification_unclear")
    <2>1. n \in Nat /\ n >= c.reform
      BY <1>1
    <2>2. \/ Advance(w, a, RouteAfterQualification(a))
          \/ Advance(w, e, RouteAfterQualification(e))
      BY <1>4 DEF AskIntent
    <2> HIDE DEF n
    <2>3. a \in Session /\ Alike(c, a) /\ ~a.escalated
      <3>1. /\ a \in Session /\ ~a.escalated
            /\ a.order = c.order /\ a.intent = c.intent
            /\ a.verdict = c.verdict /\ a.decision = c.decision
            /\ a.settled = c.settled
            /\ a.attempts = c.attempts /\ a.reform = n
        BY <1>1, <2>1 DEF Session
      <3> HIDE DEF a, c
      <3> QED
        BY <1>1, <2>1, <3>1 DEF Alike
    <2> HIDE DEF a
    <2>4. e.escalated /\ a.intent = "none"
      BY <1>1, <2>3, EscalatedAlike DEF EscalationReasons, Alike
    <2>5. \/ Advance(w, a, "QUALIFICATION")
          \/ Advance(w, e, "ESCALATION")
      BY <2>2, <2>3, <2>4 DEF RouteAfterQualification
    <2>6. Progresses(c, pc[w], a, "QUALIFICATION")
      BY <1>1, <1>2, <2>3 DEF Progresses, Alike
    <2> QED
      BY <1>1, <1>2, <2>3, <2>5, <2>6, AdvanceLawful, EscalationLawful
      DEF Nodes, EscalationReasons
  <1> QED
    BY <1>3, <1>4

LEMMA FlowsLawful ==
    ASSUME IInv, NEW w \in Turns, StandsAt(w, pc[w]),
           \/ CollectReturn(w) \/ AskDescription(w) \/ CollectComplaint(w)
           \/ RecordComplaint(w)
    PROVE  Lawful(st[w], pc[w], st'[w], pc'[w])
  <1> DEFINE c == st[w]
  <1>1. /\ c \in Session /\ c.attempts \in Nat /\ c.reform \in Nat
    BY DEF StandsAt, Session
  <1>2. pc[w] \in {"RETURN_FLOW", "COMPLAINT_FLOW", "RECORD_COMPLAINT"}
    BY DEF CollectReturn, AskDescription, CollectComplaint, RecordComplaint
  <1>3. c.order # NoOrder /\ ~c.escalated
    BY <1>2 DEF StandsAt, Sound, SoundAt, Where, Serving
  <1> HIDE DEF c
  <1>4. CASE CollectReturn(w)
    <2>1. PICK reason \in {"listed", "other"} :
             Advance(w, [c EXCEPT !.reason = reason], "VERIFICATION")
      BY <1>4 DEF CollectReturn, c
    <2> DEFINE t == [c EXCEPT !.reason = reason]
    <2>2. t \in Session /\ Alike(c, t) /\ ~t.escalated
      <3>1. t \in Session /\ Same(c, t)
        BY <1>1 DEF Session, Reasons, Same
      <3> HIDE DEF t
      <3> QED
        BY <1>1, <1>3, <3>1, SameAlike DEF Same
    <2>3. pc[w] = "RETURN_FLOW"
      BY <1>4 DEF CollectReturn
    <2> HIDE DEF t
    <2>4. Progresses(c, pc[w], t, "VERIFICATION")
      BY <1>3, <2>2, <2>3 DEF Progresses, Alike, After
    <2> QED
      BY <2>1, <2>2, <2>3, <2>4, AdvanceLawful DEF Nodes, t, c
  <1>5. CASE AskDescription(w)
    <2> DEFINE n == c.reform + 1
               t == [c EXCEPT !.reform = n, !.vague = TRUE]
    <2>1. n \in Nat /\ n >= c.reform
      BY <1>1
    <2>2. Advance(w, t, RouteAfterComplaintFlow(t)) /\ pc[w] = "COMPLAINT_FLOW"
      BY <1>5 DEF AskDescription, c
    <2> HIDE DEF n
    <2>3. /\ t \in Session /\ ~t.escalated /\ t.vague
          /\ t.order = c.order /\ t.intent = c.intent
          /\ t.verdict = c.verdict /\ t.decision = c.decision
          /\ t.settled = c.settled
          /\ t.attempts = c.attempts /\ t.reform = n
      BY <1>1, <1>3, <2>1 DEF Session
    <2> HIDE DEF t
    <2>4. RouteAfterComplaintFlow(t) = "COMPLAINT_FLOW"
      BY <2>3 DEF RouteAfterComplaintFlow
    <2>5. Progresses(c, pc[w], t, "COMPLAINT_FLOW")
      BY <1>1, <1>3, <2>1, <2>2, <2>3 DEF Progresses, After
    <2> QED
      BY <2>2, <2>3, <2>4, <2>5, AdvanceLawful DEF Nodes, c
  <1>6. CASE CollectComplaint(w)
    <2>1. PICK reason \in {"listed", "other"} :
             Move(w, "RECORD_COMPLAINT", [c EXCEPT !.reason = reason])
      BY <1>6 DEF CollectComplaint, c
    <2> DEFINE t == [c EXCEPT !.reason = reason]
    <2>2. Alike(c, t) /\ ~t.escalated
      <3>1. Same(c, t)
        BY <1>1 DEF Session, Same
      <3> HIDE DEF t
      <3> QED
        BY <1>1, <1>3, <3>1, SameAlike DEF Same
    <2>3. pc[w] = "COMPLAINT_FLOW"
      BY <1>6 DEF CollectComplaint
    <2> HIDE DEF t
    <2>4. Progresses(c, pc[w], t, "RECORD_COMPLAINT")
      BY <1>3, <2>2, <2>3 DEF Progresses, Alike, After
    <2>5. st'[w] = t /\ pc'[w] = "RECORD_COMPLAINT"
      BY <2>1 DEF Move, IInv, TypeOK, t
    <2> QED
      BY <2>3, <2>4, <2>5 DEF Lawful, Where, RequiresFreshInput, c
  <1>7. CASE RecordComplaint(w)
    <2> DEFINE e == Escalated(c, "repeated_complaint")
               t == [c EXCEPT !.vague = FALSE]
    <2>1. /\ pc[w] = "RECORD_COMPLAINT"
          /\ \/ Advance(w, e, RouteAfterComplaintFlow(e))
             \/ Advance(w, t, RouteAfterComplaintFlow(t))
      BY <1>7 DEF RecordComplaint, c
    <2>2. t \in Session /\ Alike(c, t) /\ ~t.escalated /\ ~t.vague
      <3>1. t \in Session /\ Same(c, t) /\ ~t.vague
        BY <1>1 DEF Session, Same
      <3> HIDE DEF t
      <3> QED
        BY <1>1, <1>3, <3>1, SameAlike DEF Same
    <2>3. e.escalated /\ Alike(c, c)
      BY <1>1, EscalatedAlike DEF EscalationReasons, Alike
    <2> HIDE DEF t
    <2>4. \/ Advance(w, e, "ESCALATION")
          \/ Advance(w, t, "VERIFICATION")
      BY <2>1, <2>2, <2>3 DEF RouteAfterComplaintFlow
    <2>5. Progresses(c, pc[w], t, "VERIFICATION")
      BY <1>3, <2>1, <2>2 DEF Progresses, Alike, After
    <2>6. "ESCALATION" \in After(pc[w])
      BY <2>1 DEF After
    <2> QED
      BY <1>1, <2>1, <2>2, <2>3, <2>4, <2>5, <2>6, AdvanceLawful, EscalationLawful
      DEF Nodes, EscalationReasons, c
  <1> QED
    BY <1>4, <1>5, <1>6, <1>7

LEMMA DecidingLawful ==
    ASSUME IInv, NEW w \in Turns, StandsAt(w, pc[w]),
           Verify(w) \/ VerificationUnavailable(w) \/ Decide(w)
    PROVE  Lawful(st[w], pc[w], st'[w], pc'[w])
  <1> DEFINE c == st[w]
  <1>1. /\ c \in Session /\ c.attempts \in Nat /\ c.reform \in Nat
    BY DEF StandsAt, Session
  <1>2. pc[w] \in {"VERIFICATION", "DECISION"}
    BY DEF Verify, VerificationUnavailable, Decide
  <1>3. c.order # NoOrder /\ ~c.escalated /\ (pc[w] = "DECISION" => c.verdict # "none")
    BY <1>2 DEF StandsAt, Sound, SoundAt, Where, Serving
  <1>4. "ESCALATION" \in After(pc[w])
    BY <1>2 DEF After
  <1> HIDE DEF c
  <1>5. CASE Verify(w)
    <2>1. PICK verdict \in Verdicts \ {"none"} :
             Advance(w, [c EXCEPT !.verdict = verdict],
                     RouteAfterVerification([c EXCEPT !.verdict = verdict]))
      BY <1>5 DEF Verify, c
    <2> DEFINE t == [c EXCEPT !.verdict = verdict]
    <2>2. /\ t \in Session /\ ~t.escalated
          /\ t.order = c.order /\ t.intent = c.intent
          /\ t.decision = c.decision /\ t.settled = c.settled
          /\ t.attempts = c.attempts /\ t.reform = c.reform
      BY <1>1, <1>3 DEF Session
    <2>3. pc[w] = "VERIFICATION"
      BY <1>5 DEF Verify
    <2> HIDE DEF t
    <2>4. RouteAfterVerification(t) = "DECISION"
      BY <2>2 DEF RouteAfterVerification
    <2>5. Progresses(c, pc[w], t, "DECISION")
      BY <1>1, <1>3, <2>2, <2>3 DEF Progresses, After
    <2> QED
      BY <2>1, <2>2, <2>3, <2>4, <2>5, AdvanceLawful DEF Nodes, t, c
  <1>6. CASE VerificationUnavailable(w)
    <2>1. Advance(w, Escalated(c, "service_unavailable"), "ESCALATION")
      BY <1>1, <1>6, EscalatedSound
      DEF VerificationUnavailable, RouteAfterVerification, EscalationReasons, c
    <2>2. Alike(c, c)
      BY <1>1 DEF Alike
    <2> QED
      BY <1>1, <1>2, <1>4, <2>1, <2>2, EscalationLawful DEF EscalationReasons, c
  <1>7. CASE Decide(w)
    <2>1. pc[w] = "DECISION"
      BY <1>7 DEF Decide
    <2>2. c.verdict \in {"ineligible", "auto", "amount", "warranty"}
      BY <1>1, <1>3, <2>1 DEF Session, Verdicts
    <2> DEFINE Decided(d) == [c EXCEPT !.decision = d]
    <2>3. ASSUME NEW d \in Decisions \ {"none"}
          PROVE  /\ Decided(d) \in Session /\ Decided(d).decision = d
                 /\ Decided(d).escalated = c.escalated
                 /\ Decided(d).order = c.order /\ Decided(d).intent = c.intent
                 /\ Decided(d).verdict = c.verdict /\ Decided(d).settled = c.settled
                 /\ Decided(d).attempts = c.attempts /\ Decided(d).reform = c.reform
      BY <1>1, <2>3 DEF Session
    <2>4. CASE c.verdict \in {"ineligible", "auto"}
      <3> DEFINE d == IF c.verdict = "auto" THEN "auto" ELSE "refused"
                 n == IF c.verdict = "auto" THEN "AUTO_ACTION" ELSE "CONFIRMATION"
      <3>1. Advance(w, Decided(d), RouteAfterDecision(Decided(d)))
        BY <1>7, <2>4 DEF Decide, c
      <3>2. d \in Decisions \ {"none"} /\ (d = "auto" => n = "AUTO_ACTION")
            /\ (d # "auto" => d = "refused" /\ n = "CONFIRMATION")
            /\ n \in {"AUTO_ACTION", "CONFIRMATION"}
        BY DEF Decisions
      <3> HIDE DEF d, n, Decided
      <3>3. RouteAfterDecision(Decided(d)) = n
        BY <2>3, <3>2 DEF RouteAfterDecision
      <3>4. Progresses(c, pc[w], Decided(d), n)
        <4> DEFINE t == Decided(d)
        <4>1. /\ t.escalated = c.escalated
              /\ t.order = c.order /\ t.intent = c.intent
              /\ t.verdict = c.verdict /\ t.settled = c.settled
              /\ t.attempts = c.attempts /\ t.reform = c.reform
          BY <2>3, <3>2
        <4>2. n \in After(pc[w])
          BY <2>1, <3>2 DEF After
        <4> HIDE DEF t
        <4>3. Progresses(c, pc[w], t, n)
          BY <1>1, <1>3, <2>1, <4>1, <4>2 DEF Progresses
        <4> QED
          BY <4>3 DEF t
      <3> QED
        BY <2>1, <2>3, <3>1, <3>2, <3>3, <3>4, AdvanceLawful DEF Nodes, c
    <2>5. CASE c.verdict \in {"amount", "warranty"}
      <3> DEFINE t == Decided("escalated")
                 r == IF c.verdict = "amount" THEN "amount_above_threshold"
                      ELSE "legal_warranty"
                 e == Escalated(t, r)
      <3>1. Advance(w, e, RouteAfterDecision(e))
        BY <1>7, <2>5 DEF Decide, c
      <3>2. r \in EscalationReasons
        BY DEF EscalationReasons
      <3> HIDE DEF r, Decided
      <3>3. /\ e \in Session /\ e.escalated /\ Alike(t, e)
            /\ t.decision = "escalated"
        BY <2>3, <3>2, EscalatedAlike DEF Decisions
      <3> HIDE DEF e
      <3>4. RouteAfterDecision(e) = "ESCALATION"
        BY <3>3 DEF RouteAfterDecision, Alike
      <3>5. Progresses(c, pc[w], e, "ESCALATION")
        <4>1. /\ t.order = c.order /\ t.intent = c.intent
              /\ t.verdict = c.verdict /\ t.settled = c.settled
              /\ t.attempts = c.attempts /\ t.reform = c.reform
          BY <2>3 DEF Decisions
        <4> HIDE DEF t
        <4> QED
          BY <1>4, <2>1, <3>3, <4>1 DEF Progresses, Alike
      <3> QED
        BY <2>1, <3>1, <3>3, <3>4, <3>5, AdvanceLawful DEF Nodes, c
    <2> QED
      BY <2>2, <2>4, <2>5
  <1> QED
    BY <1>5, <1>6, <1>7

LEMMA ActingLawful ==
    ASSUME IInv, NEW w \in Turns, StandsAt(w, pc[w]),
           \/ CreateReturnLabel(w) \/ FailReturnLabel(w)
           \/ TriggerRefund(w) \/ FailRefund(w)
    PROVE  Lawful(st[w], pc[w], st'[w], pc'[w])
  <1> DEFINE c == st[w]
  <1>1. /\ c \in Session /\ c.attempts \in Nat /\ c.reform \in Nat
    BY DEF StandsAt, Session
  <1>2. pc[w] \in Acting
    BY DEF CreateReturnLabel, FailReturnLabel, TriggerRefund, FailRefund, Acting
  <1>3. c.order # NoOrder /\ ~c.escalated
    BY <1>2 DEF StandsAt, Sound, SoundAt, Where, Serving, Acting
  <1> HIDE DEF c
  <1>4. CASE CreateReturnLabel(w)
    <2>1. /\ pc[w] = "AUTO_ACTION" /\ st'[w] = c /\ pc'[w] = "TRIGGER_REFUND"
      BY <1>4 DEF CreateReturnLabel, Move, IInv, TypeOK, c
    <2>2. Progresses(c, pc[w], c, "TRIGGER_REFUND")
      BY <1>1, <2>1 DEF Progresses, After
    <2> QED
      BY <2>1, <2>2 DEF Lawful, Where, RequiresFreshInput, c
  <1>5. CASE FailReturnLabel(w) \/ FailRefund(w)
    <2>1. Advance(w, Escalated(c, "technical_action_failed"), "ESCALATION")
      BY <1>1, <1>5, EscalatedSound
      DEF FailReturnLabel, FailRefund, RouteAfterAutoAction, EscalationReasons, c
    <2>2. Alike(c, c) /\ "ESCALATION" \in After(pc[w])
      BY <1>1, <1>2 DEF Alike, Acting, After
    <2> QED
      BY <1>1, <1>2, <2>1, <2>2, EscalationLawful DEF EscalationReasons, Acting, c
  <1>6. CASE TriggerRefund(w)
    <2> DEFINE t == [c EXCEPT !.settled = TRUE, !.referenced = TRUE]
    <2>1. pc[w] = "TRIGGER_REFUND" /\ Advance(w, t, RouteAfterAutoAction(t))
      BY <1>6 DEF TriggerRefund, c
    <2>2. /\ t \in Session /\ ~t.escalated /\ t.settled
          /\ t.order = c.order /\ t.intent = c.intent
          /\ t.verdict = c.verdict /\ t.decision = c.decision
          /\ t.attempts = c.attempts /\ t.reform = c.reform
      BY <1>1, <1>3 DEF Session
    <2> HIDE DEF t
    <2>3. RouteAfterAutoAction(t) = "CONFIRMATION"
      BY <2>2 DEF RouteAfterAutoAction
    <2>4. Progresses(c, pc[w], t, "CONFIRMATION")
      BY <1>1, <1>3, <2>1, <2>2 DEF Progresses, After
    <2> QED
      BY <2>1, <2>2, <2>3, <2>4, AdvanceLawful DEF Nodes, c
  <1> QED
    BY <1>4, <1>5, <1>6

LEMMA ClosingLawful ==
    ASSUME IInv, NEW w \in Turns, StandsAt(w, pc[w]),
           \/ CreateTicket(w) \/ FailTicket(w) \/ Notify(w)
           \/ Confirm(w) \/ ConfirmRefusal(w)
    PROVE  Lawful(st[w], pc[w], st'[w], pc'[w])
  <1> DEFINE c == st[w]
  <1>1. /\ c \in Session /\ c.attempts \in Nat /\ c.reform \in Nat
    BY DEF StandsAt, Session
  <1>2. pc[w] \in {"ESCALATION", "NOTIFY"} => c.escalated
    BY DEF StandsAt, Sound, SoundAt, Where
  <1> HIDE DEF c
  <1>3. CASE CreateTicket(w)
    <2>1. pc[w] = "ESCALATION" /\ st'[w] = c /\ pc'[w] = "NOTIFY"
      BY <1>3 DEF CreateTicket, Move, IInv, TypeOK, c
    <2>2. Progresses(c, pc[w], c, "NOTIFY")
      BY <1>1, <2>1 DEF Progresses, After
    <2> QED
      BY <2>1, <2>2 DEF Lawful, Where, RequiresFreshInput, c
  <1>4. CASE FailTicket(w) \/ Notify(w)
    <2>1. PICK told \in BOOLEAN : Advance(w, HandedOver(c, told), "CONFIRMATION")
      BY <1>4 DEF FailTicket, Notify, c
    <2> DEFINE t == HandedOver(c, told)
    <2>2. pc[w] \in {"ESCALATION", "NOTIFY"}
      BY <1>4 DEF FailTicket, Notify
    <2>3. /\ t \in Session
          /\ t.order = c.order /\ t.intent = c.intent
          /\ t.verdict = c.verdict /\ t.decision = c.decision
          /\ t.settled = c.settled
          /\ t.attempts = c.attempts /\ t.reform = c.reform
      BY <1>1 DEF HandedOver, Session
    <2> HIDE DEF t
    <2>4. Progresses(c, pc[w], t, "CONFIRMATION")
      <3>1. "CONFIRMATION" \in After(pc[w])
        BY <2>2 DEF After
      <3>2. t.escalated
        BY <1>1 DEF t, HandedOver, Session
      <3> QED
        BY <1>1, <1>2, <2>2, <2>3, <3>1, <3>2 DEF Progresses
    <2> QED
      BY <2>1, <2>2, <2>3, <2>4, AdvanceLawful DEF Nodes, t, c
  <1>5. CASE Confirm(w) \/ ConfirmRefusal(w)
    <2>1. PICK r :
             Move(w, "SAVE", [c EXCEPT !.node = "CONFIRMATION", !.referenced = r])
      <3>1. CASE Confirm(w)
        <4>1. [c EXCEPT !.node = "CONFIRMATION"] =
                 [c EXCEPT !.node = "CONFIRMATION", !.referenced = c.referenced]
          BY <1>1 DEF Session
        <4> QED
          BY <3>1, <4>1 DEF Confirm, c
      <3>2. CASE ConfirmRefusal(w)
        BY <3>2 DEF ConfirmRefusal, c
      <3> QED
        BY <1>5, <3>1, <3>2
    <2> DEFINE t == [c EXCEPT !.node = "CONFIRMATION", !.referenced = r]
    <2>2. pc[w] = "CONFIRMATION"
      BY <1>5 DEF Confirm, ConfirmRefusal
    <2>3. st'[w] = t /\ pc'[w] = "SAVE"
      BY <2>1 DEF Move, IInv, TypeOK
    <2>4. /\ t.node = "CONFIRMATION" /\ t.escalated = c.escalated
          /\ t.order = c.order /\ t.intent = c.intent
          /\ t.verdict = c.verdict /\ t.decision = c.decision
          /\ t.settled = c.settled
          /\ t.attempts = c.attempts /\ t.reform = c.reform
      BY <1>1 DEF Session
    <2> HIDE DEF t
    <2>5. Progresses(c, pc[w], t, "CONFIRMATION")
      BY <1>1, <2>2, <2>4 DEF Progresses, After
    <2> QED
      BY <2>2, <2>3, <2>4, <2>5 DEF Lawful, Where, c
  <1> QED
    BY <1>3, <1>4, <1>5

\* What every node's step does, to this turn's copy and to the others'.
LEMMA NodesLawful ==
    ASSUME IInv, NEW w \in Turns, Computes(w)
    PROVE  /\ Lawful(st[w], pc[w], st'[w], pc'[w])
           /\ pc[w] \in Points \ {"SAVE"} /\ of[w] \in Sessions
           /\ st[w] \in Session /\ SoundAt(st[w], pc[w])
           /\ st'[w] \in Session /\ pc'[w] \in Points /\ Sound(st'[w], pc'[w])
           /\ \A v \in Turns : v # w => pc'[v] = pc[v] /\ st'[v] = st[v]
           /\ UNCHANGED <<store, of, lost, expired>>
  <1>1. pc[w] \notin {"idle", "SAVE"}
    BY DEF Computes, Greet, HoldIdentification, Identify, FailIdentification,
       IdentificationUnavailable, Qualify, AskIntent, CollectReturn,
       AskDescription, CollectComplaint, RecordComplaint, Verify,
       VerificationUnavailable, Decide, CreateReturnLabel, FailReturnLabel,
       TriggerRefund, FailRefund, CreateTicket, FailTicket, Notify, Confirm,
       ConfirmRefusal
  <1>2. StandsAt(w, pc[w]) /\ pc[w] \in Points /\ of[w] \in Sessions
    BY <1>1 DEF IInv, TypeOK, SoundInv, StandsAt
  <1>3. Lawful(st[w], pc[w], st'[w], pc'[w])
    <2>1. CASE Greet(w)
      BY <1>2, <2>1, GreetingLawful DEF Greet
    <2>2. CASE \/ HoldIdentification(w) \/ Identify(w)
               \/ FailIdentification(w) \/ IdentificationUnavailable(w)
      <3>1. pc[w] = "IDENTIFICATION"
        BY <2>2 DEF HoldIdentification, Identify, FailIdentification,
                    IdentificationUnavailable
      <3> QED
        BY <1>2, <2>2, <3>1, IdentificationLawful
    <2>3. CASE Qualify(w) \/ AskIntent(w)
      <3>1. pc[w] = "QUALIFICATION"
        BY <2>3 DEF Qualify, AskIntent
      <3> QED
        BY <1>2, <2>3, <3>1, QualificationLawful
    <2> QED
      BY <1>2, <2>1, <2>2, <2>3, FlowsLawful, DecidingLawful, ActingLawful,
         ClosingLawful DEF Computes
  <1>4. MovesSoundly(w) /\ UNCHANGED <<store, of, lost, expired>>
    BY ComputesSound
  <1>5. /\ st'[w] \in Session /\ pc'[w] \in Points /\ Sound(st'[w], pc'[w])
        /\ \A v \in Turns : v # w => pc'[v] = pc[v] /\ st'[v] = st[v]
    BY <1>4 DEF MovesSoundly, Move, IInv, TypeOK
  <1> QED
    BY <1>1, <1>2, <1>3, <1>4, <1>5 DEF StandsAt, Sound, Where

\* The other steps of the system.
LEMMA DropFrame ==
    ASSUME IInv, NEW w \in Turns, Drops(w)
    PROVE  /\ pc[w] # "idle" /\ of[w] \in Sessions
           /\ pc'[w] = "idle" /\ store' = store
           /\ \A v \in Turns : v # w =>
                 pc'[v] = pc[v] /\ of'[v] = of[v] /\ st'[v] = st[v]
           /\ lost' = [lost EXCEPT ![of[w]] = @ + 1]
           /\ UNCHANGED <<acted, opened, expired>>
  <1>1. Drop(w) /\ pc[w] # "idle"
    BY DEF Drops, DropOnFailure, LoseComplaint, Crash
  <1> QED
    BY <1>1 DEF IInv, TypeOK, SoundInv, Drop, Finish, Once

LEMMA SaveFrame ==
    ASSUME IInv, NEW w \in Turns, Save(w)
    PROVE  /\ pc[w] = "SAVE" /\ of[w] \in Sessions /\ st[w] \in Session
           /\ pc'[w] = "idle"
           /\ \A s \in Sessions : store'[s] = IF s = of[w] THEN st[w] ELSE store[s]
           /\ \A v \in Turns : v # w =>
                 pc'[v] = pc[v] /\ of'[v] = of[v] /\ st'[v] = st[v]
           /\ UNCHANGED <<backend, history>>
  BY DEF IInv, TypeOK, SoundInv, Save, Finish

LEMMA ReceiveFrame ==
    ASSUME IInv, NEW w \in Turns, NEW s \in Sessions, Receive(w, s)
    PROVE  /\ pc[w] = "idle" /\ store' = store /\ of'[w] = s
           /\ st'[w] = IF s \in Saved THEN store[s] ELSE FreshSession
           /\ pc'[w] = st'[w].node /\ pc'[w] \notin {"idle", "SAVE"}
           /\ \A v \in Turns : v # w =>
                 pc'[v] = pc[v] /\ of'[v] = of[v] /\ st'[v] = st[v]
           /\ UNCHANGED <<backend, history>>
  <1> DEFINE c == IF store[s] = NoSession THEN FreshSession ELSE store[s]
  <1>1. /\ pc[w] = "idle" /\ Move(w, c.node, c) /\ of' = [of EXCEPT ![w] = s]
        /\ store' = store /\ UNCHANGED <<backend, history>>
    BY DEF Receive
  <1>2. c = FreshSession \/ (s \in Saved /\ c \in Session /\ Sound(c, "SAVE"))
    BY DEF IInv, TypeOK, SoundInv, Saved
  <1>3. c.node \in Nodes
    BY <1>2, FreshTyped DEF Session
  <1>4. c = IF s \in Saved THEN store[s] ELSE FreshSession
    BY DEF Saved
  <1> HIDE DEF c
  <1> QED
    BY <1>1, <1>3, <1>4 DEF IInv, TypeOK, Move, Nodes

LEMMA ExpireFrame ==
    ASSUME IInv, NEW s \in Sessions, Expire(s)
    PROVE  /\ store'[s] = NoSession
           /\ \A t \in Sessions : t # s => store'[t] = store[t]
           /\ expired' = [expired EXCEPT ![s] = @ + 1]
           /\ "expiry" \in Faults
           /\ UNCHANGED <<pc, of, st, backend, acted, opened, lost>>
  BY DEF IInv, TypeOK, Expire, Once

-----------------------------------------------------------------------------
(* What is decided when.                                                   *)

Talking == {"GREETING", "IDENTIFICATION", "QUALIFICATION", "RETURN_FLOW",
            "COMPLAINT_FLOW", "RECORD_COMPLAINT", "VERIFICATION"}

\* Java is not asked before VERIFICATION nor anything decided before DECISION;
\* a request out of scope is never decided, and only an approval is settled.
Early(s, p) ==
    /\ Where(s, p) \in Talking => s.verdict = "none"
    /\ Where(s, p) \in Talking \union {"DECISION"} => s.decision = "none"
    /\ s.settled => s.decision = "auto"
    /\ s.intent = "other" => s.decision = "none"

EarlyInv ==
    /\ \A w \in Turns : pc[w] # "idle" => Early(st[w], pc[w])
    /\ \A s \in Saved : Early(store[s], "SAVE")

\* The edges that lead to a node before DECISION, or to DECISION.
LEMMA EarlyEdges ==
    ASSUME NEW p \in Points \ {"SAVE"}, NEW n \in After(p)
    PROVE  /\ n \in Talking => p \in Talking \ {"VERIFICATION"}
           /\ n \in Talking \union {"DECISION"} => p \in Talking
  BY DEF After, Points, Nodes, Talking

LEMMA EarlyStep ==
    ASSUME NEW a \in Session, NEW p \in Points \ {"SAVE"}, NEW b, NEW q,
           SoundAt(a, p), Early(a, p), Lawful(a, p, b, q)
    PROVE  Early(b, q)
  <1> DEFINE n == Where(b, q)
  <1>1. n \in After(p) /\ Progresses(a, p, b, n)
    BY DEF Lawful, Progresses
  <1> HIDE DEF n
  <1>2. /\ p \in Talking => a.verdict = "none" /\ a.decision = "none"
        /\ p = "DECISION" => a.decision = "none"
    BY DEF Early, Where, Talking
  <1>3. n \in Talking => b.verdict = "none"
    BY <1>1, <1>2, EarlyEdges DEF Progresses, Talking
  <1>4. n \in Talking \union {"DECISION"} => b.decision = "none"
    BY <1>1, <1>2, EarlyEdges DEF Progresses, Talking
  <1>5. b.settled => b.decision = "auto"
    <2>1. CASE p = "TRIGGER_REFUND"
      BY <1>1, <2>1 DEF Progresses, SoundAt, Acting
    <2>2. CASE p # "TRIGGER_REFUND"
      BY <1>1, <1>2, <2>2 DEF Progresses, Early
    <2> QED
      BY <2>1, <2>2
  <1>6. b.intent = "other" => b.decision = "none"
    <2>1. CASE p = "QUALIFICATION"
      BY <1>1, <1>2, <2>1 DEF Progresses, Talking
    <2>2. CASE p = "DECISION"
      BY <1>1, <2>2 DEF Progresses, SoundAt, Deciding
    <2>3. CASE p \notin {"QUALIFICATION", "DECISION"}
      BY <1>1, <2>3 DEF Progresses, Early
    <2> QED
      BY <2>1, <2>2, <2>3
  <1> QED
    BY <1>3, <1>4, <1>5, <1>6 DEF Early, n

LEMMA EarlyNext == IInv /\ EarlyInv /\ [Next]_vars => EarlyInv'
  <1> SUFFICES ASSUME IInv, EarlyInv, [Next]_vars PROVE EarlyInv'
    OBVIOUS
  <1>1. ASSUME NEW w \in Turns, Computes(w) PROVE EarlyInv'
    <2>1. pc[w] # "idle" /\ Early(st'[w], pc'[w])
      BY <1>1, NodesLawful, EarlyStep DEF EarlyInv, Points, Nodes
    <2> QED
      BY <1>1, <2>1, NodesLawful DEF EarlyInv, Saved
  <1>2. ASSUME NEW w \in Turns, Drops(w) PROVE EarlyInv'
    BY <1>2, DropFrame DEF EarlyInv, Saved
  <1>3. ASSUME NEW w \in Turns, Save(w) PROVE EarlyInv'
    <2>1. Early(st[w], "SAVE")
      BY <1>3, SaveFrame DEF EarlyInv
    <2> QED
      BY <1>3, <2>1, SaveFrame DEF EarlyInv, Saved
  <1>4. ASSUME NEW w \in Turns, NEW s \in Sessions, Receive(w, s) PROVE EarlyInv'
    <2>1. Early(st'[w], pc'[w])
      <3>1. CASE s \in Saved
        BY <1>4, <3>1, ReceiveFrame DEF EarlyInv, Early, Where
      <3>2. CASE s \notin Saved
        BY <1>4, <3>2, ReceiveFrame DEF Early, FreshSession
      <3> QED
        BY <3>1, <3>2
    <2> QED
      BY <1>4, <2>1, ReceiveFrame DEF EarlyInv, Saved
  <1>5. ASSUME NEW s \in Sessions, Expire(s) PROVE EarlyInv'
    BY <1>5, ExpireFrame DEF EarlyInv, Saved
  <1>6. CASE UNCHANGED vars \/ \E w \in Turns : TurnAway(w)
    BY <1>6 DEF vars, TurnAway, EarlyInv, Saved
  <1> QED
    BY <1>1, <1>2, <1>3, <1>4, <1>5, <1>6, NextCases

\* The invariant that all of what follows rests on.
Grounds == IInv /\ EarlyInv

LEMMA Grounded == Spec => []Grounds
  <1>1. Init => EarlyInv
    BY DEF Init, EarlyInv, Saved
  <1> QED
    BY <1>1, InitIInv, NextIInv, EarlyNext, PTL DEF Spec, Grounds

-----------------------------------------------------------------------------
(* Complaints: no assumption on what overlaps.                             *)

\* A copy of a complaint that passed complaint_flow_node without the flag of a
\* repeated complaint.
Marked(s, p) ==
    /\ s.order # NoOrder
    /\ s.intent = "complaint"
    /\ s.verdict # "none" \/ Where(s, p) = "VERIFICATION"

\* The session s has such a copy, identified with the address a.
HoldsMark(s, a) ==
    \/ s \in Saved /\ Marked(store[s], "SAVE") /\ store[s].order.email = a
    \/ \E w \in Turns : /\ pc[w] # "idle" /\ of[w] = s
                        /\ Marked(st[w], pc[w]) /\ st[w].order.email = a

\* All marked copies under one address are of one session, and the complaint
\* that marked them is on record.
MarkInv ==
    /\ \A s \in Sessions, a \in Addresses : HoldsMark(s, a) => complaints[a] > 0
    /\ \A s, t \in Sessions, a \in Addresses :
          HoldsMark(s, a) /\ HoldsMark(t, a) => s = t

\* No other call marks a copy.
LEMMA MarkKept ==
    ASSUME NEW a \in Session, NEW p \in Points \ {"SAVE", "RECORD_COMPLAINT"},
           NEW b, NEW q,
           SoundAt(a, p), Early(a, p), Lawful(a, p, b, q), Marked(b, q)
    PROVE  Marked(a, p) /\ a.order = b.order
  <1> DEFINE n == Where(b, q)
  <1>1. n \in After(p) /\ Progresses(a, p, b, n)
    BY DEF Lawful, Progresses
  <1> HIDE DEF n
  <1>2. p = "QUALIFICATION" => b.verdict = "none" /\ n # "VERIFICATION"
    BY <1>1 DEF Progresses, Early, Where, Talking, After
  <1>3. p # "QUALIFICATION" /\ a.intent = "complaint"
    BY <1>1, <1>2 DEF Marked, Progresses, n
  <1>4. n # "VERIFICATION"
    <2>1. n = "VERIFICATION" => p \in {"RETURN_FLOW", "RECORD_COMPLAINT"}
      BY <1>1 DEF After, Points, Nodes
    <2> QED
      BY <1>3, <2>1 DEF SoundAt
  <1>5. b.verdict # "none"
    BY <1>4 DEF Marked, n
  <1>6. p # "IDENTIFICATION"
    BY <1>1, <1>5 DEF Progresses, Early, Where, Talking
  <1> QED
    BY <1>1, <1>3, <1>5, <1>6 DEF Marked, Progresses, Where

\* record_complaint marks a copy only if no complaint under its address was on
\* record, and leaves one.
LEMMA RecordMarks ==
    ASSUME Grounds, NEW w \in Turns, RecordComplaint(w), Marked(st'[w], pc'[w])
    PROVE  /\ complaints[st[w].order.email] = 0
           /\ complaints'[st[w].order.email] > 0
           /\ st[w].order.email \in Addresses /\ st'[w].order = st[w].order
  <1> DEFINE c == st[w].order.email
             e == Escalated(st[w], "repeated_complaint")
             t == [st[w] EXCEPT !.vague = FALSE]
  <1>1. /\ pc[w] = "RECORD_COMPLAINT" /\ st[w] \in Session
        /\ st[w].verdict = "none" /\ c \in Addresses /\ complaints[c] \in Nat
    <2>1. /\ pc[w] = "RECORD_COMPLAINT" /\ st[w] \in Session
          /\ st[w].verdict = "none" /\ st[w].order # NoOrder
      BY DEF RecordComplaint, Grounds, IInv, TypeOK, SoundInv, Sound, SoundAt,
             Serving, EarlyInv, Early, Where, Talking
    <2>2. c \in Addresses
      BY <2>1 DEF Session, Orders
    <2> QED
      BY <2>1, <2>2 DEF Grounds, IInv, TypeOK
  <1>2. PICK k \in Runs(TRUE) :
           /\ complaints' = [complaints EXCEPT ![c] = @ + k]
           /\ \E earlier \in 0..(k - 1) :
                 LET s == IF complaints[c] + earlier > 0 THEN e ELSE t
                 IN  Advance(w, s, RouteAfterComplaintFlow(s))
    BY DEF RecordComplaint
  <1>3. PICK earlier \in 0..(k - 1) :
           LET s == IF complaints[c] + earlier > 0 THEN e ELSE t
           IN  Advance(w, s, RouteAfterComplaintFlow(s))
    BY <1>2
  <1>4. k \in Nat /\ k > 0
    BY TurnAssumption DEF Runs
  <1>5. complaints'[c] = complaints[c] + k
    BY <1>1, <1>2 DEF Grounds, IInv, TypeOK
  <1>8. st'[w].order = st[w].order
    <2>1. Computes(w)
      BY DEF Computes
    <2> QED
      BY <1>1, <2>1, NodesLawful DEF Grounds, Lawful, Progresses
  <1>6. CASE complaints[c] + earlier > 0
    <2>1. e \in Session /\ e.escalated /\ Alike(st[w], e)
      BY <1>1, EscalatedAlike DEF EscalationReasons
    <2> HIDE DEF e
    <2>2. Advance(w, e, "ESCALATION")
      BY <1>3, <1>6, <2>1 DEF RouteAfterComplaintFlow
    <2>3. st'[w] = [e EXCEPT !.node = "ESCALATION"] /\ pc'[w] = "ESCALATION"
      BY <2>2 DEF Grounds, IInv, TypeOK, Advance, Move, RequiresFreshInput
    <2>4. st'[w].verdict = "none"
      BY <1>1, <2>1, <2>3 DEF Session, Alike
    <2> QED
      BY <2>3, <2>4 DEF Marked, Where
  <1>7. CASE ~(complaints[c] + earlier > 0)
    <2>1. earlier \in Nat
      BY <1>4
    <2>2. complaints[c] = 0
      BY <1>1, <1>7, <2>1
    <2>3. complaints'[c] > 0
      BY <1>4, <1>5, <2>2
    <2> QED
      BY <1>1, <1>8, <2>2, <2>3
  <1> QED
    BY <1>6, <1>7

\* A step after which no session is marked that was not.
LEMMA MarkInherited ==
    ASSUME Grounds, MarkInv, CountersGrow,
           \A s \in Sessions, a \in Addresses : HoldsMark(s, a)' => HoldsMark(s, a)
    PROVE  MarkInv'
  BY TurnAssumption DEF Grounds, IInv, TypeOK, MarkInv, CountersGrow, Grows

LEMMA MarkNext == Grounds /\ MarkInv /\ [Next]_vars => MarkInv'
  <1> SUFFICES ASSUME Grounds, MarkInv, [Next]_vars PROVE MarkInv'
    OBVIOUS
  <1>1. IInv /\ EarlyInv /\ CountersGrow
    BY CountersNext DEF Grounds
  <1>2. ASSUME NEW w \in Turns, Computes(w),
               Marked(st'[w], pc'[w]) =>
                   Marked(st[w], pc[w]) /\ st[w].order = st'[w].order
        PROVE  MarkInv'
    <2>1. \A s \in Sessions, a \in Addresses : HoldsMark(s, a)' => HoldsMark(s, a)
      BY <1>1, <1>2, NodesLawful DEF HoldsMark, Saved, Points, Nodes
    <2> QED
      BY <1>1, <2>1, MarkInherited
  <1>3. ASSUME NEW w \in Turns, Computes(w), ~RecordComplaint(w)
        PROVE  Marked(st'[w], pc'[w]) =>
                   Marked(st[w], pc[w]) /\ st[w].order = st'[w].order
    <2>1. pc[w] # "RECORD_COMPLAINT"
      BY <1>3 DEF Computes, Greet, HoldIdentification, Identify, FailIdentification,
       IdentificationUnavailable, Qualify, AskIntent, CollectReturn,
       AskDescription, CollectComplaint, Verify,
       VerificationUnavailable, Decide, CreateReturnLabel, FailReturnLabel,
       TriggerRefund, FailRefund, CreateTicket, FailTicket, Notify, Confirm,
       ConfirmRefusal
    <2>2. Early(st[w], pc[w])
      BY <1>1, <1>3, NodesLawful DEF EarlyInv, Points, Nodes
    <2> QED
      BY <1>1, <1>3, <2>1, <2>2, NodesLawful, MarkKept
  <1>4. ASSUME NEW w \in Turns, RecordComplaint(w), Marked(st'[w], pc'[w])
        PROVE  MarkInv'
    <2> DEFINE c == st[w].order.email
    <2>1. Computes(w)
      BY <1>4 DEF Computes
    <2>2. /\ complaints[c] = 0 /\ complaints'[c] > 0
          /\ c \in Addresses /\ st'[w].order = st[w].order
      BY <1>4, RecordMarks
    <2>3. of[w] \in Sessions
      BY <1>1, <2>1, NodesLawful
    <2>4. \A s \in Sessions : ~HoldsMark(s, c)
      BY <2>2 DEF MarkInv
    <2>5. \A s \in Sessions, a \in Addresses :
             s # of[w] \/ a # c => (HoldsMark(s, a)' => HoldsMark(s, a))
      BY <1>1, <2>1, <2>2, NodesLawful DEF HoldsMark, Saved
    <2>6. \A s \in Sessions, a \in Addresses : HoldsMark(s, a)' => complaints'[a] > 0
      BY <1>1, <2>2, <2>5 DEF MarkInv, CountersGrow, Grows, IInv, TypeOK
    <2> HIDE DEF c
    <2> QED
      BY <2>3, <2>4, <2>5, <2>6 DEF MarkInv
  <1>5. ASSUME NEW w \in Turns, Drops(w) PROVE MarkInv'
    <2>1. \A s \in Sessions, a \in Addresses : HoldsMark(s, a)' => HoldsMark(s, a)
      BY <1>1, <1>5, DropFrame DEF HoldsMark, Saved
    <2> QED
      BY <1>1, <2>1, MarkInherited
  <1>6. ASSUME NEW w \in Turns, Save(w) PROVE MarkInv'
    <2>1. \A s \in Sessions, a \in Addresses : HoldsMark(s, a)' => HoldsMark(s, a)
      BY <1>1, <1>6, SaveFrame DEF HoldsMark, Saved
    <2> QED
      BY <1>1, <2>1, MarkInherited
  <1>7. ASSUME NEW w \in Turns, NEW x \in Sessions, Receive(w, x) PROVE MarkInv'
    <2>1. Marked(st'[w], pc'[w]) => x \in Saved /\ Marked(store[x], "SAVE")
      <3>1. CASE x \in Saved
        BY <1>1, <1>7, <3>1, ReceiveFrame DEF Marked, Where
      <3>2. CASE x \notin Saved
        BY <1>1, <1>7, <3>2, ReceiveFrame DEF Marked, FreshSession
      <3> QED
        BY <3>1, <3>2
    <2>2. \A s \in Sessions, a \in Addresses : HoldsMark(s, a)' => HoldsMark(s, a)
      BY <1>1, <1>7, <2>1, ReceiveFrame DEF HoldsMark, Saved
    <2> QED
      BY <1>1, <2>2, MarkInherited
  <1>8. ASSUME NEW x \in Sessions, Expire(x) PROVE MarkInv'
    <2>1. \A s \in Sessions, a \in Addresses : HoldsMark(s, a)' => HoldsMark(s, a)
      BY <1>1, <1>8, ExpireFrame DEF HoldsMark, Saved
    <2> QED
      BY <1>1, <2>1, MarkInherited
  <1>9. CASE UNCHANGED vars \/ \E w \in Turns : TurnAway(w)
    <2>1. \A s \in Sessions, a \in Addresses : HoldsMark(s, a)' => HoldsMark(s, a)
      BY <1>9 DEF vars, TurnAway, HoldsMark, Saved
    <2> QED
      BY <1>1, <2>1, MarkInherited
  <1> QED
    BY <1>2, <1>3, <1>4, <1>5, <1>6, <1>7, <1>8, <1>9, NextCases

\* Of the complaints made under one address, on the Web and by email at once,
\* through however many overlapping, retried or dropped turns, at most one is
\* decided without a human being told that it is not the first
\* (complaint_flow_node).
THEOREM AtMostOneUnflaggedComplaint == Spec => []OneUnflaggedComplaint
  <1>1. Init => MarkInv
    BY DEF Init, MarkInv, HoldsMark, Saved
  <1>2. Grounds /\ MarkInv => OneUnflaggedComplaint
    <2> SUFFICES ASSUME Grounds, MarkInv, NEW s \in Saved, NEW t \in Saved,
                        Unflagged(s), Unflagged(t),
                        store[s].order.email = store[t].order.email
                 PROVE  s = t
      BY DEF OneUnflaggedComplaint
    <2>1. s \in Sessions /\ t \in Sessions /\ store[s] \in Session
      BY DEF Saved, Grounds, IInv, TypeOK
    <2> DEFINE a == store[s].order.email
    <2>2. a \in Addresses
      BY <2>1 DEF Unflagged, Session, Orders
    <2>3. HoldsMark(s, a) /\ HoldsMark(t, a)
      BY DEF HoldsMark, Marked, Unflagged
    <2> QED
      BY <2>1, <2>2, <2>3 DEF MarkInv
  <1> QED
    BY <1>1, <1>2, MarkNext, Grounded, PTL DEF Spec

-----------------------------------------------------------------------------
(* What holds as long as the turns of one session do not overlap.          *)

NoOverlap ==
    \A v, w \in Turns :
        pc[v] # "idle" /\ pc[w] # "idle" /\ of[v] = of[w] => v = w

\* A single turn at a time, as in the runs that check these properties.
LEMMA OneTurn == (\A v, w \in Turns : v = w) => NoOverlap
  BY DEF NoOverlap

\* b has got at least as far as a.
Follows(a, b) ==
    /\ a.order # NoOrder => b.order = a.order
    /\ a.settled => b.settled
    /\ a.escalated => b.escalated
    /\ a.decision # "none" => b.decision = a.decision
    /\ b.attempts >= a.attempts
    /\ b.reform >= a.reform

\* A turn that was given a closed session a only confirms it again.
KeptClosed(a, b, q) ==
    a.node = "CONFIRMATION" =>
        /\ Where(b, q) = "CONFIRMATION"
        /\ b.escalated = a.escalated /\ b.intent = a.intent
        /\ b.decision = a.decision /\ b.settled = a.settled

\* The copy of a turn has got at least as far as the saved session.
FollowInv ==
    \A w \in Turns : pc[w] # "idle" /\ of[w] \in Saved =>
        /\ Follows(store[of[w]], st[w])
        /\ KeptClosed(store[of[w]], st[w], pc[w])

LEMMA FollowsStep ==
    ASSUME NEW f \in Session, NEW a \in Session, NEW p \in Points \ {"SAVE"},
           NEW b \in Session, NEW q,
           Early(a, p), Lawful(a, p, b, q), Follows(f, a), KeptClosed(f, a, p)
    PROVE  Follows(f, b) /\ KeptClosed(f, b, q)
  <1> DEFINE n == Where(b, q)
  <1>1. n \in After(p) /\ Progresses(a, p, b, n)
    BY DEF Lawful, Progresses
  <1>2. /\ f.attempts \in Nat /\ a.attempts \in Nat /\ b.attempts \in Nat
        /\ f.reform \in Nat /\ a.reform \in Nat /\ b.reform \in Nat
    BY DEF Session
  <1> HIDE DEF n
  <1>3. p = "DECISION" => a.decision = "none"
    BY DEF Early, Where
  <1>4. Follows(f, b)
    BY <1>1, <1>2, <1>3 DEF Follows, Progresses
  <1>5. KeptClosed(f, b, q)
    <2>1. f.node = "CONFIRMATION" => p = "CONFIRMATION"
      BY DEF KeptClosed, Where
    <2>2. p = "CONFIRMATION" => n = "CONFIRMATION"
      BY <1>1 DEF After
    <2>3. a.escalated \in BOOLEAN /\ b.escalated \in BOOLEAN /\ f.escalated \in BOOLEAN
      BY DEF Session
    <2> QED
      BY <1>1, <2>1, <2>2, <2>3 DEF KeptClosed, Progresses, n
  <1> QED
    BY <1>4, <1>5

LEMMA FollowNext == Grounds /\ NoOverlap /\ FollowInv /\ [Next]_vars => FollowInv'
  <1> SUFFICES ASSUME Grounds, NoOverlap, FollowInv, [Next]_vars PROVE FollowInv'
    OBVIOUS
  <1>1. /\ IInv /\ EarlyInv
        /\ \A s \in Saved : s \in Sessions /\ store[s] \in Session
    BY DEF Grounds, IInv, TypeOK, Saved
  <1>2. ASSUME NEW w \in Turns, Computes(w) PROVE FollowInv'
    <2>1. ASSUME of[w] \in Saved
          PROVE  /\ Follows(store[of[w]], st'[w])
                 /\ KeptClosed(store[of[w]], st'[w], pc'[w])
      <3>1. pc[w] # "idle" /\ pc[w] \in Points \ {"SAVE"} /\ Early(st[w], pc[w])
        BY <1>1, <1>2, NodesLawful DEF EarlyInv, Points, Nodes
      <3>2. /\ Follows(store[of[w]], st[w])
            /\ KeptClosed(store[of[w]], st[w], pc[w])
        BY <2>1, <3>1 DEF FollowInv
      <3> QED
        BY <1>1, <1>2, <2>1, <3>1, <3>2, NodesLawful, FollowsStep
    <2> QED
      BY <1>1, <1>2, <2>1, NodesLawful DEF FollowInv, Saved
  <1>3. ASSUME NEW w \in Turns, Drops(w) PROVE FollowInv'
    BY <1>1, <1>3, DropFrame DEF FollowInv, Saved
  <1>4. ASSUME NEW w \in Turns, Save(w) PROVE FollowInv'
    <2>1. \A v \in Turns : v # w /\ pc[v] # "idle" => of[v] # of[w]
      BY <1>1, <1>4, SaveFrame DEF NoOverlap
    <2> QED
      BY <1>1, <1>4, <2>1, SaveFrame DEF FollowInv, Saved
  <1>5. ASSUME NEW w \in Turns, NEW s \in Sessions, Receive(w, s) PROVE FollowInv'
    <2>1. ASSUME s \in Saved
          PROVE  /\ Follows(store[s], st'[w])
                 /\ KeptClosed(store[s], st'[w], pc'[w])
      <3>1. /\ store[s] \in Session /\ st'[w] = store[s]
            /\ pc'[w] = store[s].node /\ pc'[w] # "SAVE"
        BY <1>1, <1>5, <2>1, ReceiveFrame
      <3>2. store[s].attempts \in Nat /\ store[s].reform \in Nat
        BY <3>1 DEF Session
      <3> QED
        BY <3>1, <3>2 DEF Follows, KeptClosed, Where
    <2> QED
      BY <1>1, <1>5, <2>1, ReceiveFrame DEF FollowInv, Saved
  <1>6. ASSUME NEW s \in Sessions, Expire(s) PROVE FollowInv'
    BY <1>1, <1>6, ExpireFrame DEF FollowInv, Saved
  <1>7. CASE UNCHANGED vars \/ \E w \in Turns : TurnAway(w)
    BY <1>7 DEF vars, TurnAway, FollowInv, Saved
  <1> QED
    BY <1>2, <1>3, <1>4, <1>5, <1>6, <1>7, NextCases

LEMMA Following == Spec /\ []NoOverlap => []FollowInv
  <1>1. Init => FollowInv
    BY DEF Init, FollowInv
  <1> QED
    BY <1>1, Grounded, FollowNext, PTL DEF Spec

\* A saved session is only ever replaced by one that has got at least as far.
LEMMA SavesFollow ==
    ASSUME Grounds, FollowInv, [Next]_vars, NEW s \in Saved, store'[s] # NoSession
    PROVE  Follows(store[s], store'[s])
  <1>1. /\ IInv /\ s \in Sessions /\ store[s] \in Session
    BY DEF Grounds, IInv, TypeOK, Saved
  <1>2. Follows(store[s], store[s])
    <2>1. store[s].attempts \in Nat /\ store[s].reform \in Nat
      BY <1>1 DEF Session
    <2> QED
      BY <2>1 DEF Follows
  <1>3. ASSUME NEW w \in Turns, Computes(w) PROVE Follows(store[s], store'[s])
    BY <1>1, <1>2, <1>3, NodesLawful
  <1>4. ASSUME NEW w \in Turns, Drops(w) PROVE Follows(store[s], store'[s])
    BY <1>1, <1>2, <1>4, DropFrame
  <1>5. ASSUME NEW w \in Turns, Save(w) PROVE Follows(store[s], store'[s])
    BY <1>1, <1>2, <1>5, SaveFrame DEF FollowInv
  <1>6. ASSUME NEW w \in Turns, NEW x \in Sessions, Receive(w, x)
        PROVE  Follows(store[s], store'[s])
    BY <1>1, <1>2, <1>6, ReceiveFrame
  <1>7. ASSUME NEW x \in Sessions, Expire(x) PROVE Follows(store[s], store'[s])
    BY <1>1, <1>2, <1>7, ExpireFrame
  <1>8. CASE UNCHANGED vars \/ \E w \in Turns : TurnAway(w)
    BY <1>2, <1>8 DEF vars, TurnAway
  <1> QED
    BY <1>3, <1>4, <1>5, <1>6, <1>7, <1>8, NextCases

\* FR-009: an escalated session stays escalated until it expires, as long as
\* its turns do not overlap (save_session, escalation_node).
THEOREM EscalationStaysFinal == Spec /\ []NoOverlap => EscalationIsFinal
  <1>1. Grounds /\ FollowInv /\ [Next]_vars =>
           [\A s \in Saved :
               store[s].escalated /\ store'[s] # NoSession => store'[s].escalated]_vars
    BY SavesFollow DEF Follows
  <1> QED
    BY <1>1, Grounded, Following, PTL DEF Spec, EscalationIsFinal

\* Identification, decision, refund and the two counters are not undone by a
\* later message, as long as the turns of a session do not overlap.
THEOREM ProgressAlwaysKept == Spec /\ []NoOverlap => ProgressIsKept
  <1>1. Grounds /\ FollowInv /\ [Next]_vars =>
           [\A s \in Saved :
               store'[s] # NoSession =>
                   /\ store[s].order # NoOrder => store'[s].order = store[s].order
                   /\ store[s].settled => store'[s].settled
                   /\ store[s].decision # "none" =>
                         store'[s].decision = store[s].decision
                   /\ store'[s].attempts >= store[s].attempts
                   /\ store'[s].reform >= store[s].reform]_vars
    BY SavesFollow DEF Follows
  <1> QED
    BY <1>1, Grounded, Following, PTL DEF Spec, ProgressIsKept

-----------------------------------------------------------------------------
(* Repetition.                                                             *)

\* The session knows that it has acted: the saved copy does, or that of the
\* running turn.  A turn that stands before AUTO_ACTION has yet to.
HasActed(s) ==
    \/ s \in Saved /\ store[s].decision = "auto"
    \/ \E w \in Turns : /\ pc[w] \notin {"idle", "AUTO_ACTION"} /\ of[w] = s
                        /\ st[w].decision = "auto"

HasOpened(s) ==
    \/ s \in Saved /\ store[s].escalated
    \/ \E w \in Turns : /\ pc[w] \notin {"idle", "ESCALATION"} /\ of[w] = s
                        /\ st[w].escalated

\* One repetition is free while the session does not know of the first.
PaidInv ==
    \A s \in Sessions :
        /\ acted[s] <= lost[s] + expired[s] + (IF HasActed(s) THEN 1 ELSE 0)
        /\ opened[s] <= lost[s] + expired[s] + (IF HasOpened(s) THEN 1 ELSE 0)

\* What a step may do to a count n of a session, given that the session knew of
\* it before and knows of it then: keep both, forget at the price of a turn or
\* of the session, or count the first one it knows of.
Pays(n, n1, before, then, price, price1) ==
    \/ n1 = n /\ (before => then)
    \/ n1 = n /\ price1 > price
    \/ n1 = n + 1 /\ ~before /\ then

AllPay ==
    \A s \in Sessions :
        /\ Pays(acted[s], acted'[s], HasActed(s), HasActed(s)',
                lost[s] + expired[s], lost'[s] + expired'[s])
        /\ Pays(opened[s], opened'[s], HasOpened(s), HasOpened(s)',
                lost[s] + expired[s], lost'[s] + expired'[s])

LEMMA PaidKept ==
    ASSUME IInv, CountersGrow, PaidInv, AllPay
    PROVE  PaidInv'
  <1> SUFFICES ASSUME NEW s \in Sessions
               PROVE  /\ acted'[s] <= lost'[s] + expired'[s]
                                         + (IF HasActed(s)' THEN 1 ELSE 0)
                      /\ opened'[s] <= lost'[s] + expired'[s]
                                         + (IF HasOpened(s)' THEN 1 ELSE 0)
    BY DEF PaidInv
  <1>1. /\ acted[s] \in Nat /\ acted'[s] \in Nat
        /\ opened[s] \in Nat /\ opened'[s] \in Nat
        /\ lost[s] \in Nat /\ lost'[s] \in Nat /\ lost'[s] >= lost[s]
        /\ expired[s] \in Nat /\ expired'[s] \in Nat /\ expired'[s] >= expired[s]
    BY DEF IInv, TypeOK, CountersGrow, Grows
  <1>2. acted'[s] <= lost'[s] + expired'[s] + (IF HasActed(s)' THEN 1 ELSE 0)
    BY <1>1 DEF PaidInv, AllPay, Pays
  <1>3. opened'[s] <= lost'[s] + expired'[s] + (IF HasOpened(s)' THEN 1 ELSE 0)
    BY <1>1 DEF PaidInv, AllPay, Pays
  <1> QED
    BY <1>2, <1>3

\* Only the first call of AUTO_ACTION and of ESCALATION counts.
LEMMA NodesCount ==
    ASSUME IInv, NEW w \in Turns, Computes(w)
    PROVE  /\ acted' = IF pc[w] = "AUTO_ACTION"
                       THEN [acted EXCEPT ![of[w]] = @ + 1] ELSE acted
           /\ opened' = IF pc[w] = "ESCALATION"
                        THEN [opened EXCEPT ![of[w]] = @ + 1] ELSE opened
  <1>1. CASE CreateReturnLabel(w) \/ FailReturnLabel(w)
    BY <1>1 DEF CreateReturnLabel, FailReturnLabel, Once
  <1>2. CASE CreateTicket(w) \/ FailTicket(w)
    BY <1>2 DEF CreateTicket, FailTicket, Once
  <1>3. CASE ~(CreateReturnLabel(w) \/ FailReturnLabel(w)
               \/ CreateTicket(w) \/ FailTicket(w))
    BY <1>3
    DEF Computes, Greet, HoldIdentification, Identify, FailIdentification,
        IdentificationUnavailable, Qualify, AskIntent, CollectReturn,
        AskDescription, CollectComplaint, RecordComplaint, Verify,
        VerificationUnavailable, Decide, TriggerRefund, FailRefund, Notify,
        Confirm, ConfirmRefusal, Quiet, history
  <1> QED
    BY <1>1, <1>2, <1>3

\* What a saved session has decided or escalated, it has closed.
LEMMA SavedClosed ==
    ASSUME Grounds, NEW s \in Saved, store[s].decision = "auto" \/ store[s].escalated
    PROVE  store[s].node = "CONFIRMATION"
  <1> DEFINE c == store[s]
  <1>1. c.node \in Resumable /\ SoundAt(c, c.node) /\ Early(c, "SAVE")
    BY DEF Grounds, IInv, SoundInv, EarlyInv, Sound, Where
  <1> QED
    BY <1>1 DEF Resumable, RequiresFreshInput, SoundAt, Serving, Early, Where, Talking

\* A turn at AUTO_ACTION or ESCALATION is the only one of its session, which
\* does not know yet of what the turn is about to do.
LEMMA NotYet ==
    ASSUME Grounds, NoOverlap, FollowInv, NEW w \in Turns
    PROVE  \A s \in Sessions : s = of[w] =>
              /\ pc[w] = "AUTO_ACTION" => ~HasActed(s)
              /\ pc[w] = "ESCALATION" => ~HasOpened(s)
  <1> SUFFICES ASSUME NEW s \in Sessions, s = of[w],
                      pc[w] \in {"AUTO_ACTION", "ESCALATION"}
               PROVE  /\ pc[w] = "AUTO_ACTION" => ~HasActed(s)
                      /\ pc[w] = "ESCALATION" => ~HasOpened(s)
    OBVIOUS
  <1>1. \A v \in Turns : pc[v] # "idle" /\ of[v] = s => v = w
    BY DEF NoOverlap
  <1>2. s \in Saved => store[s].node # "CONFIRMATION"
    BY DEF FollowInv, KeptClosed, Where
  <1> QED
    BY <1>1, <1>2, SavedClosed DEF HasActed, HasOpened

LEMMA NodesKnow ==
    ASSUME NEW a \in Session, NEW p \in Points \ {"SAVE"}, NEW b, NEW q,
           SoundAt(a, p), Early(a, p), Lawful(a, p, b, q)
    PROVE  /\ a.decision = "auto" => b.decision = "auto" /\ q # "AUTO_ACTION"
           /\ a.escalated /\ p # "ESCALATION" => b.escalated /\ q # "ESCALATION"
           /\ p = "AUTO_ACTION" => a.decision = "auto"
           /\ p = "ESCALATION" => a.escalated /\ b.escalated /\ q # "ESCALATION"
  <1> DEFINE n == Where(b, q)
  <1>1. n \in After(p) /\ Progresses(a, p, b, n)
    BY DEF Lawful, Progresses
  <1>2. /\ q = "AUTO_ACTION" => n = "AUTO_ACTION"
        /\ q = "ESCALATION" => n = "ESCALATION"
    BY DEF Where
  <1> HIDE DEF n
  <1>3. n = "AUTO_ACTION" => p = "DECISION"
    BY <1>1 DEF After, Points, Nodes
  <1>4. n = "ESCALATION" => p \in Serving \union {"IDENTIFICATION"}
    BY <1>1 DEF After, Points, Nodes, Serving
  <1>5. p = "DECISION" => a.decision = "none"
    BY DEF Early, Where
  <1>6. p \in Serving \union {"IDENTIFICATION"} => ~a.escalated
    BY DEF SoundAt
  <1>7. /\ p = "AUTO_ACTION" => a.decision = "auto"
        /\ p = "ESCALATION" => a.escalated
    BY DEF SoundAt, Acting
  <1> QED
    BY <1>1, <1>2, <1>3, <1>4, <1>5, <1>6, <1>7 DEF Progresses

LEMMA NodesPay ==
    ASSUME Grounds, NoOverlap, FollowInv, NEW w \in Turns, Computes(w)
    PROVE  AllPay
  <1>1. /\ IInv /\ pc[w] \in Points \ {"SAVE"} /\ pc[w] # "idle"
        /\ of[w] \in Sessions /\ pc'[w] # "idle"
    BY NodesLawful DEF Grounds, Points, Nodes
  <1>2. Early(st[w], pc[w])
    BY <1>1 DEF Grounds, EarlyInv
  <1> DEFINE a == st[w] p == pc[w] b == st'[w] q == pc'[w]
  <1>3. /\ a.decision = "auto" => b.decision = "auto" /\ q # "AUTO_ACTION"
        /\ a.escalated /\ p # "ESCALATION" => b.escalated /\ q # "ESCALATION"
        /\ p = "AUTO_ACTION" => a.decision = "auto"
        /\ p = "ESCALATION" => a.escalated /\ b.escalated /\ q # "ESCALATION"
    BY <1>1, <1>2, NodesLawful, NodesKnow
  <1>4. \A s \in Sessions : (HasActed(s) => HasActed(s)')
                            /\ (HasOpened(s) => HasOpened(s)')
    BY <1>1, <1>3, NodesLawful DEF HasActed, HasOpened, Saved
  <1>5. \A s \in Sessions : s = of[w] =>
           /\ p = "AUTO_ACTION" => ~HasActed(s) /\ HasActed(s)'
           /\ p = "ESCALATION" => ~HasOpened(s) /\ HasOpened(s)'
    <2> SUFFICES ASSUME NEW s \in Sessions, s = of[w]
                 PROVE  /\ p = "AUTO_ACTION" => ~HasActed(s) /\ HasActed(s)'
                        /\ p = "ESCALATION" => ~HasOpened(s) /\ HasOpened(s)'
      OBVIOUS
    <2>1. of'[w] = s
      BY <1>1, NodesLawful
    <2>2. p = "AUTO_ACTION" => HasActed(s)'
      BY <1>1, <1>3, <2>1 DEF HasActed
    <2>3. p = "ESCALATION" => HasOpened(s)'
      BY <1>1, <1>3, <2>1 DEF HasOpened
    <2> QED
      BY <2>2, <2>3, NotYet
  <1> SUFFICES ASSUME NEW s \in Sessions
               PROVE  /\ Pays(acted[s], acted'[s], HasActed(s), HasActed(s)',
                              lost[s] + expired[s], lost'[s] + expired'[s])
                      /\ Pays(opened[s], opened'[s], HasOpened(s), HasOpened(s)',
                              lost[s] + expired[s], lost'[s] + expired'[s])
    BY DEF AllPay
  <1>6. Pays(acted[s], acted'[s], HasActed(s), HasActed(s)',
             lost[s] + expired[s], lost'[s] + expired'[s])
    <2>1. CASE p = "AUTO_ACTION" /\ s = of[w]
      <3>1. acted'[s] = acted[s] + 1
        BY <1>1, <2>1, NodesCount DEF IInv, TypeOK
      <3> QED
        BY <1>5, <2>1, <3>1 DEF Pays
    <2>2. CASE ~(p = "AUTO_ACTION" /\ s = of[w])
      <3>1. acted'[s] = acted[s]
        BY <1>1, <2>2, NodesCount DEF IInv, TypeOK
      <3> QED
        BY <1>4, <3>1 DEF Pays
    <2> QED
      BY <2>1, <2>2
  <1>7. Pays(opened[s], opened'[s], HasOpened(s), HasOpened(s)',
             lost[s] + expired[s], lost'[s] + expired'[s])
    <2>1. CASE p = "ESCALATION" /\ s = of[w]
      <3>1. opened'[s] = opened[s] + 1
        BY <1>1, <2>1, NodesCount DEF IInv, TypeOK
      <3> QED
        BY <1>5, <2>1, <3>1 DEF Pays
    <2>2. CASE ~(p = "ESCALATION" /\ s = of[w])
      <3>1. opened'[s] = opened[s]
        BY <1>1, <2>2, NodesCount DEF IInv, TypeOK
      <3> QED
        BY <1>4, <3>1 DEF Pays
    <2> QED
      BY <2>1, <2>2
  <1> QED
    BY <1>6, <1>7

\* Any other step: it counts nothing, and forgets only what it pays for.
LEMMA OthersPay ==
    ASSUME UNCHANGED <<acted, opened>>,
           \A s \in Sessions :
              \/ (HasActed(s) => HasActed(s)') /\ (HasOpened(s) => HasOpened(s)')
              \/ lost'[s] + expired'[s] > lost[s] + expired[s]
    PROVE  AllPay
  BY DEF AllPay, Pays

LEMMA PaidNext ==
    Grounds /\ NoOverlap /\ FollowInv /\ PaidInv /\ [Next]_vars => PaidInv'
  <1> SUFFICES ASSUME Grounds, NoOverlap, FollowInv, PaidInv, [Next]_vars
               PROVE  PaidInv'
    OBVIOUS
  <1>1. IInv /\ CountersGrow
    BY CountersNext DEF Grounds
  <1>2. \A s \in Sessions : lost[s] \in Nat /\ expired[s] \in Nat
    BY <1>1 DEF IInv, TypeOK
  <1>3. ASSUME NEW w \in Turns, Computes(w) PROVE AllPay
    BY <1>3, NodesPay
  <1>4. ASSUME NEW w \in Turns, Drops(w) PROVE AllPay
    <2>1. /\ of[w] \in Sessions
          /\ lost'[of[w]] + expired'[of[w]] > lost[of[w]] + expired[of[w]]
      <3>1. lost'[of[w]] = lost[of[w]] + 1 /\ expired' = expired /\ of[w] \in Sessions
        BY <1>1, <1>4, DropFrame DEF IInv, TypeOK
      <3> QED
        BY <1>2, <3>1
    <2>2. \A s \in Sessions : s # of[w] =>
             (HasActed(s) => HasActed(s)') /\ (HasOpened(s) => HasOpened(s)')
      BY <1>1, <1>4, DropFrame DEF HasActed, HasOpened, Saved
    <2>3. UNCHANGED <<acted, opened>>
      BY <1>1, <1>4, DropFrame
    <2> QED
      BY <2>1, <2>2, <2>3, OthersPay
  <1>5. ASSUME NEW w \in Turns, Save(w) PROVE AllPay
    <2> PICK x \in Sessions : x = of[w]
      BY <1>1, <1>5, SaveFrame
    <2>1. /\ store'[x] = st[w] /\ st[w] \in Session
          /\ pc[w] = "SAVE" /\ store'[x] # NoSession
      BY <1>1, <1>5, SaveFrame, SessionAssumption DEF Saved
    <2>2. x \in Saved => Follows(store[x], st[w])
      BY <2>1 DEF FollowInv
    <2>3. \A v \in Turns : pc[v] # "idle" /\ of[v] = x => v = w
      BY <2>1 DEF NoOverlap
    <2>4. HasActed(x) => HasActed(x)'
      BY <2>1, <2>2, <2>3 DEF HasActed, Follows, Saved
    <2>5. HasOpened(x) => HasOpened(x)'
      BY <2>1, <2>2, <2>3 DEF HasOpened, Follows, Saved
    <2>6. \A s \in Sessions : s # x =>
             (HasActed(s) => HasActed(s)') /\ (HasOpened(s) => HasOpened(s)')
      BY <1>1, <1>5, SaveFrame DEF HasActed, HasOpened, Saved
    <2>7. UNCHANGED <<acted, opened>>
      BY <1>1, <1>5, SaveFrame DEF history
    <2> QED
      BY <2>4, <2>5, <2>6, <2>7, OthersPay
  <1>6. ASSUME NEW w \in Turns, NEW x \in Sessions, Receive(w, x) PROVE AllPay
    <2>1. \A s \in Sessions :
             (HasActed(s) => HasActed(s)') /\ (HasOpened(s) => HasOpened(s)')
      BY <1>1, <1>6, ReceiveFrame DEF HasActed, HasOpened, Saved
    <2>2. UNCHANGED <<acted, opened>>
      BY <1>1, <1>6, ReceiveFrame DEF history
    <2> QED
      BY <2>1, <2>2, OthersPay
  <1>7. ASSUME NEW x \in Sessions, Expire(x) PROVE AllPay
    <2>1. lost'[x] + expired'[x] > lost[x] + expired[x]
      <3>1. expired'[x] = expired[x] + 1 /\ lost' = lost
        BY <1>1, <1>7, ExpireFrame DEF IInv, TypeOK
      <3> QED
        BY <1>2, <3>1
    <2>2. \A s \in Sessions : s # x =>
             (HasActed(s) => HasActed(s)') /\ (HasOpened(s) => HasOpened(s)')
      BY <1>1, <1>7, ExpireFrame DEF HasActed, HasOpened, Saved
    <2>3. UNCHANGED <<acted, opened>>
      BY <1>1, <1>7, ExpireFrame
    <2> QED
      BY <2>1, <2>2, <2>3, OthersPay
  <1>8. ASSUME UNCHANGED <<store, pc, of, st, history>> PROVE AllPay
    <2>1. \A s \in Sessions :
             (HasActed(s) => HasActed(s)') /\ (HasOpened(s) => HasOpened(s)')
      BY <1>8 DEF HasActed, HasOpened, Saved
    <2>2. UNCHANGED <<acted, opened>>
      BY <1>8 DEF history
    <2> QED
      BY <2>1, <2>2, OthersPay
  <1>9. ASSUME NEW w \in Turns, TurnAway(w) PROVE AllPay
    BY <1>8, <1>9 DEF TurnAway
  <1>10. ASSUME UNCHANGED vars PROVE AllPay
    BY <1>8, <1>10 DEF vars
  <1>11. AllPay
    BY <1>3, <1>4, <1>5, <1>6, <1>7, <1>9, <1>10, NextCases
  <1> QED
    BY <1>1, <1>11, PaidKept

\* Acting or escalating twice in one session is always paid for by a turn that
\* was dropped before save_session, or by an expiry, as long as the turns of a
\* session do not overlap (auto_action_node, escalation_node).
THEOREM RepetitionAlwaysPaid == Spec /\ []NoOverlap => []RepetitionNeedsLoss
  <1>1. Init => PaidInv
    BY DEF Init, PaidInv
  <1>2. Grounds /\ PaidInv => RepetitionNeedsLoss
    <2> SUFFICES ASSUME Grounds, PaidInv, NEW s \in Sessions
                 PROVE  /\ acted[s] <= 1 + lost[s] + expired[s]
                        /\ opened[s] <= 1 + lost[s] + expired[s]
      BY DEF RepetitionNeedsLoss
    <2>1. /\ acted[s] \in Nat /\ opened[s] \in Nat
          /\ lost[s] \in Nat /\ expired[s] \in Nat
      BY DEF Grounds, IInv, TypeOK
    <2> QED
      BY <2>1 DEF PaidInv
  <1> QED
    BY <1>1, <1>2, Grounded, Following, PaidNext, PTL DEF Spec

-----------------------------------------------------------------------------
(* The saved session is a case of Conversation.                            *)

StageIn(s) == IF store[s] = NoSession THEN "new" ELSE StageOf(store[s])
OutcomeIn(s) == IF store[s] = NoSession THEN "open" ELSE OutcomeOf(store[s])

\* A copy on its way to a human, or left with one.
HandedOff(b, q) ==
    \/ Where(b, q) \in {"ESCALATION", "NOTIFY"}
    \/ Where(b, q) = "CONFIRMATION" /\ b.escalated

\* Where a turn can stand that was given a session in the stage from.
Onward(from, b, q) ==
    /\ from \in {"new", "identifying", "qualifying", "collecting", "closed"}
    /\ from = "new" =>
          q = "GREETING" \/ (q = "SAVE" /\ b.node = "IDENTIFICATION")
    /\ from = "identifying" =>
          \/ q = "IDENTIFICATION"
          \/ q = "SAVE" /\ b.node \in {"IDENTIFICATION", "QUALIFICATION"}
          \/ HandedOff(b, q)
    /\ from = "qualifying" =>
          \/ q = "QUALIFICATION"
          \/ q = "SAVE" /\ b.node \in {"QUALIFICATION", "RETURN_FLOW",
                                       "COMPLAINT_FLOW"}
          \/ HandedOff(b, q)
          \/ Where(b, q) = "CONFIRMATION" /\ b.intent = "other"
    /\ from = "collecting" =>
          /\ b.intent \in {"return", "complaint"}
          /\ \/ q \in Serving \ {"QUALIFICATION"}
             \/ q = "SAVE" /\ b.node = "COMPLAINT_FLOW"
             \/ HandedOff(b, q)
             \/ Where(b, q) = "CONFIRMATION"
    /\ from = "closed" => Where(b, q) = "CONFIRMATION"

OnwardInv ==
    \A w \in Turns : pc[w] # "idle" =>
        \A s \in Sessions : s = of[w] => Onward(StageIn(s), st[w], pc[w])

LEMMA OnwardStep ==
    ASSUME NEW from, NEW a \in Session, NEW p \in Points \ {"SAVE"},
           NEW b \in Session, NEW q,
           SoundAt(a, p), Early(a, p), Lawful(a, p, b, q), Sound(b, q),
           Onward(from, a, p)
    PROVE  Onward(from, b, q)
  <1> DEFINE n == Where(b, q)
  <1>1. /\ n \in After(p) /\ Progresses(a, p, b, n)
        /\ q = "SAVE" <=> n \in RequiresFreshInput \/ p = "CONFIRMATION"
        /\ q = "SAVE" => b.node = n
        /\ q # "SAVE" => q = n
        /\ SoundAt(b, n)
    BY DEF Lawful, Progresses, Where, Sound
  <1>2. HandedOff(b, q) <=> \/ n \in {"ESCALATION", "NOTIFY"}
                            \/ n = "CONFIRMATION" /\ b.escalated
    BY DEF HandedOff
  <1>3. Where(b, q) = n
    OBVIOUS
  <1>4. Where(a, p) = p
    BY DEF Where
  <1> HIDE DEF n
  <1>5. HandedOff(a, p) => HandedOff(b, q)
    <2>1. p \in {"ESCALATION", "NOTIFY"} => a.escalated
      BY DEF SoundAt
    <2>2. p \in {"ESCALATION", "NOTIFY", "CONFIRMATION"} =>
             n \in {"NOTIFY", "CONFIRMATION"}
      BY <1>1 DEF After
    <2> QED
      BY <1>1, <1>2, <1>4, <2>1, <2>2 DEF HandedOff, Progresses
  <1>6. CASE from = "new"
    <2>1. p = "GREETING"
      BY <1>6 DEF Onward
    <2>2. n = "IDENTIFICATION"
      BY <1>1, <2>1 DEF After
    <2> QED
      BY <1>1, <1>6, <2>2 DEF Onward, RequiresFreshInput
  <1>7. CASE from = "identifying"
    <2>1. p = "IDENTIFICATION" \/ HandedOff(a, p)
      BY <1>7 DEF Onward
    <2>2. p = "IDENTIFICATION" =>
             n \in {"IDENTIFICATION", "QUALIFICATION", "ESCALATION"}
      BY <1>1 DEF After
    <2> QED
      BY <1>1, <1>2, <1>5, <1>7, <2>1, <2>2 DEF Onward, RequiresFreshInput
  <1>8. CASE from = "qualifying"
    <2>1. \/ p = "QUALIFICATION" \/ HandedOff(a, p)
          \/ p = "CONFIRMATION" /\ a.intent = "other"
      BY <1>4, <1>8 DEF Onward
    <2>2. CASE p = "QUALIFICATION"
      <3>1. n \in {"QUALIFICATION", "RETURN_FLOW", "COMPLAINT_FLOW",
                   "CONFIRMATION", "ESCALATION"}
        BY <1>1, <2>2 DEF After
      <3>2. a.decision = "none" /\ b.decision = "none"
        BY <1>1, <2>2 DEF Early, Where, Talking, Progresses
      <3>3. n = "CONFIRMATION" => b.escalated \/ b.intent = "other"
        BY <1>1, <3>2 DEF SoundAt, ReadyFor
      <3> QED
        BY <1>1, <1>2, <1>3, <1>8, <3>1, <3>3 DEF Onward, RequiresFreshInput
    <2>3. CASE HandedOff(a, p)
      BY <1>5, <1>8, <2>3 DEF Onward
    <2>4. CASE p = "CONFIRMATION" /\ a.intent = "other"
      <3>1. n = "CONFIRMATION" /\ b.intent = "other"
        BY <1>1, <2>4 DEF After, Progresses
      <3> QED
        BY <1>3, <1>8, <3>1 DEF Onward
    <2> QED
      BY <2>1, <2>2, <2>3, <2>4
  <1>9. CASE from = "collecting"
    <2>1. /\ a.intent \in {"return", "complaint"}
          /\ \/ p \in Serving \ {"QUALIFICATION"}
             \/ HandedOff(a, p)
             \/ p = "CONFIRMATION"
      BY <1>4, <1>9 DEF Onward
    <2>2. p # "QUALIFICATION"
      BY <1>4, <2>1 DEF HandedOff
    <2>3. b.intent \in {"return", "complaint"}
      BY <1>1, <2>1, <2>2 DEF Progresses
    <2>4. CASE p \in Serving \ {"QUALIFICATION"}
      <3>1. \/ n = "COMPLAINT_FLOW"
            \/ n \in Serving \ (RequiresFreshInput \union {"QUALIFICATION"})
            \/ n \in {"ESCALATION", "CONFIRMATION"}
        BY <1>1, <2>4 DEF After, Serving, RequiresFreshInput
      <3>2. CASE n = "COMPLAINT_FLOW"
        BY <1>1, <1>9, <2>3, <3>2 DEF Onward, RequiresFreshInput
      <3>3. CASE n \in Serving \ (RequiresFreshInput \union {"QUALIFICATION"})
        <4>1. p # "CONFIRMATION"
          BY <2>4 DEF Serving
        <4>2. q = n
          BY <1>1, <3>3, <4>1
        <4> QED
          BY <1>9, <2>3, <3>3, <4>2 DEF Onward
      <3>4. CASE n \in {"ESCALATION", "CONFIRMATION"}
        BY <1>2, <1>3, <1>9, <2>3, <3>4 DEF Onward
      <3> QED
        BY <3>1, <3>2, <3>3, <3>4
    <2>5. CASE HandedOff(a, p)
      BY <1>5, <1>9, <2>3, <2>5 DEF Onward
    <2>6. CASE p = "CONFIRMATION"
      <3>1. n = "CONFIRMATION"
        BY <1>1, <2>6 DEF After
      <3> QED
        BY <1>3, <1>9, <2>3, <3>1 DEF Onward
    <2> QED
      BY <2>1, <2>4, <2>5, <2>6
  <1>10. CASE from = "closed"
    <2>1. p = "CONFIRMATION"
      BY <1>4, <1>10 DEF Onward
    <2>2. n = "CONFIRMATION"
      BY <1>1, <2>1 DEF After
    <2> QED
      BY <1>3, <1>10, <2>2 DEF Onward
  <1> QED
    BY <1>6, <1>7, <1>8, <1>9, <1>10 DEF Onward

LEMMA Stages ==
    ASSUME NEW c, c.node \in Resumable
    PROVE  /\ c.node = "IDENTIFICATION" => StageOf(c) = "identifying"
           /\ c.node = "QUALIFICATION" => StageOf(c) = "qualifying"
           /\ c.node \in {"RETURN_FLOW", "COMPLAINT_FLOW"} => StageOf(c) = "collecting"
           /\ c.node = "CONFIRMATION" => StageOf(c) = "closed"
  BY DEF StageOf, Resumable, RequiresFreshInput

\* The conditions of OutcomeOf exclude each other.
LEMMA Outcomes ==
    ASSUME NEW c \in Session, Sound(c, "SAVE"), Early(c, "SAVE")
    PROVE  /\ c.node # "CONFIRMATION" => OutcomeOf(c) = "open"
           /\ c.node = "CONFIRMATION" /\ c.escalated => OutcomeOf(c) = "escalated"
           /\ c.node = "CONFIRMATION" /\ ~c.escalated /\ c.intent = "other" =>
                 OutcomeOf(c) = "redirected"
           /\ c.node = "CONFIRMATION" /\ ~c.escalated /\ c.intent # "other" =>
                 OutcomeOf(c) \in {"refused", "settled"}
  <1>1. /\ c.settled => c.decision = "auto"
        /\ c.intent = "other" => c.decision = "none"
        /\ c.settled \in BOOLEAN /\ c.escalated \in BOOLEAN
    BY DEF Early, Session
  <1>2. CASE c.node # "CONFIRMATION"
    BY <1>2 DEF OutcomeOf
  <1>3. CASE c.node = "CONFIRMATION" /\ c.escalated
    BY <1>3 DEF OutcomeOf
  <1>4. CASE c.node = "CONFIRMATION" /\ ~c.escalated /\ c.intent = "other"
    BY <1>1, <1>4 DEF OutcomeOf
  <1>5. CASE c.node = "CONFIRMATION" /\ ~c.escalated /\ c.intent # "other"
    <2>1. \/ c.decision = "refused" /\ ~c.settled
          \/ c.decision = "auto" /\ c.settled
      BY <1>1, <1>5 DEF Sound, SoundAt, Where, ReadyFor
    <2> QED
      BY <1>5, <2>1 DEF OutcomeOf
  <1> QED
    BY <1>2, <1>3, <1>4, <1>5

\* What save_session may do to the case of its session.
CaseMoves(from, to, o, o1) ==
    \/ to = from /\ o1 = o
    \/ /\ <<from, to>> \in {<<"new", "identifying">>, <<"identifying", "qualifying">>,
                            <<"qualifying", "collecting">>}
       /\ o1 = o
    \/ /\ to = "closed" /\ o1 = "escalated"
       /\ from \in {"identifying", "qualifying", "collecting"}
    \/ to = "closed" /\ o1 = "redirected" /\ from = "qualifying"
    \/ to = "closed" /\ o1 \in {"refused", "settled"} /\ from = "collecting"

LEMMA SaveMoves ==
    ASSUME Grounds, FollowInv, OnwardInv, NEW w \in Turns, Save(w),
           NEW s \in Sessions, s = of[w]
    PROVE  CaseMoves(StageIn(s), StageIn(s)', OutcomeIn(s), OutcomeIn(s)')
  <1> DEFINE c == st[w]
  <1>1. /\ IInv /\ pc[w] = "SAVE" /\ c \in Session /\ store'[s] = c
        /\ Sound(c, "SAVE") /\ Early(c, "SAVE") /\ c.node \in Resumable
    BY SaveFrame DEF Grounds, IInv, SoundInv, EarlyInv, Sound
  <1>2. c # NoSession
    BY <1>1, SessionAssumption
  <1>3. StageIn(s)' = StageOf(c) /\ OutcomeIn(s)' = OutcomeOf(c)
    BY <1>1, <1>2 DEF StageIn, OutcomeIn, StageOf, OutcomeOf
  <1>4. Onward(StageIn(s), c, "SAVE")
    BY <1>1 DEF OnwardInv
  <1> HIDE DEF c
  <1>5. HandedOff(c, "SAVE") => c.node = "CONFIRMATION" /\ c.escalated
    BY <1>1 DEF HandedOff, Where, Resumable, RequiresFreshInput
  <1>6. StageIn(s) # "closed" => OutcomeIn(s) = "open"
    <2>1. CASE s \in Saved
      <3>1. /\ store[s] \in Session /\ Sound(store[s], "SAVE")
            /\ Early(store[s], "SAVE") /\ store[s].node \in Resumable
        BY <2>1 DEF Grounds, IInv, TypeOK, SoundInv, EarlyInv, Saved, Sound
      <3> QED
        BY <2>1, <3>1, Stages, Outcomes DEF StageIn, OutcomeIn, Saved
    <2>2. CASE s \notin Saved
      BY <2>2 DEF OutcomeIn, Saved
    <2> QED
      BY <2>1, <2>2
  <1>7. CASE StageIn(s) = "new"
    <2>1. c.node = "IDENTIFICATION"
      BY <1>4, <1>7 DEF Onward
    <2> QED
      BY <1>1, <1>3, <1>6, <1>7, <2>1, Stages, Outcomes DEF CaseMoves
  <1>8. CASE StageIn(s) = "identifying"
    <2>1. \/ c.node \in {"IDENTIFICATION", "QUALIFICATION"}
          \/ c.node = "CONFIRMATION" /\ c.escalated
      BY <1>4, <1>5, <1>8 DEF Onward
    <2> QED
      BY <1>1, <1>3, <1>6, <1>8, <2>1, Stages, Outcomes DEF CaseMoves
  <1>9. CASE StageIn(s) = "qualifying"
    <2>1. \/ c.node \in {"QUALIFICATION", "RETURN_FLOW", "COMPLAINT_FLOW"}
          \/ c.node = "CONFIRMATION" /\ (c.escalated \/ c.intent = "other")
      BY <1>4, <1>5, <1>9 DEF Onward, Where
    <2>2. c.escalated \in BOOLEAN
      BY <1>1 DEF Session
    <2> QED
      BY <1>1, <1>3, <1>6, <1>9, <2>1, <2>2, Stages, Outcomes DEF CaseMoves
  <1>10. CASE StageIn(s) = "collecting"
    <2>1. c.intent # "other" /\ c.node \in {"COMPLAINT_FLOW", "CONFIRMATION"}
      BY <1>4, <1>5, <1>10 DEF Onward, Where, Serving
    <2>2. c.escalated \in BOOLEAN
      BY <1>1 DEF Session
    <2> QED
      BY <1>1, <1>3, <1>6, <1>10, <2>1, <2>2, Stages, Outcomes DEF CaseMoves
  <1>11. CASE StageIn(s) = "closed"
    <2>1. c.node = "CONFIRMATION"
      BY <1>4, <1>11 DEF Onward, Where
    <2>2. s \in Saved /\ store[s].node \in Resumable
      BY <1>11 DEF StageIn, Saved, Grounds, IInv, SoundInv, Sound
    <2>3. store[s].node = "CONFIRMATION"
      BY <1>11, <2>2, Stages DEF StageIn, Saved, Resumable, RequiresFreshInput
    <2>4. /\ c.escalated = store[s].escalated /\ c.intent = store[s].intent
          /\ c.decision = store[s].decision /\ c.settled = store[s].settled
      BY <1>1, <2>2, <2>3 DEF FollowInv, KeptClosed, c
    <2>5. OutcomeOf(c) = OutcomeOf(store[s])
      BY <2>1, <2>3, <2>4 DEF OutcomeOf
    <2> QED
      BY <1>1, <1>3, <1>11, <2>1, <2>2, <2>5, Stages DEF CaseMoves, OutcomeIn, Saved
  <1> QED
    BY <1>4, <1>7, <1>8, <1>9, <1>10, <1>11 DEF Onward

LEMMA OnwardNext ==
    /\ Grounds /\ NoOverlap /\ OnwardInv /\ [Next]_vars
    /\ "expiry" \notin Faults
    => OnwardInv'
  <1> SUFFICES ASSUME Grounds, NoOverlap, OnwardInv, [Next]_vars,
                      "expiry" \notin Faults
               PROVE  OnwardInv'
    OBVIOUS
  <1>1. IInv /\ EarlyInv
    BY DEF Grounds
  <1>2. \A s \in Sessions : store'[s] = store[s] => StageIn(s)' = StageIn(s)
    BY DEF StageIn, StageOf
  <1>3. ASSUME NEW w \in Turns, Computes(w) PROVE OnwardInv'
    <2>1. /\ pc[w] # "idle" /\ pc[w] \in Points \ {"SAVE"} /\ Early(st[w], pc[w])
          /\ store' = store /\ of' = of
      BY <1>1, <1>3, NodesLawful DEF EarlyInv, Points, Nodes
    <2>2. \A s \in Sessions : s = of[w] => Onward(StageIn(s), st'[w], pc'[w])
      BY <1>1, <1>3, <2>1, NodesLawful, OnwardStep DEF OnwardInv
    <2> QED
      BY <1>1, <1>2, <1>3, <2>1, <2>2, NodesLawful DEF OnwardInv
  <1>4. ASSUME NEW w \in Turns, Drops(w) PROVE OnwardInv'
    BY <1>1, <1>2, <1>4, DropFrame DEF OnwardInv
  <1>5. ASSUME NEW w \in Turns, Save(w) PROVE OnwardInv'
    <2>1. \A v \in Turns : v # w /\ pc[v] # "idle" => of[v] # of[w]
      BY <1>1, <1>5, SaveFrame DEF NoOverlap
    <2> QED
      BY <1>1, <1>2, <1>5, <2>1, SaveFrame DEF OnwardInv
  <1>6. ASSUME NEW w \in Turns, NEW x \in Sessions, Receive(w, x) PROVE OnwardInv'
    <2>1. Onward(StageIn(x), st'[w], pc'[w])
      <3>1. CASE x \in Saved
        <4> DEFINE c == store[x]
        <4>1. /\ c \in Session /\ c.node \in Resumable /\ SoundAt(c, c.node)
              /\ StageIn(x) = StageOf(c) /\ st'[w] = c /\ pc'[w] = c.node
          BY <1>1, <1>6, <3>1, ReceiveFrame
          DEF IInv, TypeOK, SoundInv, Saved, Sound, Where, StageIn
        <4> HIDE DEF c
        <4>2. Onward(StageOf(c), c, c.node)
          BY <4>1, Stages
          DEF Onward, Resumable, RequiresFreshInput, SoundAt, Serving, Where
        <4> QED
          BY <4>1, <4>2
      <3>2. CASE x \notin Saved
        BY <1>1, <1>6, <3>2, ReceiveFrame DEF Onward, StageIn, Saved, FreshSession
      <3> QED
        BY <3>1, <3>2
    <2> QED
      BY <1>1, <1>2, <1>6, <2>1, ReceiveFrame DEF OnwardInv
  <1>7. ASSUME NEW s \in Sessions, Expire(s) PROVE OnwardInv'
    BY <1>1, <1>7, ExpireFrame
  <1>8. ASSUME UNCHANGED <<store, pc, of, st>> PROVE OnwardInv'
    BY <1>2, <1>8 DEF OnwardInv
  <1>9. ASSUME NEW w \in Turns, TurnAway(w) PROVE OnwardInv'
    BY <1>8, <1>9 DEF TurnAway
  <1>10. CASE UNCHANGED vars
    BY <1>8, <1>10 DEF vars
  <1> QED
    BY <1>3, <1>4, <1>5, <1>6, <1>7, <1>9, <1>10, NextCases

\* While sessions do not expire and their turns do not overlap, the saved
\* sessions implement Conversation: whatever a turn runs, loses or repeats, the
\* customer sees at most one stage per message, and a closed case stays closed
\* with its outcome (save_session, the graph).
THEOREM ConversationImplemented ==
    ASSUME "expiry" \notin Faults
    PROVE  Spec /\ []NoOverlap => ImplementsConversation
  <1> DEFINE stages == [s \in Sessions |->
                           IF store[s] = NoSession THEN "new" ELSE StageOf(store[s])]
             outcomes == [s \in Sessions |->
                             IF store[s] = NoSession THEN "open" ELSE OutcomeOf(store[s])]
  <1>1. Init => OnwardInv /\ Case!Init
    BY DEF Init, OnwardInv, Case!Init
  <1>2. Grounds /\ FollowInv /\ OnwardInv /\ [Next]_vars =>
           [Case!Next]_<<stages, outcomes>>
    <2> SUFFICES ASSUME Grounds, FollowInv, OnwardInv, [Next]_vars
                 PROVE  [Case!Next]_<<stages, outcomes>>
      OBVIOUS
    <2>1. IInv
      BY DEF Grounds
    <2>2. \A s \in Sessions : stages[s] = StageIn(s) /\ outcomes[s] = OutcomeIn(s)
      BY DEF StageIn, OutcomeIn
    <2>3. \A s \in Sessions : stages'[s] = StageIn(s)' /\ outcomes'[s] = OutcomeIn(s)'
      BY DEF StageIn, OutcomeIn
    <2>4. CASE UNCHANGED store
      BY <2>4 DEF StageOf, OutcomeOf
    <2>5. ASSUME NEW w \in Turns, Save(w)
          PROVE  [Case!Next]_<<stages, outcomes>>
      <3> PICK s \in Sessions : s = of[w]
        BY <2>1, <2>5, SaveFrame
      <3>1. CaseMoves(StageIn(s), StageIn(s)', OutcomeIn(s), OutcomeIn(s)')
        BY <2>5, SaveMoves
      <3>2. CaseMoves(stages[s], stages'[s], outcomes[s], outcomes'[s])
        BY <2>2, <2>3, <3>1
      <3>3. \A t \in Sessions : t # s =>
               stages'[t] = stages[t] /\ outcomes'[t] = outcomes[t]
        BY <2>1, <2>5, SaveFrame
      <3>4. /\ stages' = [stages EXCEPT ![s] = stages'[s]]
            /\ outcomes' = [outcomes EXCEPT ![s] = outcomes'[s]]
        BY <3>3
      <3>5. /\ outcomes'[s] = outcomes[s] => UNCHANGED outcomes
            /\ stages'[s] = stages[s] => UNCHANGED stages
        BY <3>3
      <3>6. CASE stages'[s] = stages[s] /\ outcomes'[s] = outcomes[s]
        BY <3>5, <3>6
      <3>7. ASSUME outcomes'[s] = outcomes[s],
                   <<stages[s], stages'[s]>> \in
                       {<<"new", "identifying">>, <<"identifying", "qualifying">>,
                        <<"qualifying", "collecting">>}
            PROVE  Case!Greet(s) \/ Case!Identify(s) \/ Case!Qualify(s)
        <4>1. UNCHANGED outcomes
          BY <3>5, <3>7
        <4> QED
          BY <3>4, <3>7, <4>1
          DEF Case!Greet, Case!Identify, Case!Qualify, Case!GoTo
      <3>8. ASSUME stages'[s] = "closed", outcomes'[s] = "escalated",
                   stages[s] \in {"identifying", "qualifying", "collecting"}
            PROVE  Case!HandOver(s)
        BY <3>4, <3>8 DEF Case!HandOver, Case!CloseAs
      <3>9. ASSUME stages'[s] = "closed", outcomes'[s] = "redirected",
                   stages[s] = "qualifying"
            PROVE  Case!Redirect(s)
        BY <3>4, <3>9 DEF Case!Redirect, Case!CloseAs
      <3>10. ASSUME stages'[s] = "closed", outcomes'[s] \in {"refused", "settled"},
                    stages[s] = "collecting"
             PROVE  Case!Decide(s)
        BY <3>4, <3>10 DEF Case!Decide, Case!CloseAs
      <3> HIDE DEF stages, outcomes
      <3> QED
        BY <3>2, <3>6, <3>7, <3>8, <3>9, <3>10 DEF CaseMoves, Case!Next
    <2>6. ASSUME NEW w \in Turns, Computes(w) \/ Drops(w) \/ TurnAway(w)
          PROVE  UNCHANGED store
      BY <2>1, <2>6, NodesLawful, DropFrame DEF TurnAway
    <2>7. ASSUME NEW w \in Turns, NEW s \in Sessions, Receive(w, s)
          PROVE  UNCHANGED store
      BY <2>7 DEF Receive
    <2>8. ASSUME NEW s \in Sessions, Expire(s) PROVE FALSE
      BY <2>1, <2>8, ExpireFrame
    <2>9. CASE UNCHANGED vars
      BY <2>4, <2>9 DEF vars
    <2> QED
      BY <2>4, <2>5, <2>6, <2>7, <2>8, <2>9, NextCases
  <1>3. Grounds /\ NoOverlap /\ OnwardInv /\ [Next]_vars => OnwardInv'
    BY OnwardNext
  <1> QED
    BY <1>1, <1>2, <1>3, Grounded, Following, PTL
    DEF Spec, ImplementsConversation, Case!Spec
-----------------------------------------------------------------------------
(* The limits, against what happened and not against the session's counters.*)

\* A turn counts at most once, at the node that reads its message, and pauses
\* or escalates right after.
Reading == {"GREETING", "IDENTIFICATION", "QUALIFICATION", "COMPLAINT_FLOW"}

Spare(p) == IF p \in Reading THEN 0 ELSE 1

SavedAttempts(s) == IF store[s] = NoSession THEN 0 ELSE store[s].attempts
SavedReform(s) == IF store[s] = NoSession THEN 0 ELSE store[s].reform

Unattended(s) == \A w \in Turns : of[w] = s => pc[w] = "idle"

\* What a session does not remember was lost with a turn, or is in the copy of
\* the turn that runs.
CountInv ==
    /\ failures \in [Sessions -> Nat] /\ questions \in [Sessions -> Nat]
    /\ \A w \in Turns : pc[w] # "idle" =>
          /\ failures[of[w]] <= st[w].attempts + lost[of[w]]
          /\ questions[of[w]] <= st[w].reform + lost[of[w]]
          /\ failures[of[w]] <= SavedAttempts(of[w]) + lost[of[w]] + Spare(pc[w])
          /\ questions[of[w]] <= SavedReform(of[w]) + lost[of[w]] + Spare(pc[w])
    /\ \A s \in Sessions : Unattended(s) =>
          /\ failures[s] <= SavedAttempts(s) + lost[s]
          /\ questions[s] <= SavedReform(s) + lost[s]

\* A step that counts is one of a node that reads a message, and the copy
\* counts it too.
LEMMA FailureCounts ==
    ASSUME IInv, NEW v \in Turns, FailIdentification(v)
    PROVE  /\ pc[v] = "IDENTIFICATION" /\ pc'[v] \in {"SAVE", "ESCALATION"}
           /\ st'[v].attempts = st[v].attempts + 1
  <1> DEFINE c == st[v]
             n == c.attempts + 1
             a == [c EXCEPT !.attempts = n]
             e == Escalated(a, "identification_failed")
  <1>1. /\ pc[v] = "IDENTIFICATION" /\ c \in Session /\ n \in Nat
        /\ c.order = NoOrder /\ ~c.escalated
    BY DEF FailIdentification, IInv, TypeOK, SoundInv, Sound, SoundAt, Where, Session
  <1>2. \/ Advance(v, a, RouteAfterIdentification(a))
        \/ Advance(v, e, RouteAfterIdentification(e))
    BY DEF FailIdentification
  <1> HIDE DEF n
  <1>3. /\ a \in Session /\ a.attempts = n /\ a.order = NoOrder /\ ~a.escalated
        /\ [a EXCEPT !.node = "IDENTIFICATION"].attempts = n
    BY <1>1 DEF Session
  <1>4. RouteAfterIdentification(a) = "IDENTIFICATION"
    BY <1>3 DEF RouteAfterIdentification
  <1>5. e.escalated /\ [e EXCEPT !.node = "ESCALATION"].attempts = n
    BY <1>3 DEF Escalated, Session
  <1>6. RouteAfterIdentification(e) = "ESCALATION"
    BY <1>5 DEF RouteAfterIdentification
  <1> HIDE DEF a, e
  <1>7. \/ pc'[v] = "SAVE" /\ st'[v] = [a EXCEPT !.node = "IDENTIFICATION"]
        \/ pc'[v] = "ESCALATION" /\ st'[v] = [e EXCEPT !.node = "ESCALATION"]
    BY <1>2, <1>4, <1>6 DEF Advance, Move, RequiresFreshInput, IInv, TypeOK
  <1> QED
    BY <1>1, <1>3, <1>5, <1>7 DEF n

LEMMA QuestionCounts ==
    ASSUME IInv, NEW v \in Turns, AskIntent(v) \/ AskDescription(v)
    PROVE  /\ pc[v] \in {"QUALIFICATION", "COMPLAINT_FLOW"}
           /\ pc'[v] \in {"SAVE", "ESCALATION"}
           /\ st'[v].reform = st[v].reform + 1
  <1> DEFINE c == st[v]
             n == c.reform + 1
             a == [c EXCEPT !.reform = n]
             b == [c EXCEPT !.reform = n, !.vague = TRUE]
             e == Escalated(a, "qualification_unclear")
  <1>1. /\ pc[v] \in {"QUALIFICATION", "COMPLAINT_FLOW"}
        /\ c \in Session /\ n \in Nat /\ ~c.escalated
        /\ pc[v] = "QUALIFICATION" => c.intent = "none"
    BY DEF AskIntent, AskDescription, IInv, TypeOK, SoundInv, Sound, SoundAt,
           Where, Serving, Session
  <1>2. \/ /\ pc[v] = "QUALIFICATION"
           /\ \/ Advance(v, a, RouteAfterQualification(a))
              \/ Advance(v, e, RouteAfterQualification(e))
        \/ Advance(v, b, RouteAfterComplaintFlow(b))
    BY DEF AskIntent, AskDescription
  <1> HIDE DEF n
  <1>3. /\ a \in Session /\ a.reform = n /\ ~a.escalated /\ a.intent = c.intent
        /\ [a EXCEPT !.node = "QUALIFICATION"].reform = n
    BY <1>1 DEF Session
  <1>4. /\ b \in Session /\ b.reform = n /\ ~b.escalated /\ b.vague
        /\ [b EXCEPT !.node = "COMPLAINT_FLOW"].reform = n
    BY <1>1 DEF Session
  <1>5. e.escalated /\ [e EXCEPT !.node = "ESCALATION"].reform = n
    BY <1>3 DEF Escalated, Session
  <1> HIDE DEF a, b, e
  <1>6. pc[v] = "QUALIFICATION" => RouteAfterQualification(a) = "QUALIFICATION"
    BY <1>1, <1>3 DEF RouteAfterQualification
  <1>7. /\ RouteAfterQualification(e) = "ESCALATION"
        /\ RouteAfterComplaintFlow(b) = "COMPLAINT_FLOW"
    BY <1>4, <1>5 DEF RouteAfterQualification, RouteAfterComplaintFlow
  <1>8. \/ pc'[v] = "SAVE" /\ st'[v] = [a EXCEPT !.node = "QUALIFICATION"]
        \/ pc'[v] = "ESCALATION" /\ st'[v] = [e EXCEPT !.node = "ESCALATION"]
        \/ pc'[v] = "SAVE" /\ st'[v] = [b EXCEPT !.node = "COMPLAINT_FLOW"]
    BY <1>2, <1>6, <1>7 DEF Advance, Move, RequiresFreshInput, IInv, TypeOK
  <1> QED
    BY <1>1, <1>3, <1>4, <1>5, <1>8 DEF n

\* The counts that a step leaves alone.
Uncounted(S) ==
    \A s \in S : failures'[s] = failures[s] /\ questions'[s] = questions[s]

\* After a node's step a turn has nothing left to read.
LEMMA NothingLeftToRead ==
    ASSUME IInv, NEW w \in Turns, Computes(w)
    PROVE  pc'[w] \notin Reading \union {"idle"}
  <1> DEFINE q == pc'[w]
             n == Where(st'[w], q)
  <1>1. /\ n \in After(pc[w]) /\ pc[w] \in Points \ {"SAVE"} /\ q \in Points
        /\ q = "SAVE" <=> n \in RequiresFreshInput \/ pc[w] = "CONFIRMATION"
    BY NodesLawful DEF Lawful, Progresses
  <1>2. n # "GREETING"
    BY <1>1 DEF After, Points, Nodes
  <1>3. q # "SAVE" => n = q
    BY DEF Where
  <1> QED
    BY <1>1, <1>2, <1>3 DEF Reading, RequiresFreshInput, Points, Nodes

\* A step that changes pc of one turn w, and does not take a message to be read,
\* counts for nobody else.
LEMMA CountsElsewhere ==
    ASSUME IInv, CountInv, Count, NEW w \in Turns, NEW S \in SUBSET Sessions,
           \A v \in Turns : v # w => pc'[v] = pc[v],
           \A s \in S : ~ExpiresIn(s),
           of[w] \in S => pc[w] \notin Reading \/ pc'[w] \notin {"SAVE", "ESCALATION"}
    PROVE  Uncounted(S)
  <1>1. ASSUME NEW s \in S PROVE ~FailsIn(s) /\ ~AsksIn(s)
    BY <1>1, FailureCounts, QuestionCounts DEF FailsIn, AsksIn, Reading
  <1> QED
    BY <1>1 DEF Uncounted, Count, CountInv

LEMMA CountNext ==
    Grounds /\ NoOverlap /\ NoOverlap' /\ CountInv
        /\ [Next /\ Count]_<<vars, counts>> => CountInv'
  <1> SUFFICES ASSUME Grounds, NoOverlap, NoOverlap', CountInv,
                      [Next /\ Count]_<<vars, counts>>
               PROVE  CountInv'
    OBVIOUS
  <1>1. /\ IInv /\ lost \in [Sessions -> Nat]
        /\ \A w \in Turns : pc[w] # "idle" =>
              of[w] \in Sessions /\ st[w].attempts \in Nat /\ st[w].reform \in Nat
        /\ \A s \in Sessions : SavedAttempts(s) \in Nat /\ SavedReform(s) \in Nat
    BY DEF Grounds, IInv, TypeOK, SoundInv, SavedAttempts, SavedReform, Session
  <1>2. CASE UNCHANGED <<vars, counts>>
    BY <1>2 DEF vars, counts, history, CountInv, SavedAttempts, SavedReform, Unattended
  <1>3. CASE Next /\ Count
    <2>1. /\ failures' \in [Sessions -> Nat] /\ questions' \in [Sessions -> Nat]
      BY <1>3 DEF Count, CountInv
    <2>2. ASSUME NEW w \in Turns, Computes(w) PROVE CountInv'
      <3> DEFINE s == of[w]
      <3>1. /\ s \in Sessions /\ pc[w] # "idle" /\ pc'[w] \notin Reading \union {"idle"}
            /\ st'[w] \in Session /\ UNCHANGED <<store, of, lost>>
            /\ \A v \in Turns : v # w => pc'[v] = pc[v] /\ st'[v] = st[v]
            /\ st'[w].attempts >= st[w].attempts /\ st'[w].reform >= st[w].reform
        BY <1>1, <2>2, NodesLawful, NothingLeftToRead
        DEF Lawful, Progresses, Points, Nodes
      <3>2. \A x \in Sessions : ~ExpiresIn(x)
        BY <3>1 DEF ExpiresIn
      <3>3. Uncounted(Sessions \ {s})
        BY <1>1, <1>3, <3>1, <3>2, CountsElsewhere
      <3>4. \/ failures'[s] = failures[s]
            \/ /\ failures'[s] = failures[s] + 1
               /\ Spare(pc[w]) = 0 /\ st'[w].attempts = st[w].attempts + 1
        <4>1. CASE ~FailsIn(s)
          BY <1>3, <3>1, <3>2, <4>1 DEF Count
        <4>2. CASE FailsIn(s)
          <5>1. PICK v \in Turns : of[v] = s /\ FailIdentification(v)
            BY <4>2 DEF FailsIn
          <5>2. v = w
            BY <1>1, <3>1, <5>1, FailureCounts
          <5> QED
            BY <1>1, <1>3, <3>1, <3>2, <4>2, <5>1, <5>2, FailureCounts
            DEF Count, Spare, Reading
        <4> QED
          BY <4>1, <4>2
      <3>5. \/ questions'[s] = questions[s]
            \/ /\ questions'[s] = questions[s] + 1
               /\ Spare(pc[w]) = 0 /\ st'[w].reform = st[w].reform + 1
        <4>1. CASE ~AsksIn(s)
          BY <1>3, <3>1, <3>2, <4>1 DEF Count
        <4>2. CASE AsksIn(s)
          <5>1. PICK v \in Turns : of[v] = s /\ (AskIntent(v) \/ AskDescription(v))
            BY <4>2 DEF AsksIn
          <5>2. v = w
            BY <1>1, <3>1, <5>1, QuestionCounts
          <5> QED
            BY <1>1, <1>3, <3>1, <3>2, <4>2, <5>1, <5>2, QuestionCounts
            DEF Count, Spare, Reading
        <4> QED
          BY <4>1, <4>2
      <3>6. \A v \in Turns : v # w /\ pc[v] # "idle" => of[v] \in Sessions \ {s}
        BY <1>1, <3>1 DEF NoOverlap
      <3>7. /\ failures'[s] <= st'[w].attempts + lost[s]
            /\ failures'[s] <= SavedAttempts(s) + lost[s] + 1
            /\ questions'[s] <= st'[w].reform + lost[s]
            /\ questions'[s] <= SavedReform(s) + lost[s] + 1
        <4>1. /\ failures[s] <= st[w].attempts + lost[s]
              /\ failures[s] <= SavedAttempts(s) + lost[s] + Spare(pc[w])
              /\ questions[s] <= st[w].reform + lost[s]
              /\ questions[s] <= SavedReform(s) + lost[s] + Spare(pc[w])
          BY <3>1 DEF CountInv
        <4>2. Spare(pc[w]) \in {0, 1}
          BY DEF Spare
        <4>3. /\ st'[w].attempts \in Nat /\ st'[w].reform \in Nat
              /\ st[w].attempts \in Nat /\ st[w].reform \in Nat
              /\ SavedAttempts(s) \in Nat /\ SavedReform(s) \in Nat
              /\ lost[s] \in Nat /\ failures[s] \in Nat /\ questions[s] \in Nat
          BY <1>1, <3>1 DEF Session, CountInv
        <4> HIDE DEF s
        <4> QED
          BY <3>1, <3>4, <3>5, <4>1, <4>2, <4>3
      <3>8. /\ \A x \in Sessions : SavedAttempts(x)' = SavedAttempts(x)
            /\ \A x \in Sessions : SavedReform(x)' = SavedReform(x)
            /\ Spare(pc'[w]) = 1
        BY <3>1 DEF SavedAttempts, SavedReform, Spare
      <3>9. \A x \in Sessions : Unattended(x)' => Unattended(x) /\ x # s
        BY <3>1 DEF Unattended
      <3> HIDE DEF s
      <3> QED
        BY <1>1, <2>1, <3>1, <3>3, <3>6, <3>7, <3>8, <3>9
        DEF CountInv, Uncounted, s
    <2>3. ASSUME NEW w \in Turns, Drops(w) PROVE CountInv'
      <3>1. Uncounted(Sessions)
        BY <1>1, <1>3, <2>3, DropFrame, CountsElsewhere DEF ExpiresIn
      <3> QED
        BY <1>1, <2>1, <2>3, <3>1, DropFrame
        DEF CountInv, Uncounted, Unattended, SavedAttempts, SavedReform, Spare, NoOverlap
    <2>4. ASSUME NEW w \in Turns, Save(w) PROVE CountInv'
      <3>1. \A s \in Sessions : ~ExpiresIn(s)
        BY <1>1, <2>4, SaveFrame, SessionAssumption DEF ExpiresIn
      <3>2. Uncounted(Sessions)
        BY <1>1, <1>3, <2>4, <3>1, SaveFrame, CountsElsewhere DEF Reading
      <3> QED
        BY <1>1, <2>1, <2>4, <3>2, SaveFrame, SessionAssumption
        DEF CountInv, Uncounted, Unattended, SavedAttempts, SavedReform, Spare,
            NoOverlap, history
    <2>5. ASSUME NEW w \in Turns, NEW s \in Sessions, Receive(w, s) PROVE CountInv'
      <3>1. Uncounted(Sessions)
        BY <1>1, <1>3, <2>5, ReceiveFrame, CountsElsewhere DEF ExpiresIn, Reading
      <3>2. Unattended(s)
        BY <1>1, <2>5, ReceiveFrame DEF Unattended, NoOverlap
      <3>3. st'[w].attempts = SavedAttempts(s) /\ st'[w].reform = SavedReform(s)
        BY <1>1, <2>5, ReceiveFrame DEF SavedAttempts, SavedReform, Saved, FreshSession
      <3> QED
        BY <1>1, <2>1, <2>5, <3>1, <3>2, <3>3, ReceiveFrame
        DEF CountInv, Uncounted, Unattended, SavedAttempts, SavedReform, Spare, history
    <2>6. ASSUME NEW s \in Sessions, Expire(s) PROVE CountInv'
      <3>1. ~\E v \in Turns : \/ FailIdentification(v) \/ AskIntent(v)
                              \/ AskDescription(v)
        BY <1>1, <2>6, ExpireFrame, FailureCounts, QuestionCounts
      <3>2. Uncounted(Sessions \ {s}) /\ failures'[s] = 0 /\ questions'[s] = 0
        BY <1>1, <1>3, <2>6, <3>1, ExpireFrame
        DEF Uncounted, Count, CountInv, ExpiresIn, FailsIn, AsksIn, Expire
      <3> QED
        BY <1>1, <2>1, <2>6, <3>2, ExpireFrame
        DEF CountInv, Uncounted, Unattended, SavedAttempts, SavedReform, Spare
    <2>7. ASSUME NEW w \in Turns, TurnAway(w) PROVE CountInv'
      <3>1. UNCHANGED <<store, pc, of, st, lost>>
        BY <2>7 DEF TurnAway, history
      <3>2. Uncounted(Sessions)
        BY <1>1, <1>3, <2>7, <3>1, CountsElsewhere DEF TurnAway, ExpiresIn, Reading
      <3> QED
        BY <1>1, <2>1, <3>1, <3>2
        DEF CountInv, Uncounted, Unattended, SavedAttempts, SavedReform
    <2> QED
      BY <1>3, <2>2, <2>3, <2>4, <2>5, <2>6, <2>7, NextCases
  <1> QED
    BY <1>2, <1>3

\* Constitution V.2 and FR-003: two failed identifications, or a request that is
\* still ambiguous after two clarifying questions, in the life of a session put
\* it in human hands, but for one per dropped turn, as long as its turns do not
\* overlap (identification_node, qualification_node, complaint_flow_node).
THEOREM LimitsAlwaysEscalate == ExchangesSpec /\ []NoOverlap => []LimitsEscalate
  <1>1. ExchangesSpec => Spec
    <2>1. [Next /\ Count]_<<vars, counts>> => [Next]_vars
      BY DEF vars
    <2> QED
      BY <2>1, PTL DEF ExchangesSpec, Spec
  <1>2. Init /\ CountsInit => CountInv
    BY DEF Init, CountsInit, CountInv, SavedAttempts, SavedReform
  <1>3. Grounds /\ CountInv => LimitsEscalate
    <2> SUFFICES ASSUME Grounds, CountInv, NEW s \in Saved,
                        \A w \in Turns : of[w] # s
                 PROVE  /\ failures[s] >= MaxIdentificationAttempts + lost[s] =>
                               store[s].escalated
                        /\ questions[s] > MaxClarifications + lost[s] =>
                               store[s].escalated
      BY DEF LimitsEscalate
    <2>1. /\ s \in Sessions /\ store[s] \in Session /\ SoundAt(store[s], store[s].node)
          /\ lost[s] \in Nat /\ failures[s] \in Nat /\ questions[s] \in Nat
      BY DEF Grounds, IInv, TypeOK, SoundInv, Saved, Sound, Where, CountInv
    <2>2. /\ failures[s] <= store[s].attempts + lost[s]
          /\ questions[s] <= store[s].reform + lost[s]
      BY <2>1 DEF CountInv, Unattended, SavedAttempts, SavedReform, Saved
    <2>3. store[s].attempts \in Nat /\ store[s].reform \in Nat
      BY <2>1 DEF Session
    <2> QED
      BY <2>1, <2>2, <2>3
      DEF SoundAt, MaxIdentificationAttempts, MaxClarifications
  <1> QED
    BY <1>1, <1>2, <1>3, CountNext, Grounded, PTL DEF ExchangesSpec
=============================================================================
