--------------------------- MODULE AgentTurnProofs ---------------------------
(***************************************************************************)
(* Theorems about AgentTurn, for every set of overlapping turns, every set *)
(* of sessions and every number of retries and messages.                   *)
(*                                                                         *)
(* Nothing locks a session, so no property may rest on what another turn   *)
(* does.  The argument is that a copy of a session is always fit for the   *)
(* point its turn stands at: Sound(s, p).  Routing keeps it (one lemma per *)
(* node), and since turns exchange whole copies through Redis, overlapping *)
(* turns can only replace one sound copy with another.                     *)
(***************************************************************************)
EXTENDS AgentTurn, TLAPS

\* The node a copy is at, or resumes at once it is saved.
Where(s, p) == IF p = "SAVE" THEN s.node ELSE p

\* Nodes and calls that run on an identified, not escalated session.
Serving == {"QUALIFICATION", "RETURN_FLOW", "COMPLAINT_FLOW", "RECORD_COMPLAINT",
            "VERIFICATION", "DECISION", "AUTO_ACTION", "TRIGGER_REFUND"}
Deciding == {"VERIFICATION", "DECISION", "AUTO_ACTION", "TRIGGER_REFUND"}
Acting == {"AUTO_ACTION", "TRIGGER_REFUND"}

SoundAt(s, q) ==
    /\ s.attempts >= MaxIdentificationAttempts => s.escalated
    /\ s.reform > MaxClarifications => s.escalated
    /\ s.ticket => s.escalated
    /\ q \in {"GREETING", "IDENTIFICATION"} =>
          s.order = NoOrder /\ ~s.escalated /\ s.intent = "none"
    /\ q \in Serving => s.order # NoOrder /\ ~s.escalated
    /\ q = "QUALIFICATION" => s.intent = "none"
    /\ q = "RETURN_FLOW" => s.intent = "return"
    /\ q \in {"COMPLAINT_FLOW", "RECORD_COMPLAINT"} => s.intent = "complaint"
    /\ q \in Deciding => s.intent \in {"return", "complaint"}
    /\ q = "DECISION" => s.verdict # "none"
    /\ q \in Acting => s.verdict = "auto" /\ s.decision = "auto"
    /\ q \in {"ESCALATION", "NOTIFY"} => s.escalated /\ s.why # "none"
    /\ q = "CONFIRMATION" => ReadyFor(s, q)
    /\ s.decision = "auto" => s.settled \/ s.escalated \/ q \in Acting

Resumable == RequiresFreshInput \union {"CONFIRMATION"}

Sound(s, p) ==
    /\ p = "SAVE" => s.node \in Resumable
    /\ SoundAt(s, Where(s, p))

\* The turn goes on with a sound copy.
MovesSoundly(w) ==
    \E p \in Points, s \in Session : Move(w, p, s) /\ Sound(s, p)

-----------------------------------------------------------------------------
\* run_turn's loop keeps soundness: a copy fit for the next node is fit to be
\* saved in front of it.
LEMMA AdvanceSound ==
    ASSUME NEW w \in Turns, NEW t \in Session, NEW n \in Nodes,
           SoundAt(t, n), Advance(w, t, n)
    PROVE  MovesSoundly(w)
  <1> DEFINE p == IF n \in RequiresFreshInput THEN "SAVE" ELSE n
             s == [t EXCEPT !.node = n]
  <1>1. s \in Session /\ s.node = n
    BY DEF Session
  <1>2. p \in Points /\ Move(w, p, s)
    BY DEF Advance, Points
  <1>3. SoundAt(s, n)
    BY DEF Session, SoundAt, ReadyFor
  <1>4. Where(s, p) = n
    BY <1>1 DEF Where, Nodes
  <1>5. Sound(s, p)
    BY <1>1, <1>3, <1>4 DEF Sound, Resumable, Nodes
  <1> QED
    BY <1>1, <1>2, <1>5 DEF MovesSoundly

\* Whatever the copy was, once escalated with a reason it is fit for ESCALATION.
LEMMA EscalatedSound ==
    ASSUME NEW t \in Session, NEW reason \in EscalationReasons, reason # "none"
    PROVE  /\ Escalated(t, reason) \in Session
           /\ Escalated(t, reason).escalated
           /\ SoundAt(Escalated(t, reason), "ESCALATION")
  BY DEF Escalated, Session, SoundAt, Serving, Deciding, Acting

\* A turn that escalates its copy and advances to ESCALATION moves soundly.
LEMMA EscalationMove ==
    ASSUME NEW w \in Turns, NEW t \in Session, NEW reason \in EscalationReasons,
           reason # "none", Advance(w, Escalated(t, reason), "ESCALATION")
    PROVE  MovesSoundly(w)
  BY EscalatedSound, AdvanceSound DEF Nodes

\* The copy of a turn that stands at p, and what is assumed of it.
StandsAt(w, p) ==
    /\ pc[w] = p
    /\ st[w] \in Session
    /\ Sound(st[w], pc[w])

\* The definitions a node's step is checked against.
LEMMA IdentificationSound ==
    ASSUME NEW w \in Turns, StandsAt(w, "IDENTIFICATION"),
           \/ HoldIdentification(w) \/ Identify(w)
           \/ FailIdentification(w) \/ IdentificationUnavailable(w)
    PROVE  MovesSoundly(w)
  <1> DEFINE c == st[w]
  <1>1. c \in Session /\ SoundAt(c, "IDENTIFICATION")
    BY DEF StandsAt, Sound, Where
  <1> USE DEF SoundAt, ReadyFor, Serving, Deciding, Acting, RequiresFreshInput,
              MaxIdentificationAttempts, MaxClarifications, Nodes
  <1>2. CASE HoldIdentification(w)
    <2>1. Advance(w, c, "IDENTIFICATION")
      BY <1>1, <1>2 DEF HoldIdentification, RouteAfterIdentification
    <2> QED
      BY <1>1, <2>1, AdvanceSound
  <1>3. CASE Identify(w)
    <2>1. PICK o \in Orders :
             Advance(w, [c EXCEPT !.order = o],
                     RouteAfterIdentification([c EXCEPT !.order = o]))
      BY <1>3 DEF Identify
    <2> DEFINE t == [c EXCEPT !.order = o]
    <2>2. o # NoOrder
      BY OrderAssumption
    <2>3. t \in Session /\ t.order = o /\ SoundAt(t, "QUALIFICATION")
      BY <1>1, <2>2 DEF Session
    <2>4. RouteAfterIdentification(t) = "QUALIFICATION"
      BY <1>1, <2>2, <2>3 DEF RouteAfterIdentification, Session
    <2> QED
      BY <2>1, <2>3, <2>4, AdvanceSound
  <1>4. CASE FailIdentification(w)
    <2> DEFINE a == [c EXCEPT !.attempts = @ + 1]
    <2>1. a \in Session
      BY <1>1 DEF Session
    <2>2. CASE a.attempts < MaxIdentificationAttempts
      <3>1. SoundAt(a, "IDENTIFICATION")
        BY <1>1, <2>2 DEF Session
      <3>2. Advance(w, a, "IDENTIFICATION")
        BY <1>1, <1>4, <2>2 DEF FailIdentification, RouteAfterIdentification, Session
      <3> QED
        BY <2>1, <3>1, <3>2, AdvanceSound
    <2>3. CASE ~(a.attempts < MaxIdentificationAttempts)
      <3> HIDE DEF a
      <3>1. Advance(w, Escalated(a, "identification_failed"), "ESCALATION")
        BY <2>1, <2>3, <1>4, EscalatedSound
        DEF FailIdentification, RouteAfterIdentification, EscalationReasons, a
      <3> QED
        BY <2>1, <3>1, EscalationMove DEF EscalationReasons
    <2> QED
      BY <2>2, <2>3
  <1>5. CASE IdentificationUnavailable(w)
    <2>1. Advance(w, Escalated(c, "service_unavailable"), "ESCALATION")
      BY <1>1, <1>5, EscalatedSound
      DEF IdentificationUnavailable, RouteAfterIdentification, EscalationReasons
    <2> QED
      BY <1>1, <2>1, EscalationMove DEF EscalationReasons
  <1> QED
    BY <1>2, <1>3, <1>4, <1>5

LEMMA GreetingSound ==
    ASSUME NEW w \in Turns, StandsAt(w, "GREETING"), Greet(w)
    PROVE  MovesSoundly(w)
  <1>1. st[w] \in Session /\ SoundAt(st[w], "GREETING")
    BY DEF StandsAt, Sound, Where
  <1>2. SoundAt(st[w], "IDENTIFICATION")
    BY <1>1 DEF SoundAt, Serving, Deciding, Acting
  <1> QED
    BY <1>1, <1>2, AdvanceSound DEF Greet, Nodes

LEMMA QualificationSound ==
    ASSUME NEW w \in Turns, StandsAt(w, "QUALIFICATION"),
           Qualify(w) \/ AskIntent(w)
    PROVE  MovesSoundly(w)
  <1> DEFINE c == st[w]
  <1>1. c \in Session /\ SoundAt(c, "QUALIFICATION")
    BY DEF StandsAt, Sound, Where
  <1> HIDE DEF c
  <1>2. CASE Qualify(w)
    <2>1. PICK intent \in {"return", "complaint", "other"} :
             Advance(w, [c EXCEPT !.intent = intent],
                     RouteAfterQualification([c EXCEPT !.intent = intent]))
      BY <1>2 DEF Qualify, c
    <2> DEFINE t == [c EXCEPT !.intent = intent]
    <2>2. t \in Session
      BY <1>1 DEF Session, Intents
    <2>3. CASE intent = "return"
      <3>1. SoundAt(t, "RETURN_FLOW") /\ RouteAfterQualification(t) = "RETURN_FLOW"
        BY <1>1, <2>3
        DEF Session, SoundAt, Serving, Deciding, Acting, RouteAfterQualification
      <3> QED
        BY <2>1, <2>2, <3>1, AdvanceSound DEF Nodes
    <2>4. CASE intent = "complaint"
      <3>1. /\ SoundAt(t, "COMPLAINT_FLOW")
            /\ RouteAfterQualification(t) = "COMPLAINT_FLOW"
        BY <1>1, <2>4
        DEF Session, SoundAt, Serving, Deciding, Acting, RouteAfterQualification
      <3> QED
        BY <2>1, <2>2, <3>1, AdvanceSound DEF Nodes
    <2>5. CASE intent = "other"
      <3>1. SoundAt(t, "CONFIRMATION") /\ RouteAfterQualification(t) = "CONFIRMATION"
        BY <1>1, <2>5 DEF Session, SoundAt, Serving, Deciding, Acting, ReadyFor,
                          RouteAfterQualification
      <3> QED
        BY <2>1, <2>2, <3>1, AdvanceSound DEF Nodes
    <2> QED
      BY <2>3, <2>4, <2>5
  <1>3. CASE AskIntent(w)
    <2> DEFINE a == [c EXCEPT !.reform = @ + 1]
    <2>1. a \in Session /\ a.reform = c.reform + 1 /\ a.escalated = c.escalated
      BY <1>1 DEF Session
    <2>2. CASE a.reform <= MaxClarifications
      <3>1. SoundAt(a, "QUALIFICATION") /\ RouteAfterQualification(a) = "QUALIFICATION"
        BY <1>1, <2>2 DEF Session, SoundAt, Serving, Deciding, Acting,
                          MaxClarifications, RouteAfterQualification
      <3>2. Advance(w, a, "QUALIFICATION")
        BY <1>3, <2>2, <3>1 DEF AskIntent, c
      <3> QED
        BY <2>1, <3>1, <3>2, AdvanceSound DEF Nodes
    <2>3. CASE ~(a.reform <= MaxClarifications)
      <3> DEFINE t == Escalated(a, "qualification_unclear")
      <3>1. Advance(w, t, RouteAfterQualification(t))
        BY <1>3, <2>3 DEF AskIntent, c
      <3> HIDE DEF a
      <3>2. t.escalated
        BY <2>1, EscalatedSound DEF EscalationReasons
      <3>3. RouteAfterQualification(t) = "ESCALATION"
        BY <3>2 DEF RouteAfterQualification
      <3> QED
        BY <2>1, <3>1, <3>3, EscalationMove DEF EscalationReasons
    <2> QED
      BY <2>2, <2>3
  <1> QED
    BY <1>2, <1>3

LEMMA ReturnFlowSound ==
    ASSUME NEW w \in Turns, StandsAt(w, "RETURN_FLOW"), CollectReturn(w)
    PROVE  MovesSoundly(w)
  <1> DEFINE c == st[w]
  <1>1. c \in Session /\ SoundAt(c, "RETURN_FLOW")
    BY DEF StandsAt, Sound, Where
  <1>2. PICK reason \in {"listed", "other"} :
           Advance(w, [c EXCEPT !.reason = reason], "VERIFICATION")
    BY DEF CollectReturn
  <1> DEFINE t == [c EXCEPT !.reason = reason]
  <1>3. t \in Session /\ SoundAt(t, "VERIFICATION")
    BY <1>1 DEF Session, Reasons, SoundAt, Serving, Deciding, Acting
  <1> QED
    BY <1>2, <1>3, AdvanceSound DEF Nodes

LEMMA ComplaintFlowSound ==
    ASSUME NEW w \in Turns, StandsAt(w, "COMPLAINT_FLOW"),
           AskDescription(w) \/ CollectComplaint(w)
    PROVE  MovesSoundly(w)
  <1> DEFINE c == st[w]
  <1>1. c \in Session /\ SoundAt(c, "COMPLAINT_FLOW")
    BY DEF StandsAt, Sound, Where
  <1> HIDE DEF c
  <1>2. CASE AskDescription(w)
    <2> DEFINE t == [c EXCEPT !.reform = @ + 1, !.vague = TRUE]
    <2>1. c.reform < MaxClarifications /\ Advance(w, t, RouteAfterComplaintFlow(t))
      BY <1>2 DEF AskDescription, c
    <2>2. /\ t \in Session
          /\ t.reform = c.reform + 1
          /\ t.reform \in Nat /\ c.reform \in Nat
      <3>1. c.reform \in Nat /\ c.reform + 1 \in Nat
        BY <1>1 DEF Session
      <3> DEFINE n == c.reform + 1
      <3>2. t = [c EXCEPT !.reform = n, !.vague = TRUE] /\ n \in Nat
        BY <3>1
      <3> HIDE DEF n, t
      <3>3. t \in Session /\ t.reform = n
        BY <1>1, <3>2 DEF Session
      <3> QED
        BY <3>1, <3>3 DEF n
    <2>3. SoundAt(t, "COMPLAINT_FLOW")
      BY <1>1, <2>1, <2>2
      DEF Session, SoundAt, Serving, Deciding, Acting, MaxClarifications
    <2>4. RouteAfterComplaintFlow(t) = "COMPLAINT_FLOW"
      BY <1>1 DEF RouteAfterComplaintFlow, Session, SoundAt, Serving
    <2> HIDE DEF t
    <2> QED
      BY <2>1, <2>2, <2>3, <2>4, AdvanceSound DEF Nodes
  <1>3. CASE CollectComplaint(w)
    <2>1. PICK reason \in {"listed", "other"} :
             Move(w, "RECORD_COMPLAINT", [c EXCEPT !.reason = reason])
      BY <1>3 DEF CollectComplaint, c
    <2> DEFINE t == [c EXCEPT !.reason = reason]
    <2>2. t \in Session /\ SoundAt(t, "RECORD_COMPLAINT")
      BY <1>1 DEF Session, Reasons, SoundAt, Serving, Deciding, Acting
    <2> QED
      BY <2>1, <2>2 DEF MovesSoundly, Points, Sound, Where
  <1> QED
    BY <1>2, <1>3

LEMMA RecordSound ==
    ASSUME NEW w \in Turns, StandsAt(w, "RECORD_COMPLAINT"), RecordComplaint(w)
    PROVE  MovesSoundly(w)
  <1> DEFINE c == st[w]
  <1>1. c \in Session /\ SoundAt(c, "RECORD_COMPLAINT")
    BY DEF StandsAt, Sound, Where
  <1> HIDE DEF c
  <1> DEFINE flagged == Escalated(c, "repeated_complaint")
             clear == [c EXCEPT !.vague = FALSE]
  <1>2. \/ Advance(w, flagged, RouteAfterComplaintFlow(flagged))
        \/ Advance(w, clear, RouteAfterComplaintFlow(clear))
    BY DEF RecordComplaint, c
  <1>3. CASE Advance(w, flagged, RouteAfterComplaintFlow(flagged))
    <2>1. RouteAfterComplaintFlow(flagged) = "ESCALATION"
      BY <1>1, EscalatedSound DEF RouteAfterComplaintFlow, EscalationReasons
    <2> QED
      BY <1>1, <1>3, <2>1, EscalationMove DEF EscalationReasons
  <1>4. CASE Advance(w, clear, RouteAfterComplaintFlow(clear))
    <2>1. clear \in Session /\ SoundAt(clear, "VERIFICATION")
      BY <1>1 DEF Session, SoundAt, Serving, Deciding, Acting
    <2>2. RouteAfterComplaintFlow(clear) = "VERIFICATION"
      BY <1>1 DEF RouteAfterComplaintFlow, Session, SoundAt, Serving
    <2> QED
      BY <1>4, <2>1, <2>2, AdvanceSound DEF Nodes
  <1> QED
    BY <1>2, <1>3, <1>4

LEMMA VerificationSound ==
    ASSUME NEW w \in Turns, StandsAt(w, "VERIFICATION"),
           Verify(w) \/ VerificationUnavailable(w)
    PROVE  MovesSoundly(w)
  <1> DEFINE c == st[w]
  <1>1. c \in Session /\ SoundAt(c, "VERIFICATION")
    BY DEF StandsAt, Sound, Where
  <1> HIDE DEF c
  <1>2. CASE Verify(w)
    <2>1. PICK verdict \in Verdicts \ {"none"} :
             Advance(w, [c EXCEPT !.verdict = verdict],
                     RouteAfterVerification([c EXCEPT !.verdict = verdict]))
      BY <1>2 DEF Verify, c
    <2> DEFINE t == [c EXCEPT !.verdict = verdict]
    <2>2. t \in Session /\ SoundAt(t, "DECISION")
      BY <1>1 DEF Session, SoundAt, Serving, Deciding, Acting
    <2>3. RouteAfterVerification(t) = "DECISION"
      BY <1>1 DEF RouteAfterVerification, Session, SoundAt, Serving
    <2> QED
      BY <2>1, <2>2, <2>3, AdvanceSound DEF Nodes
  <1>3. CASE VerificationUnavailable(w)
    <2>1. Advance(w, Escalated(c, "service_unavailable"), "ESCALATION")
      BY <1>1, <1>3, EscalatedSound
      DEF VerificationUnavailable, RouteAfterVerification, EscalationReasons, c
    <2> QED
      BY <1>1, <2>1, EscalationMove DEF EscalationReasons
  <1> QED
    BY <1>2, <1>3

LEMMA DecisionSound ==
    ASSUME NEW w \in Turns, StandsAt(w, "DECISION"), Decide(w)
    PROVE  MovesSoundly(w)
  <1> DEFINE c == st[w]
             d == [c EXCEPT !.decision = "escalated"]
  <1>1. c \in Session /\ SoundAt(c, "DECISION")
    BY DEF StandsAt, Sound, Where
  <1>2. c.verdict \in {"ineligible", "auto", "amount", "warranty"}
    BY <1>1 DEF Session, Verdicts, SoundAt
  <1>3. d \in Session /\ d.decision = "escalated"
    BY <1>1 DEF Session, Decisions
  <1>4. CASE c.verdict = "ineligible"
    <2> DEFINE t == [c EXCEPT !.decision = "refused"]
    <2>1. Advance(w, t, "CONFIRMATION")
      BY <1>1, <1>4 DEF Decide, RouteAfterDecision, Session
    <2>2. t \in Session /\ SoundAt(t, "CONFIRMATION")
      BY <1>1, <1>4
      DEF Session, Decisions, SoundAt, Serving, Deciding, Acting, ReadyFor
    <2> QED
      BY <2>1, <2>2, AdvanceSound DEF Nodes
  <1>5. CASE c.verdict = "auto"
    <2> DEFINE t == [c EXCEPT !.decision = "auto"]
    <2>1. Advance(w, t, "AUTO_ACTION")
      BY <1>1, <1>5 DEF Decide, RouteAfterDecision, Session
    <2>2. t \in Session /\ SoundAt(t, "AUTO_ACTION")
      BY <1>1, <1>5 DEF Session, Decisions, SoundAt, Serving, Deciding, Acting
    <2> QED
      BY <2>1, <2>2, AdvanceSound DEF Nodes
  <1>6. ASSUME NEW reason \in {"amount_above_threshold", "legal_warranty"}
        PROVE  RouteAfterDecision(Escalated(d, reason)) = "ESCALATION"
    <2> HIDE DEF d
    <2>1. Escalated(d, reason).decision = "escalated"
      BY <1>3 DEF Escalated, Session
    <2> QED
      BY <2>1 DEF RouteAfterDecision
  <1>7. CASE c.verdict = "amount"
    <2>1. Advance(w, Escalated(d, "amount_above_threshold"), "ESCALATION")
      BY <1>6, <1>7 DEF Decide
    <2> QED
      BY <1>3, <2>1, EscalationMove DEF EscalationReasons
  <1>8. CASE c.verdict = "warranty"
    <2>1. Advance(w, Escalated(d, "legal_warranty"), "ESCALATION")
      BY <1>6, <1>8 DEF Decide
    <2> QED
      BY <1>3, <2>1, EscalationMove DEF EscalationReasons
  <1> QED
    BY <1>2, <1>4, <1>5, <1>7, <1>8

LEMMA AutoActionSound ==
    ASSUME NEW w \in Turns,
           \/ /\ StandsAt(w, "AUTO_ACTION")
              /\ CreateReturnLabel(w) \/ FailReturnLabel(w)
           \/ /\ StandsAt(w, "TRIGGER_REFUND")
              /\ TriggerRefund(w) \/ FailRefund(w)
    PROVE  MovesSoundly(w)
  <1> DEFINE c == st[w]
  <1>1. c \in Session /\ SoundAt(c, pc[w]) /\ pc[w] \in Acting
    BY DEF StandsAt, Sound, Where, Acting
  <1> HIDE DEF c
  <1>2. CASE CreateReturnLabel(w)
    <2>1. Move(w, "TRIGGER_REFUND", c)
      BY <1>2 DEF CreateReturnLabel, c
    <2>2. SoundAt(c, "TRIGGER_REFUND")
      BY <1>1 DEF SoundAt, Serving, Deciding, Acting
    <2> QED
      BY <1>1, <2>1, <2>2 DEF MovesSoundly, Points, Sound, Where
  <1>3. CASE FailReturnLabel(w) \/ FailRefund(w)
    <2>1. Advance(w, Escalated(c, "technical_action_failed"), "ESCALATION")
      BY <1>1, <1>3, EscalatedSound
      DEF FailReturnLabel, FailRefund, RouteAfterAutoAction, EscalationReasons, c
    <2> QED
      BY <1>1, <2>1, EscalationMove DEF EscalationReasons
  <1>4. CASE TriggerRefund(w)
    <2> DEFINE t == [c EXCEPT !.settled = TRUE, !.referenced = TRUE]
    <2>1. t \in Session /\ SoundAt(t, "CONFIRMATION")
      BY <1>1 DEF Session, SoundAt, Serving, Deciding, Acting, ReadyFor
    <2>2. RouteAfterAutoAction(t) = "CONFIRMATION"
      BY <1>1 DEF RouteAfterAutoAction, Session, SoundAt, Serving, Acting
    <2>3. Advance(w, t, "CONFIRMATION")
      BY <1>4, <2>2 DEF TriggerRefund, c
    <2> QED
      BY <2>1, <2>3, AdvanceSound DEF Nodes
  <1> QED
    BY <1>2, <1>3, <1>4

LEMMA EscalationSound ==
    ASSUME NEW w \in Turns,
           \/ /\ StandsAt(w, "ESCALATION")
              /\ CreateTicket(w) \/ FailTicket(w)
           \/ StandsAt(w, "NOTIFY") /\ Notify(w)
    PROVE  MovesSoundly(w)
  <1> DEFINE c == st[w]
  <1>1. c \in Session /\ SoundAt(c, pc[w]) /\ pc[w] \in {"ESCALATION", "NOTIFY"}
    BY DEF StandsAt, Sound, Where
  <1> HIDE DEF c
  <1>2. CASE CreateTicket(w)
    <2>1. Move(w, "NOTIFY", c)
      BY <1>2 DEF CreateTicket, c
    <2>2. SoundAt(c, "NOTIFY")
      BY <1>1 DEF SoundAt, Serving, Deciding, Acting
    <2> QED
      BY <1>1, <2>1, <2>2 DEF MovesSoundly, Points, Sound, Where
  <1>3. CASE FailTicket(w) \/ Notify(w)
    <2>1. PICK told \in BOOLEAN : Advance(w, HandedOver(c, told), "CONFIRMATION")
      BY <1>3 DEF FailTicket, Notify, c
    <2>2. HandedOver(c, told) \in Session /\ HandedOver(c, told).escalated
      BY <1>1 DEF HandedOver, Session
    <2>3. SoundAt(HandedOver(c, told), "CONFIRMATION")
      BY <2>2 DEF SoundAt, Serving, Deciding, Acting, ReadyFor
    <2> QED
      BY <2>1, <2>2, <2>3, AdvanceSound DEF Nodes
  <1> QED
    BY <1>2, <1>3

LEMMA ConfirmationSound ==
    ASSUME NEW w \in Turns, StandsAt(w, "CONFIRMATION"),
           Confirm(w) \/ ConfirmRefusal(w)
    PROVE  MovesSoundly(w)
  <1> DEFINE c == st[w]
  <1>1. c \in Session /\ SoundAt(c, "CONFIRMATION")
    BY DEF StandsAt, Sound, Where
  <1> HIDE DEF c
  <1>2. PICK referenced \in BOOLEAN :
           Move(w, "SAVE", [c EXCEPT !.node = "CONFIRMATION",
                                     !.referenced = referenced])
    <2>1. CASE Confirm(w)
      <3>1. [c EXCEPT !.node = "CONFIRMATION"] =
               [c EXCEPT !.node = "CONFIRMATION", !.referenced = c.referenced]
        BY <1>1 DEF Session
      <3> QED
        BY <1>1, <2>1, <3>1 DEF Confirm, Session, c
    <2>2. CASE ConfirmRefusal(w)
      <3>1. c.referenced \in BOOLEAN
        BY <1>1 DEF Session
      <3> QED
        BY <2>2, <3>1 DEF ConfirmRefusal, c
    <2> QED
      BY <2>1, <2>2
  <1> DEFINE t == [c EXCEPT !.node = "CONFIRMATION", !.referenced = referenced]
  <1>3. t \in Session /\ t.node = "CONFIRMATION" /\ SoundAt(t, "CONFIRMATION")
    BY <1>1 DEF Session, Nodes, SoundAt, Serving, Deciding, Acting, ReadyFor
  <1>4. Sound(t, "SAVE")
    BY <1>3 DEF Sound, Where, Resumable
  <1> QED
    BY <1>2, <1>3, <1>4 DEF MovesSoundly, Points

-----------------------------------------------------------------------------
(* The invariant of the copies, and the steps of the whole system.         *)

SoundInv ==
    /\ \A w \in Turns :
          pc[w] # "idle" => of[w] \in Sessions /\ Sound(st[w], pc[w])
    /\ \A s \in Saved : Sound(store[s], "SAVE")

IInv == TypeOK /\ SoundInv

\* The steps of a turn that go on with a copy of the session.
Computes(w) ==
    \/ Greet(w) \/ HoldIdentification(w) \/ Identify(w)
    \/ FailIdentification(w) \/ IdentificationUnavailable(w)
    \/ Qualify(w) \/ AskIntent(w)
    \/ CollectReturn(w)
    \/ AskDescription(w) \/ CollectComplaint(w)
    \/ RecordComplaint(w)
    \/ Verify(w) \/ VerificationUnavailable(w) \/ Decide(w)
    \/ CreateReturnLabel(w) \/ FailReturnLabel(w)
    \/ TriggerRefund(w) \/ FailRefund(w)
    \/ CreateTicket(w) \/ FailTicket(w) \/ Notify(w)
    \/ Confirm(w) \/ ConfirmRefusal(w)

\* The steps that end a turn without saving.
Drops(w) == DropOnFailure(w) \/ LoseComplaint(w) \/ Crash(w)

LEMMA NextCases ==
    ASSUME Next
    PROVE  \/ \E w \in Turns : Computes(w) \/ Drops(w) \/ Save(w) \/ TurnAway(w)
           \/ \E w \in Turns, s \in Sessions : Receive(w, s)
           \/ \E s \in Sessions : Expire(s)
  BY DEF Next, Step, Computes, Drops

\* Every node keeps the copy sound and leaves Redis alone.
LEMMA ComputesSound ==
    ASSUME IInv, NEW w \in Turns, Computes(w)
    PROVE  /\ MovesSoundly(w)
           /\ pc[w] # "idle"
           /\ UNCHANGED <<store, of, sent, lost, expired>>
  <1>1. StandsAt(w, pc[w]) \/ pc[w] = "idle"
    BY DEF IInv, TypeOK, SoundInv, StandsAt
  <1>2. CASE Greet(w)
    <2>1. pc[w] = "GREETING" /\ UNCHANGED <<store, of, sent, lost, expired>>
      BY <1>2 DEF Greet, Quiet, history
    <2> QED
      BY <1>1, <1>2, <2>1, GreetingSound
  <1>3. CASE \/ HoldIdentification(w) \/ Identify(w)
             \/ FailIdentification(w) \/ IdentificationUnavailable(w)
    <2>1. pc[w] = "IDENTIFICATION" /\ UNCHANGED <<store, of, sent, lost, expired>>
      BY <1>3 DEF HoldIdentification, Identify, FailIdentification,
                  IdentificationUnavailable, Quiet, history
    <2> QED
      BY <1>1, <1>3, <2>1, IdentificationSound
  <1>4. CASE Qualify(w) \/ AskIntent(w)
    <2>1. pc[w] = "QUALIFICATION" /\ UNCHANGED <<store, of, sent, lost, expired>>
      BY <1>4 DEF Qualify, AskIntent, Quiet, history
    <2> QED
      BY <1>1, <1>4, <2>1, QualificationSound
  <1>5. CASE CollectReturn(w)
    <2>1. pc[w] = "RETURN_FLOW" /\ UNCHANGED <<store, of, sent, lost, expired>>
      BY <1>5 DEF CollectReturn, Quiet, history
    <2> QED
      BY <1>1, <1>5, <2>1, ReturnFlowSound
  <1>6. CASE AskDescription(w) \/ CollectComplaint(w)
    <2>1. pc[w] = "COMPLAINT_FLOW" /\ UNCHANGED <<store, of, sent, lost, expired>>
      BY <1>6 DEF AskDescription, CollectComplaint, Quiet, history
    <2> QED
      BY <1>1, <1>6, <2>1, ComplaintFlowSound
  <1>7. CASE RecordComplaint(w)
    <2>1. pc[w] = "RECORD_COMPLAINT" /\ UNCHANGED <<store, of, sent, lost, expired>>
      BY <1>7 DEF RecordComplaint, history
    <2> QED
      BY <1>1, <1>7, <2>1, RecordSound
  <1>8. CASE Verify(w) \/ VerificationUnavailable(w)
    <2>1. pc[w] = "VERIFICATION" /\ UNCHANGED <<store, of, sent, lost, expired>>
      BY <1>8 DEF Verify, VerificationUnavailable, Quiet, history
    <2> QED
      BY <1>1, <1>8, <2>1, VerificationSound
  <1>9. CASE Decide(w)
    <2>1. pc[w] = "DECISION" /\ UNCHANGED <<store, of, sent, lost, expired>>
      BY <1>9 DEF Decide, Quiet, history
    <2> QED
      BY <1>1, <1>9, <2>1, DecisionSound
  <1>10. CASE CreateReturnLabel(w) \/ FailReturnLabel(w)
    <2>1. pc[w] = "AUTO_ACTION" /\ UNCHANGED <<store, of, sent, lost, expired>>
      BY <1>10 DEF CreateReturnLabel, FailReturnLabel
    <2> QED
      BY <1>1, <1>10, <2>1, AutoActionSound
  <1>11. CASE TriggerRefund(w) \/ FailRefund(w)
    <2>1. pc[w] = "TRIGGER_REFUND" /\ UNCHANGED <<store, of, sent, lost, expired>>
      BY <1>11 DEF TriggerRefund, FailRefund, history
    <2> QED
      BY <1>1, <1>11, <2>1, AutoActionSound
  <1>12. CASE CreateTicket(w) \/ FailTicket(w)
    <2>1. pc[w] = "ESCALATION" /\ UNCHANGED <<store, of, sent, lost, expired>>
      BY <1>12 DEF CreateTicket, FailTicket
    <2> QED
      BY <1>1, <1>12, <2>1, EscalationSound
  <1>13. CASE Notify(w)
    <2>1. pc[w] = "NOTIFY" /\ UNCHANGED <<store, of, sent, lost, expired>>
      BY <1>13 DEF Notify, Quiet, history
    <2> QED
      BY <1>1, <1>13, <2>1, EscalationSound
  <1>14. CASE Confirm(w) \/ ConfirmRefusal(w)
    <2>1. pc[w] = "CONFIRMATION" /\ UNCHANGED <<store, of, sent, lost, expired>>
      BY <1>14 DEF Confirm, ConfirmRefusal, Quiet, history
    <2> QED
      BY <1>1, <1>14, <2>1, ConfirmationSound
  <1> QED
    BY <1>2, <1>3, <1>4, <1>5, <1>6, <1>7, <1>8, <1>9, <1>10, <1>11, <1>12,
       <1>13, <1>14 DEF Computes

\* A saved session is fit for the node it resumes at; so is a fresh one.
LEMMA ReceiveSound ==
    ASSUME NEW s, s = FreshSession \/ (s \in Session /\ Sound(s, "SAVE"))
    PROVE  s \in Session /\ s.node \in Points /\ s.node # "idle" /\ Sound(s, s.node)
  <1>1. CASE s = FreshSession
    BY <1>1 DEF FreshSession, Session, Nodes, Points, Intents, Reasons, Verdicts,
       Decisions, EscalationReasons, Sound, SoundAt, Where, Serving, Deciding,
       Acting, MaxIdentificationAttempts, MaxClarifications
  <1>2. CASE s \in Session /\ Sound(s, "SAVE")
    BY <1>2 DEF Session, Nodes, Points, Sound, Where
  <1> QED
    BY <1>1, <1>2

\* The half of TypeOK that the copies move in, and the half that counts.
ControlTypeOK ==
    /\ store \in [Sessions -> Session \union {NoSession}]
    /\ pc \in [Turns -> Points \union {"idle"}]
    /\ of \in [Turns -> Sessions \union {NoSession}]
    /\ st \in [Turns -> Session]
    /\ sent \in Nat

CountersOK ==
    /\ labels \in [Sessions -> Nat]
    /\ refunds \in [Sessions -> Nat]
    /\ tickets \in [Sessions -> Nat]
    /\ refusals \in [Sessions -> Nat]
    /\ complaints \in [Addresses -> Nat]
    /\ acted \in [Sessions -> Nat]
    /\ opened \in [Sessions -> Nat]
    /\ lost \in [Sessions -> Nat]
    /\ expired \in [Sessions -> Nat]

LEMMA FreshTyped == FreshSession \in Session
  BY DEF FreshSession, Session, Nodes, Intents, Reasons, Verdicts, Decisions,
         EscalationReasons

LEMMA InitIInv == Init => IInv
  BY FreshTyped DEF Init, IInv, TypeOK, SoundInv, Saved, Points

\* The copies: every step of the system keeps them typed and sound.
LEMMA ControlNext ==
    ASSUME IInv, [Next]_vars
    PROVE  ControlTypeOK' /\ SoundInv'
  <1> USE DEF IInv, TypeOK, SoundInv, ControlTypeOK, Saved
  <1>1. ASSUME NEW w \in Turns, Computes(w) PROVE ControlTypeOK' /\ SoundInv'
    <2>1. /\ MovesSoundly(w) /\ pc[w] # "idle"
          /\ UNCHANGED <<store, of, sent>>
      BY <1>1, ComputesSound
    <2>2. PICK p \in Points, s \in Session : Move(w, p, s) /\ Sound(s, p)
      BY <2>1 DEF MovesSoundly
    <2>3. ControlTypeOK'
      BY <2>1, <2>2 DEF Move
    <2>4. SoundInv'
      BY <2>1, <2>2 DEF Move
    <2> QED
      BY <2>3, <2>4
  <1>2. ASSUME NEW w \in Turns, Drops(w) PROVE ControlTypeOK' /\ SoundInv'
    <2>1. /\ Finish(w)
          /\ UNCHANGED <<store, sent>>
      BY <1>2 DEF Drops, DropOnFailure, LoseComplaint, Crash, Drop
    <2> QED
      BY <2>1, FreshTyped DEF Finish
  <1>3. ASSUME NEW w \in Turns, Save(w) PROVE ControlTypeOK' /\ SoundInv'
    <2>1. /\ Finish(w) /\ pc[w] = "SAVE" /\ sent' = sent
          /\ store' = [store EXCEPT ![of[w]] = st[w]]
      BY <1>3 DEF Save
    <2>2. of[w] \in Sessions /\ st[w] \in Session /\ Sound(st[w], "SAVE")
      BY <2>1
    <2>3. ControlTypeOK'
      BY <2>1, <2>2, FreshTyped DEF Finish
    <2>4. SoundInv'
      BY <2>1, <2>2 DEF Finish
    <2> QED
      BY <2>3, <2>4
  <1>4. ASSUME NEW w \in Turns, TurnAway(w) PROVE ControlTypeOK' /\ SoundInv'
    BY <1>4 DEF TurnAway
  <1>5. ASSUME NEW w \in Turns, NEW s \in Sessions, Receive(w, s)
        PROVE  ControlTypeOK' /\ SoundInv'
    <2> DEFINE c == IF store[s] = NoSession THEN FreshSession ELSE store[s]
    <2>1. c = FreshSession \/ (c \in Session /\ Sound(c, "SAVE"))
      OBVIOUS
    <2>2. /\ Move(w, c.node, c) /\ of' = [of EXCEPT ![w] = s]
          /\ store' = store /\ sent' = sent + 1
      BY <1>5 DEF Receive
    <2> HIDE DEF c
    <2>3. c \in Session /\ c.node \in Points /\ Sound(c, c.node)
      BY <2>1, ReceiveSound
    <2>4. ControlTypeOK'
      BY <2>2, <2>3 DEF Move
    <2>5. SoundInv'
      BY <2>2, <2>3 DEF Move
    <2> QED
      BY <2>4, <2>5
  <1>6. ASSUME NEW s \in Sessions, Expire(s) PROVE ControlTypeOK' /\ SoundInv'
    BY <1>6 DEF Expire
  <1>7. CASE UNCHANGED vars
    BY <1>7 DEF vars
  <1> QED
    BY <1>1, <1>2, <1>3, <1>4, <1>5, <1>6, <1>7, NextCases

\* What the back office and the history can do in a step: they keep their
\* types, and no count goes back.
Grows(f, g, S) == g \in [S -> Nat] /\ \A x \in S : g[x] >= f[x]

CountersGrow ==
    /\ Grows(labels, labels', Sessions)
    /\ Grows(refunds, refunds', Sessions)
    /\ Grows(tickets, tickets', Sessions)
    /\ Grows(refusals, refusals', Sessions)
    /\ Grows(complaints, complaints', Addresses)
    /\ Grows(acted, acted', Sessions)
    /\ Grows(opened, opened', Sessions)
    /\ Grows(lost, lost', Sessions)
    /\ Grows(expired, expired', Sessions)

LEMMA GrowsBy ==
    ASSUME NEW S, NEW f \in [S -> Nat], NEW x \in S, NEW k \in Nat
    PROVE  Grows(f, [f EXCEPT ![x] = @ + k], S)
  BY DEF Grows

LEMMA GrowsNone ==
    ASSUME NEW S, NEW f \in [S -> Nat]
    PROVE  Grows(f, f, S)
  BY DEF Grows

LEMMA RunsNat == ASSUME NEW ok \in BOOLEAN PROVE Runs(ok) \subseteq Nat
  BY TurnAssumption DEF Runs

LEMMA CountersNext ==
    ASSUME IInv, [Next]_vars
    PROVE  CountersGrow
  <1>1. CountersOK
    BY DEF IInv, TypeOK, CountersOK
  <1>2. ASSUME NEW w \in Turns, pc[w] # "idle"
        PROVE  of[w] \in Sessions
    BY <1>2 DEF IInv, SoundInv
  <1>3. Runs(TRUE) \subseteq Nat /\ Runs(FALSE) \subseteq Nat
    BY RunsNat
  <1>18. ASSUME NEW w \in Turns, pc[w] \in {"COMPLAINT_FLOW", "RECORD_COMPLAINT"}
         PROVE  st[w].order.email \in Addresses
    <2>1. st[w] \in Session /\ st[w].order # NoOrder
      BY <1>18 DEF IInv, TypeOK, SoundInv, Sound, SoundAt, Where, Serving
    <2> QED
      BY <2>1 DEF Session, Orders
  <1> USE DEF CountersOK, CountersGrow
  <1>4. CASE UNCHANGED <<backend, history>>
    BY <1>1, <1>4, SMTT(30) DEF Grows, backend, history
  <1>5. ASSUME NEW w \in Turns,
               Greet(w) \/ HoldIdentification(w) \/ Identify(w)
               \/ FailIdentification(w) \/ IdentificationUnavailable(w)
               \/ Qualify(w) \/ AskIntent(w) \/ CollectReturn(w)
               \/ AskDescription(w) \/ CollectComplaint(w)
               \/ Verify(w) \/ VerificationUnavailable(w) \/ Decide(w) \/ Notify(w) \/ Confirm(w) \/ Save(w) \/ TurnAway(w)
        PROVE  UNCHANGED <<backend, history>>
    BY <1>5 DEF Greet, HoldIdentification, Identify, FailIdentification,
       IdentificationUnavailable, Qualify, AskIntent, CollectReturn,
       AskDescription, CollectComplaint, Verify, VerificationUnavailable, Decide,
       Notify, Confirm, Save, TurnAway, Quiet
  <1>7. ASSUME NEW w \in Turns, RecordComplaint(w)
        PROVE  CountersGrow
    <2>1. PICK k \in Nat : complaints' = [complaints EXCEPT ![st[w].order.email] = @ + k]
      BY <1>3, <1>7, RunsNat DEF RecordComplaint, Ran
    <2>2. pc[w] = "RECORD_COMPLAINT"
      BY <1>7 DEF RecordComplaint
    <2>3. Grows(complaints, complaints', Addresses)
      BY <1>1, <1>18, <2>1, <2>2, GrowsBy
    <2>4. UNCHANGED <<labels, refunds, tickets, refusals, acted, opened, lost, expired>>
      BY <1>7 DEF RecordComplaint, backend, history
    <2> QED
      BY <1>1, <2>3, <2>4, GrowsNone
  <1>8. ASSUME NEW w \in Turns, CreateReturnLabel(w) \/ FailReturnLabel(w)
        PROVE  CountersGrow
    <2>1. PICK k \in Nat : labels' = [labels EXCEPT ![of[w]] = @ + k]
      BY <1>3, <1>8, RunsNat DEF CreateReturnLabel, FailReturnLabel, Ran, CreateReturn
    <2>2. pc[w] # "idle"
      BY <1>8 DEF CreateReturnLabel, FailReturnLabel
    <2>3. Grows(labels, labels', Sessions)
      BY <1>1, <1>2, <2>1, <2>2, GrowsBy
    <2>4. acted' = [acted EXCEPT ![of[w]] = @ + 1]
      BY <1>8 DEF CreateReturnLabel, FailReturnLabel, Once
    <2>5. Grows(acted, acted', Sessions)
      BY <1>1, <1>2, <2>2, <2>4, GrowsBy
    <2>6. UNCHANGED <<refunds, tickets, refusals, complaints, opened, lost, expired>>
      BY <1>8 DEF CreateReturnLabel, FailReturnLabel, backend, history
    <2> QED
      BY <1>1, <2>3, <2>5, <2>6, GrowsNone
  <1>9. ASSUME NEW w \in Turns, TriggerRefund(w) \/ FailRefund(w)
        PROVE  CountersGrow
    <2>1. PICK k \in Nat : refunds' = [refunds EXCEPT ![of[w]] = @ + k]
      BY <1>3, <1>9, RunsNat DEF TriggerRefund, FailRefund, Ran, Refund
    <2>2. pc[w] # "idle"
      BY <1>9 DEF TriggerRefund, FailRefund
    <2>3. Grows(refunds, refunds', Sessions)
      BY <1>1, <1>2, <1>9, <2>1, <2>2, GrowsBy DEF TriggerRefund, FailRefund, Once
    <2>4. UNCHANGED <<labels, tickets, refusals, complaints, acted, opened, lost, expired>>
      BY <1>9 DEF TriggerRefund, FailRefund, backend, history
    <2> QED
      BY <1>1, <2>3, <2>4, GrowsNone
  <1>10. ASSUME NEW w \in Turns, CreateTicket(w) \/ FailTicket(w)
        PROVE  CountersGrow
    <2>1. PICK k \in Nat : tickets' = [tickets EXCEPT ![of[w]] = @ + k]
      BY <1>3, <1>10, RunsNat DEF CreateTicket, FailTicket, Ran, OpenTicket
    <2>2. pc[w] # "idle"
      BY <1>10 DEF CreateTicket, FailTicket
    <2>3. Grows(tickets, tickets', Sessions)
      BY <1>1, <1>2, <2>1, <2>2, GrowsBy
    <2>4. opened' = [opened EXCEPT ![of[w]] = @ + 1]
      BY <1>10 DEF CreateTicket, FailTicket, Once
    <2>5. Grows(opened, opened', Sessions)
      BY <1>1, <1>2, <2>2, <2>4, GrowsBy
    <2>6. UNCHANGED <<labels, refunds, refusals, complaints, acted, lost, expired>>
      BY <1>10 DEF CreateTicket, FailTicket, backend, history
    <2> QED
      BY <1>1, <2>3, <2>5, <2>6, GrowsNone
  <1>11. ASSUME NEW w \in Turns, ConfirmRefusal(w)
        PROVE  CountersGrow
    <2>1. PICK k \in Nat : refusals' = [refusals EXCEPT ![of[w]] = @ + k]
      BY <1>3, <1>11, RunsNat DEF ConfirmRefusal, Ran, RecordRefusal
    <2>2. pc[w] # "idle"
      BY <1>11 DEF ConfirmRefusal
    <2>3. Grows(refusals, refusals', Sessions)
      BY <1>1, <1>2, <1>11, <2>1, <2>2, GrowsBy DEF ConfirmRefusal, Once
    <2>4. UNCHANGED <<labels, refunds, tickets, complaints, acted, opened, lost, expired>>
      BY <1>11 DEF ConfirmRefusal, backend, history
    <2> QED
      BY <1>1, <2>3, <2>4, GrowsNone
  <1>12. ASSUME NEW w \in Turns, DropOnFailure(w) \/ Crash(w) PROVE CountersGrow
    <2>1. Grows(lost, lost', Sessions)
      BY <1>1, <1>2, <1>3, <1>12, GrowsBy DEF DropOnFailure, Crash, Drop, Ran, Once
    <2>2. UNCHANGED <<labels, refunds, tickets, refusals, complaints, acted, opened, expired>>
      BY <1>12 DEF DropOnFailure, Crash, Drop, backend, history
    <2> QED
      BY <1>1, <2>1, <2>2, GrowsNone
  <1>13. ASSUME NEW w \in Turns, LoseComplaint(w)
        PROVE  CountersGrow
    <2>1. PICK k \in Nat : complaints' = [complaints EXCEPT ![st[w].order.email] = @ + k]
      BY <1>3, <1>13, RunsNat DEF LoseComplaint, Drop, Ran
    <2>2. pc[w] = "RECORD_COMPLAINT"
      BY <1>13 DEF LoseComplaint
    <2>3. Grows(complaints, complaints', Addresses)
      BY <1>1, <1>18, <2>1, <2>2, GrowsBy
    <2>4. lost' = [lost EXCEPT ![of[w]] = @ + 1]
      BY <1>13 DEF LoseComplaint, Drop, Once
    <2>5. Grows(lost, lost', Sessions)
      BY <1>1, <1>2, <2>2, <2>4, GrowsBy
    <2>6. UNCHANGED <<labels, refunds, tickets, refusals, acted, opened, expired>>
      BY <1>13 DEF LoseComplaint, Drop, backend, history
    <2> QED
      BY <1>1, <2>3, <2>5, <2>6, GrowsNone
  <1>14. ASSUME NEW w \in Turns, NEW s \in Sessions, Receive(w, s)
         PROVE  UNCHANGED <<backend, history>>
    BY <1>14 DEF Receive
  <1>15. ASSUME NEW s \in Sessions, Expire(s) PROVE CountersGrow
    <2>1. Grows(expired, expired', Sessions)
      BY <1>1, <1>15, GrowsBy DEF Expire, Once
    <2>2. UNCHANGED <<labels, refunds, tickets, refusals, complaints, acted,
                      opened, lost>>
      BY <1>15 DEF Expire, backend
    <2> QED
      BY <1>1, <2>1, <2>2, GrowsNone
  <1>16. ASSUME NEW w \in Turns, Computes(w) PROVE CountersGrow
    BY <1>4, <1>5, <1>7, <1>8, <1>9, <1>10, <1>11, <1>16 DEF Computes
  <1>17. CASE UNCHANGED vars
    BY <1>4, <1>17 DEF vars
  <1> QED
    BY <1>4, <1>5, <1>12, <1>13, <1>14, <1>15, <1>16, <1>17, NextCases DEF Drops

LEMMA NextIInv == IInv /\ [Next]_vars => IInv'
  <1> SUFFICES ASSUME IInv, [Next]_vars PROVE IInv'
    OBVIOUS
  <1>1. ControlTypeOK' /\ SoundInv' /\ CountersGrow
    BY ControlNext, CountersNext
  <1>2. CountersOK'
    BY <1>1 DEF CountersGrow, Grows, CountersOK
  <1> QED
    BY <1>1, <1>2 DEF IInv, TypeOK, ControlTypeOK, CountersOK

LEMMA Invariance == Spec => []IInv
  BY InitIInv, NextIInv, PTL DEF Spec

-----------------------------------------------------------------------------
\* Redis, the copies of the turns and the counts keep their types.
THEOREM TypeCorrect == Spec => []TypeOK
  <1>1. IInv => TypeOK
    BY DEF IInv
  <1> QED
    BY <1>1, Invariance, PTL

\* A conversation can always go on: what is saved, whichever turns overlapped
\* or were dropped, is what the node it resumes at needs.
THEOREM SavedSessionsAlwaysResume == Spec => []SavedSessionsResume
  <1>1. IInv => SavedSessionsResume
    <2> SUFFICES ASSUME IInv, NEW s \in Saved
                 PROVE  /\ store[s].node \in RequiresFreshInput \union {"CONFIRMATION"}
                        /\ ReadyFor(store[s], store[s].node)
      BY DEF SavedSessionsResume
    <2> DEFINE c == store[s]
    <2>1. c \in Session /\ c.node \in Resumable /\ SoundAt(c, c.node)
      BY DEF IInv, TypeOK, SoundInv, Saved, Sound, Where
    <2> HIDE DEF c
    <2>2. c.reform \in Nat /\ c.attempts \in Nat
      BY <2>1 DEF Session
    <2>3. ReadyFor(c, c.node)
      BY <2>1, <2>2
      DEF Resumable, RequiresFreshInput, SoundAt, Serving, Deciding, Acting,
          ReadyFor, MaxIdentificationAttempts, MaxClarifications
    <2> QED
      BY <2>1, <2>3 DEF c, Resumable
  <1> QED
    BY <1>1, Invariance, PTL

\* Labels and refunds are made only for an identified customer whose request
\* Java approved (auto_action_node is reached in no other way).
THEOREM ActionsAlwaysAuthorised == Spec => ActionsAreAuthorised
  <1> DEFINE Authorised(s) ==
                \E w \in Turns :
                    /\ of[w] = s
                    /\ st[w].order # NoOrder
                    /\ st[w].intent \in {"return", "complaint"}
                    /\ st[w].verdict = "auto"
                    /\ st[w].decision = "auto"
                    /\ ~st[w].escalated
             Acts(w) == \/ CreateReturnLabel(w) \/ FailReturnLabel(w)
                        \/ TriggerRefund(w) \/ FailRefund(w)
  <1>1. ASSUME NEW w \in Turns, IInv, Acts(w)
        PROVE  Authorised(of[w])
    <2>1. pc[w] \in Acting
      BY <1>1 DEF CreateReturnLabel, FailReturnLabel, TriggerRefund, FailRefund, Acting
    <2>2. SoundAt(st[w], pc[w])
      BY <1>1, <2>1 DEF IInv, SoundInv, Sound, Where, Acting
    <2> QED
      BY <2>1, <2>2 DEF SoundAt, Serving, Deciding, Acting
  <1>2. ASSUME IInv, [Next]_vars, ~\E w \in Turns : Acts(w)
        PROVE  UNCHANGED <<labels, refunds>>
    <2>1. ASSUME NEW w \in Turns, Computes(w), ~Acts(w)
          PROVE  UNCHANGED <<labels, refunds>>
      BY <2>1
      DEF Computes, Greet, HoldIdentification, Identify, FailIdentification,
          IdentificationUnavailable, Qualify, AskIntent, CollectReturn,
          AskDescription, CollectComplaint, RecordComplaint, Verify,
          VerificationUnavailable, Decide, CreateTicket, FailTicket, Notify,
          Confirm, ConfirmRefusal, Quiet, backend
    <2>2. ASSUME NEW w \in Turns, Drops(w) \/ Save(w) \/ TurnAway(w)
          PROVE  UNCHANGED <<labels, refunds>>
      BY <2>2
      DEF Drops, DropOnFailure, LoseComplaint, Crash, Save, TurnAway, backend
    <2>3. ASSUME NEW w \in Turns, NEW s \in Sessions, Receive(w, s)
          PROVE  UNCHANGED <<labels, refunds>>
      BY <2>3 DEF Receive, backend
    <2>4. ASSUME NEW s \in Sessions, Expire(s) PROVE UNCHANGED <<labels, refunds>>
      BY <2>4 DEF Expire, backend
    <2>5. CASE UNCHANGED vars
      BY <2>5 DEF vars, backend
    <2> QED
      BY <1>2, <2>1, <2>2, <2>3, <2>4, <2>5, NextCases
  <1>3. ASSUME NEW w \in Turns, NEW s \in Sessions, IInv, Acts(w), s # of[w]
        PROVE  labels'[s] = labels[s] /\ refunds'[s] = refunds[s]
    BY <1>3 DEF IInv, TypeOK, CreateReturnLabel, FailReturnLabel, TriggerRefund,
       FailRefund, Ran, CreateReturn, Refund
  <1> HIDE DEF Acts, Authorised
  <1>4. IInv /\ [Next]_vars =>
           [\A s \in Sessions :
               labels'[s] # labels[s] \/ refunds'[s] # refunds[s] => Authorised(s)]_vars
    BY <1>1, <1>2, <1>3
  <1> QED
    BY <1>4, Invariance, PTL DEF Spec, ActionsAreAuthorised, Authorised
=============================================================================
