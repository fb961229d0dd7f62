------------------------------ MODULE AgentTurn ------------------------------
(***************************************************************************)
(* The agent's conversation engine: POST /v1/messages (main.py) and the    *)
(* node graph it runs (agent/graph.py, agent/states/, agent/tools/).       *)
(*                                                                         *)
(* A turn reads the session from Redis, runs one node after another on its *)
(* own copy, and writes the copy back when the next node needs a message   *)
(* from the customer.  Nothing locks the session in between, so the turns  *)
(* of one session interleave at every external call; Turns is the set of   *)
(* turns that can be in flight together, and a set of one is a Gateway     *)
(* that never overlaps two messages.  A turn may be dropped at every step, *)
(* by a failure no node handles or by a crash, and a stored session may    *)
(* expire.                                                                 *)
(*                                                                         *)
(* A node is one step up to its next external call.  A call that goes      *)
(* through the breaker is summarised by the contract of BoundedCall, which *)
(* CircuitBreaker implements: a call that succeeded ran between one and    *)
(* MaxRetries + 1 times, a call that failed at most MaxRetries + 1 times.  *)
(* Redis and Slack are called without the breaker, once.                   *)
(*                                                                         *)
(* The text of a message matters only to the node that reads it, and a     *)
(* turn runs at most one node that reads it: the node chooses what the     *)
(* message says when it classifies it.                                     *)
(***************************************************************************)
EXTENDS Naturals, FiniteSets

CONSTANTS
    Turns,          \* the turns that may be in flight together
    Sessions,       \* session keys: tenant, channel and client
    Addresses,      \* email addresses, as customers type them
    CustomerOf,     \* whose address it is, however it is typed
    Items,          \* the ordered articles
    NoSession,      \* no session: the key is not in Redis, the turn is idle
    NoOrder,        \* the customer is not identified
    MaxRetries,     \* settings.max_retries
    MaxMessages,    \* bound: how many messages the customers send
    Faults          \* which of "crash" and "expiry" may happen

ASSUME TurnAssumption ==
    /\ DOMAIN CustomerOf = Addresses
    /\ NoSession \notin Sessions
    /\ MaxRetries \in Nat
    /\ MaxMessages \in Nat
    /\ Faults \subseteq {"crash", "expiry"}

VARIABLES
    store,          \* Redis: the saved session of every key
    pc,             \* where each turn stands
    of,             \* the session key of each turn
    st,             \* the turn's own copy of the session (AgentState)
    sent,           \* messages sent so far
    labels,         \* PostgreSQL: accepted dossiers with a return label, by session
    refunds,        \* refunds triggered, by session
    tickets,        \* PostgreSQL: escalated dossiers, by session
    refusals,       \* PostgreSQL: refused dossiers, by session
    complaints,     \* PostgreSQL: complaint_count, by client_email
    \* History: not in the program, kept to state what it must not do.
    acted,          \* turns that started AUTO_ACTION, by session
    opened,         \* turns that started ESCALATION, by session
    lost,           \* turns that were dropped, by session
    expired         \* how often the session expired

backend == <<labels, refunds, tickets, refusals, complaints>>
history == <<acted, opened, lost, expired>>
vars == <<store, pc, of, st, sent, backend, history>>

-----------------------------------------------------------------------------
Nodes == {"GREETING", "IDENTIFICATION", "QUALIFICATION", "RETURN_FLOW",
          "COMPLAINT_FLOW", "VERIFICATION", "DECISION", "AUTO_ACTION",
          "ESCALATION", "CONFIRMATION"}

RequiresFreshInput ==
    {"IDENTIFICATION", "QUALIFICATION", "RETURN_FLOW", "COMPLAINT_FLOW"}

\* A turn stands before a node, at a later call of the same node (the second
\* call of COMPLAINT_FLOW, AUTO_ACTION and ESCALATION), or before save_session.
Points == Nodes \union {"RECORD_COMPLAINT", "TRIGGER_REFUND", "NOTIFY", "SAVE"}

Intents == {"none", "return", "complaint", "other"}

\* A reason one of the keyword tables lists, or the "other" they fall back to.
Reasons == {"none", "listed", "other"}

\* What Java's eligibility check answered: not eligible, auto-approvable,
\* above the threshold, or past the window but within the legal warranty.
Verdicts == {"none", "ineligible", "auto", "amount", "warranty"}

Decisions == {"none", "refused", "auto", "escalated"}

EscalationReasons ==
    {"none", "identification_failed", "qualification_unclear",
     "service_unavailable", "repeated_complaint", "amount_above_threshold",
     "legal_warranty", "technical_action_failed"}

MaxIdentificationAttempts == 2
MaxClarifications == 2

\* client_email as it was typed, and order_id and order_data: set together.
Orders == [email: Addresses, item: Items]

ASSUME OrderAssumption == NoOrder \notin Orders

\* AgentState: settled stands for return_id and refund_id, referenced for case_id.
Session ==
    [node: Nodes, order: Orders \union {NoOrder}, intent: Intents, reason: Reasons,
     attempts: Nat, reform: Nat, vague: BOOLEAN,
     verdict: Verdicts, decision: Decisions, escalated: BOOLEAN,
     why: EscalationReasons, settled: BOOLEAN, ticket: BOOLEAN,
     referenced: BOOLEAN]

\* get_session answers None or an AgentState.
ASSUME SessionAssumption == NoSession \notin Session

FreshSession ==
    [node |-> "GREETING", order |-> NoOrder, intent |-> "none", reason |-> "none",
     attempts |-> 0, reform |-> 0, vague |-> FALSE, verdict |-> "none",
     decision |-> "none", escalated |-> FALSE, why |-> "none",
     settled |-> FALSE, ticket |-> FALSE, referenced |-> FALSE]

\* Type invariant: Redis, the turns' copies and the dossier counts.
TypeOK ==
    /\ store \in [Sessions -> Session \union {NoSession}]
    /\ pc \in [Turns -> Points \union {"idle"}]
    /\ of \in [Turns -> Sessions \union {NoSession}]
    /\ st \in [Turns -> Session]
    /\ sent \in Nat
    /\ labels \in [Sessions -> Nat]
    /\ refunds \in [Sessions -> Nat]
    /\ tickets \in [Sessions -> Nat]
    /\ refusals \in [Sessions -> Nat]
    /\ complaints \in [Addresses -> Nat]
    /\ acted \in [Sessions -> Nat]
    /\ opened \in [Sessions -> Nat]
    /\ lost \in [Sessions -> Nat]
    /\ expired \in [Sessions -> Nat]

Init ==
    /\ store = [s \in Sessions |-> NoSession]
    /\ pc = [w \in Turns |-> "idle"]
    /\ of = [w \in Turns |-> NoSession]
    /\ st = [w \in Turns |-> FreshSession]
    /\ sent = 0
    /\ labels = [s \in Sessions |-> 0]
    /\ refunds = [s \in Sessions |-> 0]
    /\ tickets = [s \in Sessions |-> 0]
    /\ refusals = [s \in Sessions |-> 0]
    /\ complaints = [a \in Addresses |-> 0]
    /\ acted = [s \in Sessions |-> 0]
    /\ opened = [s \in Sessions |-> 0]
    /\ lost = [s \in Sessions |-> 0]
    /\ expired = [s \in Sessions |-> 0]

-----------------------------------------------------------------------------
(* Steps common to the nodes.                                              *)

\* How often a call's operation ran, given whether the call succeeded.
Runs(ok) == (IF ok THEN 1 ELSE 0)..(MaxRetries + 1)

Ran(count, s, ok) == \E k \in Runs(ok) : count' = [count EXCEPT ![s] = @ + k]

\* The back office: each service inserts one dossier whenever it runs, and a
\* refund is a reference and no more.
CreateReturn(s, ok) == Ran(labels, s, ok)
Refund(s, ok) == Ran(refunds, s, ok)
OpenTicket(s, ok) == Ran(tickets, s, ok)
RecordRefusal(s, ok) == Ran(refusals, s, ok)

Once(count, s) == count' = [count EXCEPT ![s] = @ + 1]

\* The turn goes on from the point p with the copy s.
Move(w, p, s) ==
    /\ pc' = [pc EXCEPT ![w] = p]
    /\ st' = [st EXCEPT ![w] = s]

\* run_turn's loop: current_state becomes the next node, and the turn pauses
\* in front of a node that needs the customer's next message.
Advance(w, s, next) ==
    Move(w, IF next \in RequiresFreshInput THEN "SAVE" ELSE next,
         [s EXCEPT !.node = next])

\* The request is over, and the turn's variables with it.
Finish(w) ==
    /\ pc' = [pc EXCEPT ![w] = "idle"]
    /\ of' = [of EXCEPT ![w] = NoSession]
    /\ st' = [st EXCEPT ![w] = FreshSession]

\* A failure that no node handles: FastAPI answers 500 and nothing is saved.
Drop(w) ==
    /\ Finish(w)
    /\ Once(lost, of[w])
    /\ UNCHANGED <<store, sent, acted, opened, expired>>

\* Mutant: an escalation that forgets its reason.
EscalatedSilently(s, reason) == [s EXCEPT !.escalated = TRUE]

Escalated(s, reason) == [s EXCEPT !.escalated = TRUE, !.why = reason]

\* Mutant: the order number is not asked for again.
RouteWithoutOrder(s) == IF s.escalated THEN "ESCALATION" ELSE "QUALIFICATION"

RouteAfterIdentification(s) ==
    IF s.escalated THEN "ESCALATION"
    ELSE IF s.order # NoOrder THEN "QUALIFICATION" ELSE "IDENTIFICATION"

RouteAfterQualification(s) ==
    CASE s.escalated -> "ESCALATION"
      [] ~s.escalated /\ s.intent = "return" -> "RETURN_FLOW"
      [] ~s.escalated /\ s.intent = "complaint" -> "COMPLAINT_FLOW"
      [] ~s.escalated /\ s.intent = "other" -> "CONFIRMATION"
      [] ~s.escalated /\ s.intent = "none" -> "QUALIFICATION"

RouteAfterComplaintFlow(s) ==
    IF s.escalated THEN "ESCALATION"
    ELSE IF s.vague THEN "COMPLAINT_FLOW" ELSE "VERIFICATION"

\* Mutant: verification is tried again until Java answers.
RouteUntilVerified(s) == IF s.escalated THEN "VERIFICATION" ELSE "DECISION"

RouteAfterVerification(s) == IF s.escalated THEN "ESCALATION" ELSE "DECISION"

\* Mutant: a router that names a node the graph does not have.
RouteToUnknownNode(s) ==
    CASE s.decision = "escalated" -> "MANUAL_REVIEW"
      [] s.decision = "refused" -> "CONFIRMATION"
      [] s.decision \notin {"escalated", "refused"} -> "AUTO_ACTION"

\* Mutant: the router forgets refusals.
RouteRefusedToAction(s) ==
    IF s.decision = "escalated" THEN "ESCALATION" ELSE "AUTO_ACTION"

RouteAfterDecision(s) ==
    CASE s.decision = "escalated" -> "ESCALATION"
      [] s.decision = "refused" -> "CONFIRMATION"
      [] s.decision \notin {"escalated", "refused"} -> "AUTO_ACTION"

RouteAfterAutoAction(s) == IF s.escalated THEN "ESCALATION" ELSE "CONFIRMATION"

-----------------------------------------------------------------------------
(* main.py                                                                 *)

\* process_message turns the message away before it reads the session: the
\* tenant configuration cannot be read (500), or the channel is not active.
TurnAway(w) ==
    /\ pc[w] = "idle"
    /\ sent < MaxMessages
    /\ sent' = sent + 1
    /\ UNCHANGED <<store, pc, of, st, backend, history>>

\* Mutant: a message to a closed case starts a new one.
ReceiveAnew(w, s) ==
    /\ pc[w] = "idle"
    /\ sent < MaxMessages
    /\ sent' = sent + 1
    /\ of' = [of EXCEPT ![w] = s]
    /\ LET session == IF store[s] = NoSession \/ store[s].node = "CONFIRMATION"
                      THEN FreshSession ELSE store[s]
       IN  Move(w, session.node, session)
    /\ UNCHANGED <<store, backend, history>>

\* process_message up to run_turn: get_session, or a fresh session.
Receive(w, s) ==
    /\ pc[w] = "idle"
    /\ sent < MaxMessages
    /\ sent' = sent + 1
    /\ of' = [of EXCEPT ![w] = s]
    /\ LET session == IF store[s] = NoSession THEN FreshSession ELSE store[s]
       IN  Move(w, session.node, session)
    /\ UNCHANGED <<store, backend, history>>

\* save_session and the ChatResponse.
Save(w) ==
    /\ pc[w] = "SAVE"
    /\ store' = [store EXCEPT ![of[w]] = st[w]]
    /\ Finish(w)
    /\ UNCHANGED <<sent, backend, history>>

\* The process dies, Redis fails, or the client's request is cancelled.
Crash(w) ==
    /\ "crash" \in Faults
    /\ pc[w] # "idle"
    /\ Drop(w)
    /\ UNCHANGED backend

\* The key's time to live runs out.
Expire(s) ==
    /\ "expiry" \in Faults
    /\ store[s] # NoSession
    /\ store' = [store EXCEPT ![s] = NoSession]
    /\ Once(expired, s)
    /\ UNCHANGED <<pc, of, st, sent, backend, acted, opened, lost>>

-----------------------------------------------------------------------------
(* agent/states/: one action per node and per external call.  The frames   *)
(* name what a step leaves alone besides pc and st.                        *)

\* The steps of a node that neither reaches the dossiers nor drops the turn.
Quiet == UNCHANGED <<store, of, sent, backend, history>>

\* greeting_node.
Greet(w) ==
    /\ pc[w] = "GREETING"
    /\ Advance(w, st[w], "IDENTIFICATION")
    /\ Quiet

\* Nodes whose call raises TechnicalFailure (or, when Slack is told, an httpx
\* error) without a try of their own: get_tenant_config in greeting_node, the
\* article lookup of both flows, and the Slack message.
DropOnFailure(w) ==
    /\ pc[w] \in {"GREETING", "RETURN_FLOW", "COMPLAINT_FLOW", "NOTIFY"}
    /\ Drop(w)
    /\ UNCHANGED backend

\* identification_node, no order number or no email in the message.
HoldIdentification(w) ==
    /\ pc[w] = "IDENTIFICATION"
    /\ Advance(w, st[w], RouteAfterIdentification(st[w]))
    /\ Quiet

\* identification_node, check_order answered: an order of the customer, who may
\* have typed the address in upper or lower case; it is kept as typed.
Identify(w) ==
    /\ pc[w] = "IDENTIFICATION"
    /\ \E o \in Orders :
          LET s == [st[w] EXCEPT !.order = o]
          IN  Advance(w, s, RouteAfterIdentification(s))
    /\ Quiet

\* Mutant: one attempt too many.
FailIdentificationLate(w) ==
    /\ pc[w] = "IDENTIFICATION"
    /\ LET s == [st[w] EXCEPT !.attempts = @ + 1]
           t == IF s.attempts <= MaxIdentificationAttempts THEN s
                ELSE Escalated(s, "identification_failed")
       IN  Advance(w, t, RouteAfterIdentification(t))
    /\ Quiet

\* identification_node, OrderNotFound: one attempt spent, the second escalates.
FailIdentification(w) ==
    /\ pc[w] = "IDENTIFICATION"
    /\ LET s == [st[w] EXCEPT !.attempts = @ + 1]
           t == IF s.attempts < MaxIdentificationAttempts THEN s
                ELSE Escalated(s, "identification_failed")
       IN  Advance(w, t, RouteAfterIdentification(t))
    /\ Quiet

\* identification_node, TechnicalFailure.
IdentificationUnavailable(w) ==
    /\ pc[w] = "IDENTIFICATION"
    /\ LET s == Escalated(st[w], "service_unavailable")
       IN  Advance(w, s, RouteAfterIdentification(s))
    /\ Quiet

\* Mutant: a settled intent gives the questions back.
QualifyAndForget(w) ==
    /\ pc[w] = "QUALIFICATION"
    /\ \E intent \in {"return", "complaint", "other"} :
          LET s == [st[w] EXCEPT !.intent = intent, !.reform = 0]
          IN  Advance(w, s, RouteAfterQualification(s))
    /\ Quiet

\* qualification_node, the keywords settle the intent.
Qualify(w) ==
    /\ pc[w] = "QUALIFICATION"
    /\ \E intent \in {"return", "complaint", "other"} :
          LET s == [st[w] EXCEPT !.intent = intent]
          IN  Advance(w, s, RouteAfterQualification(s))
    /\ Quiet

\* qualification_node, ambiguous: ask, at most MAX_CLARIFICATIONS times.
AskIntent(w) ==
    /\ pc[w] = "QUALIFICATION"
    /\ LET s == [st[w] EXCEPT !.reform = @ + 1]
           t == IF s.reform <= MaxClarifications THEN s
                ELSE Escalated(s, "qualification_unclear")
       IN  Advance(w, t, RouteAfterQualification(t))
    /\ Quiet

\* return_flow_node, the article lookup answered.
CollectReturn(w) ==
    /\ pc[w] = "RETURN_FLOW"
    /\ \E reason \in {"listed", "other"} :
          Advance(w, [st[w] EXCEPT !.reason = reason], "VERIFICATION")
    /\ Quiet

\* complaint_flow_node, a description that is too short, with questions left.
AskDescription(w) ==
    /\ pc[w] = "COMPLAINT_FLOW"
    /\ st[w].reform < MaxClarifications
    /\ LET s == [st[w] EXCEPT !.reform = @ + 1, !.vague = TRUE]
       IN  Advance(w, s, RouteAfterComplaintFlow(s))
    /\ Quiet

\* complaint_flow_node up to record_complaint: reason and article known.
CollectComplaint(w) ==
    /\ pc[w] = "COMPLAINT_FLOW"
    /\ \E reason \in {"listed", "other"} :
          Move(w, "RECORD_COMPLAINT", [st[w] EXCEPT !.reason = reason])
    /\ UNCHANGED <<store, of, sent, backend, history>>

\* Mutant: only the third complaint counts as a repeat.
RecordComplaintLeniently(w) ==
    /\ pc[w] = "RECORD_COMPLAINT"
    /\ \E k \in Runs(TRUE) :
          LET a == st[w].order.email
          IN  /\ complaints' = [complaints EXCEPT ![a] = @ + k]
              /\ \E earlier \in 0..(k - 1) :
                    LET s == IF complaints[a] + earlier > 1
                             THEN Escalated(st[w], "repeated_complaint")
                             ELSE [st[w] EXCEPT !.vague = FALSE]
                    IN  Advance(w, s, RouteAfterComplaintFlow(s))
    /\ UNCHANGED <<store, of, sent, labels, refunds, tickets, refusals, history>>

\* record_complaint answered.  The answer is that of one of the runs, and says
\* whether a complaint under this address was on record before that run.
RecordComplaint(w) ==
    /\ pc[w] = "RECORD_COMPLAINT"
    /\ \E k \in Runs(TRUE) :
          LET a == st[w].order.email
          IN  /\ complaints' = [complaints EXCEPT ![a] = @ + k]
              /\ \E earlier \in 0..(k - 1) :
                    LET s == IF complaints[a] + earlier > 0
                             THEN Escalated(st[w], "repeated_complaint")
                             ELSE [st[w] EXCEPT !.vague = FALSE]
                    IN  Advance(w, s, RouteAfterComplaintFlow(s))
    /\ UNCHANGED <<store, of, sent, labels, refunds, tickets, refusals, history>>

\* record_complaint raised TechnicalFailure, which complaint_flow_node lets pass.
LoseComplaint(w) ==
    /\ pc[w] = "RECORD_COMPLAINT"
    /\ Ran(complaints, st[w].order.email, FALSE)
    /\ Drop(w)
    /\ UNCHANGED <<labels, refunds, tickets, refusals>>

\* verification_node, EligibilityController answered.  Only a complaint can
\* fall under the legal warranty (EligibilityService.checkComplaintEligibility).
Verify(w) ==
    /\ pc[w] = "VERIFICATION"
    /\ \E verdict \in Verdicts \ {"none"} :
          /\ verdict = "warranty" => st[w].intent = "complaint"
          /\ LET s == [st[w] EXCEPT !.verdict = verdict]
             IN  Advance(w, s, RouteAfterVerification(s))
    /\ Quiet

\* verification_node, TechnicalFailure.
VerificationUnavailable(w) ==
    /\ pc[w] = "VERIFICATION"
    /\ LET s == Escalated(st[w], "service_unavailable")
       IN  Advance(w, s, RouteAfterVerification(s))
    /\ Quiet

\* decision_node.  The reason of the request plays no part in it, and the
\* refusal's wording cannot fail (generate_decision_explanation).
Decide(w) ==
    /\ pc[w] = "DECISION"
    /\ LET s == CASE st[w].verdict \in {"none", "ineligible"} ->
                        [st[w] EXCEPT !.decision = "refused"]
                  [] st[w].verdict = "auto" -> [st[w] EXCEPT !.decision = "auto"]
                  [] st[w].verdict = "amount" ->
                        Escalated([st[w] EXCEPT !.decision = "escalated"],
                                  "amount_above_threshold")
                  [] st[w].verdict = "warranty" ->
                        Escalated([st[w] EXCEPT !.decision = "escalated"],
                                  "legal_warranty")
       IN  Advance(w, s, RouteAfterDecision(s))
    /\ Quiet

\* auto_action_node, create_return_label answered: ReturnService accepted a dossier.
CreateReturnLabel(w) ==
    /\ pc[w] = "AUTO_ACTION"
    /\ CreateReturn(of[w], TRUE)
    /\ Once(acted, of[w])
    /\ Move(w, "TRIGGER_REFUND", st[w])
    /\ UNCHANGED <<store, of, sent, refunds, tickets, refusals, complaints,
                   opened, lost, expired>>

\* Mutant: the refund does not wait for the label.
FailReturnLabelUnnoticed(w) ==
    /\ pc[w] = "AUTO_ACTION"
    /\ CreateReturn(of[w], FALSE)
    /\ Once(acted, of[w])
    /\ Move(w, "TRIGGER_REFUND", st[w])
    /\ UNCHANGED <<store, of, sent, refunds, tickets, refusals, complaints,
                   opened, lost, expired>>

\* auto_action_node, create_return_label raised TechnicalFailure.
FailReturnLabel(w) ==
    /\ pc[w] = "AUTO_ACTION"
    /\ CreateReturn(of[w], FALSE)
    /\ Once(acted, of[w])
    /\ LET s == Escalated(st[w], "technical_action_failed")
       IN  Advance(w, s, RouteAfterAutoAction(s))
    /\ UNCHANGED <<store, of, sent, refunds, tickets, refusals, complaints,
                   opened, lost, expired>>

\* auto_action_node, trigger_refund answered: return, refund and case are kept.
TriggerRefund(w) ==
    /\ pc[w] = "TRIGGER_REFUND"
    /\ Refund(of[w], TRUE)
    /\ LET s == [st[w] EXCEPT !.settled = TRUE, !.referenced = TRUE]
       IN  Advance(w, s, RouteAfterAutoAction(s))
    /\ UNCHANGED <<store, of, sent, labels, tickets, refusals, complaints, history>>

\* Mutant: a failed refund is reported all the same.
FailRefundUnnoticed(w) ==
    /\ pc[w] = "TRIGGER_REFUND"
    /\ Refund(of[w], FALSE)
    /\ LET s == [st[w] EXCEPT !.settled = TRUE, !.referenced = TRUE]
       IN  Advance(w, s, RouteAfterAutoAction(s))
    /\ UNCHANGED <<store, of, sent, labels, tickets, refusals, complaints, history>>

\* Mutant: a failed refund starts the node again.
FailRefundRetried(w) ==
    /\ pc[w] = "TRIGGER_REFUND"
    /\ Refund(of[w], FALSE)
    /\ Advance(w, st[w], "AUTO_ACTION")
    /\ UNCHANGED <<store, of, sent, labels, tickets, refusals, complaints, history>>

\* auto_action_node, trigger_refund raised TechnicalFailure: the label stands,
\* and the session does not even know its return.
FailRefund(w) ==
    /\ pc[w] = "TRIGGER_REFUND"
    /\ Refund(of[w], FALSE)
    /\ LET s == Escalated(st[w], "technical_action_failed")
       IN  Advance(w, s, RouteAfterAutoAction(s))
    /\ UNCHANGED <<store, of, sent, labels, tickets, refusals, complaints, history>>

\* What escalation_node returns, given whether escalate_to_human returned.
HandedOver(s, ticket) ==
    [s EXCEPT !.escalated = TRUE, !.ticket = ticket,
              !.referenced = @ \/ ticket]

\* escalate_to_human, POST /internal/tickets answered.
CreateTicket(w) ==
    /\ pc[w] = "ESCALATION"
    /\ OpenTicket(of[w], TRUE)
    /\ Once(opened, of[w])
    /\ Move(w, "NOTIFY", st[w])
    /\ UNCHANGED <<store, of, sent, labels, refunds, refusals, complaints,
                   acted, lost, expired>>

\* escalate_to_human, POST /internal/tickets raised TechnicalFailure.
FailTicket(w) ==
    /\ pc[w] = "ESCALATION"
    /\ OpenTicket(of[w], FALSE)
    /\ Once(opened, of[w])
    /\ Advance(w, HandedOver(st[w], FALSE), "CONFIRMATION")
    /\ UNCHANGED <<store, of, sent, labels, refunds, refusals, complaints,
                   acted, lost, expired>>

\* escalate_to_human after the ticket: the team is told on Slack if the tenant
\* wants it, and the ticket is returned.  When get_tenant_config raises
\* TechnicalFailure, escalation_node takes the ticket for not created.
Notify(w) ==
    /\ pc[w] = "NOTIFY"
    /\ \E told \in BOOLEAN : Advance(w, HandedOver(st[w], told), "CONFIRMATION")
    /\ Quiet

\* Mutant: a closed case waits for the next request.
ConfirmAndReopen(w) ==
    /\ pc[w] = "CONFIRMATION"
    /\ \/ st[w].escalated
       \/ st[w].intent = "other"
       \/ st[w].decision # "refused"
    /\ Move(w, "SAVE", [st[w] EXCEPT !.node = "QUALIFICATION"])
    /\ Quiet

\* confirmation_node when there is nothing to record.
Confirm(w) ==
    /\ pc[w] = "CONFIRMATION"
    /\ \/ st[w].escalated
       \/ st[w].intent = "other"
       \/ st[w].decision # "refused"
    /\ Move(w, "SAVE", [st[w] EXCEPT !.node = "CONFIRMATION"])
    /\ Quiet

\* confirmation_node, a refusal: record_refusal answers or fails, and the
\* customer gets the refusal either way.
ConfirmRefusal(w) ==
    /\ pc[w] = "CONFIRMATION"
    /\ ~st[w].escalated
    /\ st[w].intent # "other"
    /\ st[w].decision = "refused"
    /\ \E recorded \in BOOLEAN :
          /\ RecordRefusal(of[w], recorded)
          /\ Move(w, "SAVE", [st[w] EXCEPT !.node = "CONFIRMATION",
                                           !.referenced = @ \/ recorded])
    /\ UNCHANGED <<store, of, sent, labels, refunds, tickets, complaints, history>>

-----------------------------------------------------------------------------
Step(w) ==
    \/ Greet(w) \/ HoldIdentification(w) \/ Identify(w)
    \/ FailIdentification(w) \/ IdentificationUnavailable(w)
    \/ Qualify(w) \/ AskIntent(w)
    \/ CollectReturn(w)
    \/ AskDescription(w) \/ CollectComplaint(w)
    \/ RecordComplaint(w) \/ LoseComplaint(w)
    \/ Verify(w) \/ VerificationUnavailable(w) \/ Decide(w)
    \/ CreateReturnLabel(w) \/ FailReturnLabel(w)
    \/ TriggerRefund(w) \/ FailRefund(w)
    \/ CreateTicket(w) \/ FailTicket(w) \/ Notify(w)
    \/ Confirm(w) \/ ConfirmRefusal(w)
    \/ DropOnFailure(w) \/ Save(w)

Next ==
    \/ \E w \in Turns : Step(w) \/ TurnAway(w) \/ Crash(w)
    \/ \E w \in Turns, s \in Sessions : Receive(w, s)
    \/ \E s \in Sessions : Expire(s)

Spec == Init /\ [][Next]_vars

\* A turn is a coroutine whose calls to Java and pgvector are bounded by the
\* breaker's timeouts, and whose call to Slack by that of its HTTP client: its
\* nodes move on.  Nothing bounds save_session, the Redis client has no timeout;
\* customers, crashes and expiry owe nothing either.
Fairness == \A w \in Turns : WF_vars(pc[w] # "SAVE" /\ Step(w))

FairSpec == Spec /\ Fairness

-----------------------------------------------------------------------------
(* Invariants: they hold however many turns overlap, whatever is dropped.  *)

Saved == {s \in Sessions : store[s] # NoSession}

\* What the node a session stands before takes for granted.  RETURN_FLOW and
\* the nodes after it index order_id and client_email without a check.
ReadyFor(s, n) ==
    /\ n = "IDENTIFICATION" =>
          /\ s.order = NoOrder
          /\ ~s.escalated /\ s.attempts < MaxIdentificationAttempts
    /\ n \in {"QUALIFICATION", "RETURN_FLOW", "COMPLAINT_FLOW"} =>
          s.order # NoOrder /\ ~s.escalated /\ s.reform <= MaxClarifications
    /\ n = "QUALIFICATION" => s.intent = "none"
    /\ n = "RETURN_FLOW" => s.intent = "return"
    /\ n = "COMPLAINT_FLOW" => s.intent = "complaint"
    /\ n = "CONFIRMATION" =>
          \/ s.escalated
          \/ s.intent = "other"
          \/ /\ s.order # NoOrder
             /\ \/ s.decision = "refused" /\ s.verdict = "ineligible"
                \/ s.decision = "auto" /\ s.verdict = "auto" /\ s.settled

\* Whatever happened before, a saved session resumes at a node that reads a
\* message or at CONFIRMATION, and holds everything that node needs (run_turn
\* and the routers): a conversation can always go on.
SavedSessionsResume ==
    \A s \in Saved :
        /\ store[s].node \in RequiresFreshInput \union {"CONFIRMATION"}
        /\ ReadyFor(store[s], store[s].node)

\* A saved session never claims what the back office does not have: a refund
\* it reports was triggered and came after a label, a ticket it quotes exists,
\* and a session closed without a human either was refused or was paid
\* (auto_action_node, escalation_node, confirmation_node).
NoEmptyPromise ==
    \A s \in Saved :
        /\ store[s].settled => refunds[s] > 0 /\ labels[s] > 0
        /\ store[s].ticket => tickets[s] > 0 /\ store[s].escalated
        /\ store[s].decision = "auto" => store[s].settled \/ store[s].escalated

\* No money leaves before a return is on record: a refund, even one of a turn
\* that was dropped, follows a label of the same session (auto_action_node
\* calls create_return_label first).
RefundFollowsLabel == \A s \in Sessions : refunds[s] > 0 => labels[s] > 0

\* The complaint of the session s went on to Java and was decided without the
\* repeated-complaint escalation.
Unflagged(s) ==
    /\ store[s].order # NoOrder
    /\ store[s].intent = "complaint"
    /\ store[s].verdict # "none"

\* Of the sessions that are open at the same time under one address, typed the
\* same way, on the Web and by email, at most one is unflagged, whatever is
\* dropped, retried or overlaps: complaint_flow_node learns of the other from
\* ClientHistory.
OneUnflaggedComplaint ==
    \A s, t \in Saved :
        Unflagged(s) /\ Unflagged(t) /\ s # t =>
            store[s].order.email # store[t].order.email

-----------------------------------------------------------------------------
(* Action properties.                                                      *)

\* A label or a refund is only ever made by a turn whose customer is
\* identified, whose request Java found eligible and auto-approvable, and that
\* nobody escalated (contracts/mcp-tools.md, create_return_label and
\* trigger_refund).
ActionsAreAuthorised ==
    [][\A s \in Sessions :
          labels'[s] # labels[s] \/ refunds'[s] # refunds[s] =>
              \E w \in Turns :
                  /\ of[w] = s
                  /\ st[w].order # NoOrder
                  /\ st[w].intent \in {"return", "complaint"}
                  /\ st[w].verdict = "auto"
                  /\ st[w].decision = "auto"
                  /\ ~st[w].escalated]_vars

\* A ticket is only opened for a turn that escalates, with its reason known.
TicketsAreExplained ==
    [][\A s \in Sessions :
          tickets'[s] # tickets[s] =>
              \E w \in Turns :
                  of[w] = s /\ st[w].escalated /\ st[w].why # "none"]_vars

\* FR-009: once a saved session is escalated it stays so until it expires.
\* It holds when the turns of a session do not overlap.
EscalationIsFinal ==
    [][\A s \in Saved :
          store[s].escalated /\ store'[s] # NoSession => store'[s].escalated]_vars

\* What a conversation achieved is not undone by a later message: a customer
\* is not identified anew (FR-012), a decision and a refund stand, and the
\* counters that limit the conversation do not go back.  It holds when the
\* turns of a session do not overlap.
ProgressIsKept ==
    [][\A s \in Saved :
          store'[s] # NoSession =>
              /\ store[s].order # NoOrder => store'[s].order = store[s].order
              /\ store[s].settled => store'[s].settled
              /\ store[s].decision # "none" => store'[s].decision = store[s].decision
              /\ store'[s].attempts >= store[s].attempts
              /\ store'[s].reform >= store[s].reform]_vars

-----------------------------------------------------------------------------
(* Repetition.                                                             *)

\* When the turns of a session do not overlap, the only way to act or to
\* escalate twice in one session is to lose a turn, or the session: every
\* repetition is paid for by a turn that was dropped before save_session, or
\* by an expiry.  This counts turns: within one turn the breaker may still run
\* a call MaxRetries + 1 times, and so make as many refunds or tickets.
RepetitionNeedsLoss ==
    \A s \in Sessions :
        /\ acted[s] <= 1 + lost[s] + expired[s]
        /\ opened[s] <= 1 + lost[s] + expired[s]

-----------------------------------------------------------------------------
(* Liveness.                                                               *)

\* Every accepted message gets a reply that is ready to be saved and sent, or its
\* turn is dropped: no path through the nodes runs in circles without the
\* customer (run_turn's while loop).  Whether save_session returns is up to Redis.
RepliesGetReady == \A w \in Turns : pc[w] # "idle" ~> pc[w] \in {"idle", "SAVE"}

-----------------------------------------------------------------------------
(* Refinement: the saved session is a case of Conversation.                *)

StageOf(s) ==
    CASE s.node = "IDENTIFICATION" -> "identifying"
      [] s.node = "QUALIFICATION" -> "qualifying"
      [] s.node \in {"RETURN_FLOW", "COMPLAINT_FLOW"} -> "collecting"
      [] s.node = "CONFIRMATION" -> "closed"

OutcomeOf(s) ==
    CASE s.node # "CONFIRMATION" -> "open"
      [] s.node = "CONFIRMATION" /\ s.escalated -> "escalated"
      [] s.node = "CONFIRMATION" /\ ~s.escalated /\ s.intent = "other" -> "redirected"
      [] s.node = "CONFIRMATION" /\ ~s.escalated /\ s.decision = "refused" -> "refused"
      [] s.node = "CONFIRMATION" /\ ~s.escalated /\ s.settled -> "settled"

Case == INSTANCE Conversation WITH
    Cases <- Sessions,
    stage <- [s \in Sessions |->
                 IF store[s] = NoSession THEN "new" ELSE StageOf(store[s])],
    outcome <- [s \in Sessions |->
                   IF store[s] = NoSession THEN "open" ELSE OutcomeOf(store[s])]

\* While a session lives and its turns do not overlap, each turn of the agent
\* is at most one step of the conversation data-model.md describes, however
\* many nodes it runs and whatever it drops; a closed case stays closed.
ImplementsConversation == Case!Spec

-----------------------------------------------------------------------------
(* What the documents say and the code does not do.                        *)

\* spec.md, User Story 4: a case escalated twice in the same session has no
\* duplicate ticket.
NoDuplicateTicket == \A s \in Sessions : tickets[s] <= 1 + expired[s]

\* spec.md, User Story 5: a repeated complaint about the same item is escalated.
\* Identification takes an address in upper or lower case, the history does not.
RepeatsAreFlagged ==
    \A s, t \in Saved :
        Unflagged(s) /\ Unflagged(t) /\ s # t =>
            \/ CustomerOf[store[s].order.email] # CustomerOf[store[t].order.email]
            \/ store[s].order.item # store[t].order.item
=============================================================================
