-------------------------- MODULE AgentPromisesProofs --------------------------
(***************************************************************************)
(* Theorems that relate what AgentTurn's sessions claim to what the back   *)
(* office holds, for every set of overlapping turns.                       *)
(*                                                                         *)
(* The counts of the back office never go back (CountersGrow), so a claim  *)
(* that was true when a turn made it stays true in every copy of the       *)
(* session, whichever turn saves last.  What is left is that each claim is *)
(* true when it is made: Backed says so of every copy, and adds what a     *)
(* turn between two calls of one node owes to the first of them.           *)
(***************************************************************************)
EXTENDS AgentTurnProofs

\* A copy s at the point p claims no more than l labels, r refunds and t tickets
\* bear out.
Backed(s, p, l, r, t) ==
    /\ s.settled => r > 0 /\ l > 0
    /\ s.ticket => t > 0
    /\ p = "TRIGGER_REFUND" => l > 0
    /\ p = "NOTIFY" => t > 0

PromiseInv ==
    /\ \A w \in Turns : pc[w] # "idle" =>
          Backed(st[w], pc[w], labels[of[w]], refunds[of[w]], tickets[of[w]])
    /\ \A s \in Saved : Backed(store[s], "SAVE", labels[s], refunds[s], tickets[s])
    /\ RefundFollowsLabel

PInv == IInv /\ PromiseInv

\* The step of turn w makes no new claim and stops between no two calls.
KeepsPromises(w) ==
    /\ st'[w].settled = st[w].settled
    /\ st'[w].ticket = st[w].ticket
    /\ pc'[w] \notin {"TRIGGER_REFUND", "NOTIFY"}

\* The five steps that claim something or stop between two calls.
Claims(w) ==
    \/ CreateReturnLabel(w) \/ TriggerRefund(w)
    \/ CreateTicket(w) \/ FailTicket(w) \/ Notify(w)

LEMMA BackedMono ==
    ASSUME NEW s, NEW p, NEW l \in Nat, NEW r \in Nat, NEW t \in Nat,
           NEW l1 \in Nat, NEW r1 \in Nat, NEW t1 \in Nat,
           l1 >= l, r1 >= r, t1 >= t, Backed(s, p, l, r, t)
    PROVE  Backed(s, p, l1, r1, t1)
  BY DEF Backed

LEMMA AdvanceLands ==
    ASSUME IInv, NEW w \in Turns, NEW t \in Session, NEW n \in Nodes, Advance(w, t, n)
    PROVE  /\ st'[w].settled = t.settled
           /\ st'[w].ticket = t.ticket
           /\ pc'[w] \notin {"TRIGGER_REFUND", "NOTIFY"}
  <1>1. st'[w] = [t EXCEPT !.node = n]
    BY DEF IInv, TypeOK, Advance, Move
  <1>2. pc'[w] = IF n \in RequiresFreshInput THEN "SAVE" ELSE n
    BY DEF IInv, TypeOK, Advance, Move
  <1>3. st'[w].settled = t.settled /\ st'[w].ticket = t.ticket
    BY <1>1 DEF Session
  <1> QED
    BY <1>2, <1>3 DEF Nodes

\* Advancing with a copy that makes the same claims.
LEMMA AdvanceKeeps ==
    ASSUME IInv, NEW w \in Turns, NEW t \in Session, NEW n \in Nodes, Advance(w, t, n),
           t.settled = st[w].settled, t.ticket = st[w].ticket
    PROVE  KeepsPromises(w)
  BY AdvanceLands DEF KeepsPromises

LEMMA EscalatedKeeps ==
    ASSUME NEW t \in Session, NEW reason \in EscalationReasons
    PROVE  /\ Escalated(t, reason) \in Session
           /\ Escalated(t, reason).settled = t.settled
           /\ Escalated(t, reason).ticket = t.ticket
  BY DEF Escalated, Session

LEMMA RoutesToNodes ==
    ASSUME NEW s
    PROVE  /\ RouteAfterIdentification(s) \in Nodes
           /\ RouteAfterComplaintFlow(s) \in Nodes
           /\ RouteAfterVerification(s) \in Nodes
           /\ RouteAfterDecision(s) \in Nodes
           /\ RouteAfterAutoAction(s) \in Nodes
  BY DEF RouteAfterIdentification, RouteAfterComplaintFlow, RouteAfterVerification,
         RouteAfterDecision, RouteAfterAutoAction, Nodes

LEMMA QualificationRoutesToNodes ==
    ASSUME NEW s, s.escalated \in BOOLEAN, s.intent \in Intents
    PROVE  RouteAfterQualification(s) \in Nodes
  BY DEF RouteAfterQualification, Nodes, Intents

-----------------------------------------------------------------------------
\* The nodes up to DECISION claim nothing.
LEMMA TalkKeeps ==
    ASSUME IInv, NEW w \in Turns,
           \/ Greet(w) \/ HoldIdentification(w) \/ Identify(w)
           \/ FailIdentification(w) \/ IdentificationUnavailable(w)
           \/ Qualify(w) \/ AskIntent(w) \/ CollectReturn(w)
    PROVE  KeepsPromises(w)
  <1> DEFINE c == st[w]
  <1>1. c \in Session
    BY DEF IInv, TypeOK
  <1>2. c.attempts + 1 \in Nat /\ c.reform + 1 \in Nat
    BY <1>1 DEF Session
  <1> DEFINE a == [c EXCEPT !.attempts = @ + 1]
             b == [c EXCEPT !.reform = @ + 1]
  <1>3. /\ a \in Session /\ a.settled = c.settled /\ a.ticket = c.ticket
        /\ b \in Session /\ b.settled = c.settled /\ b.ticket = c.ticket
    BY <1>1, <1>2 DEF Session
  <1> DEFINE fail == Escalated(a, "identification_failed")
             gone == Escalated(c, "service_unavailable")
             lost1 == Escalated(b, "qualification_unclear")
  <1>4. CASE Greet(w)
    BY <1>1, <1>4, AdvanceKeeps DEF Greet, Nodes
  <1>5. CASE HoldIdentification(w)
    BY <1>1, <1>5, AdvanceKeeps, RoutesToNodes DEF HoldIdentification
  <1>6. CASE Identify(w)
    <2>1. PICK o \in Orders :
             Advance(w, [c EXCEPT !.order = o],
                     RouteAfterIdentification([c EXCEPT !.order = o]))
      BY <1>6 DEF Identify
    <2> DEFINE k == [c EXCEPT !.order = o]
    <2>2. k \in Session /\ k.settled = c.settled /\ k.ticket = c.ticket
      BY <1>1 DEF Session
    <2> HIDE DEF k
    <2> QED
      BY <2>1, <2>2, AdvanceKeeps, RoutesToNodes DEF k
  <1>7. CASE FailIdentification(w)
    <2>1. \/ Advance(w, a, RouteAfterIdentification(a))
          \/ Advance(w, fail, RouteAfterIdentification(fail))
      BY <1>7 DEF FailIdentification
    <2>2. fail \in Session /\ fail.settled = c.settled /\ fail.ticket = c.ticket
      <3> HIDE DEF a
      <3> QED
        BY <1>3, EscalatedKeeps DEF EscalationReasons
    <2> HIDE DEF a, fail
    <2> QED
      BY <1>3, <2>1, <2>2, AdvanceKeeps, RoutesToNodes
  <1>8. CASE IdentificationUnavailable(w)
    <2>1. Advance(w, gone, RouteAfterIdentification(gone))
      BY <1>8 DEF IdentificationUnavailable
    <2>2. gone \in Session /\ gone.settled = c.settled /\ gone.ticket = c.ticket
      BY <1>1, EscalatedKeeps DEF EscalationReasons
    <2> HIDE DEF gone
    <2> QED
      BY <2>1, <2>2, AdvanceKeeps, RoutesToNodes
  <1>9. CASE Qualify(w)
    <2>1. PICK intent \in {"return", "complaint", "other"} :
             Advance(w, [c EXCEPT !.intent = intent],
                     RouteAfterQualification([c EXCEPT !.intent = intent]))
      BY <1>9 DEF Qualify
    <2> DEFINE q == [c EXCEPT !.intent = intent]
    <2>2. q \in Session /\ q.settled = c.settled /\ q.ticket = c.ticket
      BY <1>1 DEF Session, Intents
    <2> HIDE DEF q
    <2>3. RouteAfterQualification(q) \in Nodes
      BY <2>2, QualificationRoutesToNodes DEF Session
    <2> QED
      BY <2>1, <2>2, <2>3, AdvanceKeeps DEF q
  <1>10. CASE AskIntent(w)
    <2>1. \/ Advance(w, b, RouteAfterQualification(b))
          \/ Advance(w, lost1, RouteAfterQualification(lost1))
      BY <1>10 DEF AskIntent
    <2>2. lost1 \in Session /\ lost1.settled = c.settled /\ lost1.ticket = c.ticket
      <3> HIDE DEF b
      <3> QED
        BY <1>3, EscalatedKeeps DEF EscalationReasons
    <2> HIDE DEF b, lost1
    <2>3. RouteAfterQualification(b) \in Nodes /\ RouteAfterQualification(lost1) \in Nodes
      BY <1>3, <2>2, QualificationRoutesToNodes DEF Session
    <2> QED
      BY <1>3, <2>1, <2>2, <2>3, AdvanceKeeps
  <1>11. CASE CollectReturn(w)
    <2>1. PICK reason \in {"listed", "other"} :
             Advance(w, [c EXCEPT !.reason = reason], "VERIFICATION")
      BY <1>11 DEF CollectReturn
    <2> DEFINE q == [c EXCEPT !.reason = reason]
    <2>2. q \in Session /\ q.settled = c.settled /\ q.ticket = c.ticket
      BY <1>1 DEF Session, Reasons
    <2> QED
      BY <2>1, <2>2, AdvanceKeeps DEF Nodes
  <1> QED
    BY <1>4, <1>5, <1>6, <1>7, <1>8, <1>9, <1>10, <1>11

\* The nodes of a complaint, of verification and of the decision claim nothing.
LEMMA ExamineKeeps ==
    ASSUME IInv, NEW w \in Turns,
           \/ AskDescription(w) \/ CollectComplaint(w) \/ RecordComplaint(w)
           \/ Verify(w) \/ VerificationUnavailable(w) \/ Decide(w)
    PROVE  KeepsPromises(w)
  <1> DEFINE c == st[w]
  <1>1. c \in Session
    BY DEF IInv, TypeOK
  <1>2. CASE AskDescription(w)
    <2> DEFINE q == [c EXCEPT !.reform = @ + 1, !.vague = TRUE]
    <2>1. Advance(w, q, RouteAfterComplaintFlow(q))
      BY <1>2 DEF AskDescription
    <2>2. q \in Session /\ q.settled = c.settled /\ q.ticket = c.ticket
      <3> DEFINE n == c.reform + 1
      <3>1. n \in Nat
        BY <1>1 DEF Session
      <3>2. q = [c EXCEPT !.reform = n, !.vague = TRUE]
        BY <1>1 DEF Session
      <3> HIDE DEF n, q
      <3> QED
        BY <1>1, <3>1, <3>2 DEF Session
    <2> HIDE DEF q
    <2> QED
      BY <2>1, <2>2, AdvanceKeeps, RoutesToNodes
  <1>3. CASE CollectComplaint(w)
    <2>1. PICK reason \in {"listed", "other"} :
             Move(w, "RECORD_COMPLAINT", [c EXCEPT !.reason = reason])
      BY <1>3 DEF CollectComplaint
    <2>2. st'[w] = [c EXCEPT !.reason = reason] /\ pc'[w] = "RECORD_COMPLAINT"
      BY <2>1 DEF Move, IInv, TypeOK
    <2> QED
      BY <1>1, <2>2 DEF KeepsPromises, Session
  <1>4. CASE RecordComplaint(w)
    <2> DEFINE flagged == Escalated(c, "repeated_complaint")
               clear == [c EXCEPT !.vague = FALSE]
    <2>1. \/ Advance(w, flagged, RouteAfterComplaintFlow(flagged))
          \/ Advance(w, clear, RouteAfterComplaintFlow(clear))
      BY <1>4 DEF RecordComplaint
    <2>2. /\ flagged \in Session /\ flagged.settled = c.settled
          /\ flagged.ticket = c.ticket
      BY <1>1, EscalatedKeeps DEF EscalationReasons
    <2>3. clear \in Session /\ clear.settled = c.settled /\ clear.ticket = c.ticket
      BY <1>1 DEF Session
    <2> HIDE DEF flagged, clear
    <2> QED
      BY <2>1, <2>2, <2>3, AdvanceKeeps, RoutesToNodes
  <1>5. CASE Verify(w)
    <2>1. PICK verdict \in Verdicts \ {"none"} :
             Advance(w, [c EXCEPT !.verdict = verdict],
                     RouteAfterVerification([c EXCEPT !.verdict = verdict]))
      BY <1>5 DEF Verify
    <2> DEFINE q == [c EXCEPT !.verdict = verdict]
    <2>2. q \in Session /\ q.settled = c.settled /\ q.ticket = c.ticket
      BY <1>1 DEF Session
    <2>3. Advance(w, q, RouteAfterVerification(q))
      BY <2>1
    <2> HIDE DEF q
    <2> QED
      BY <2>2, <2>3, AdvanceKeeps, RoutesToNodes
  <1>6. CASE VerificationUnavailable(w)
    <2> DEFINE gone == Escalated(c, "service_unavailable")
    <2>1. Advance(w, gone, RouteAfterVerification(gone))
      BY <1>6 DEF VerificationUnavailable
    <2>2. gone \in Session /\ gone.settled = c.settled /\ gone.ticket = c.ticket
      BY <1>1, EscalatedKeeps DEF EscalationReasons
    <2> HIDE DEF gone
    <2> QED
      BY <2>1, <2>2, AdvanceKeeps, RoutesToNodes
  <1>7. CASE Decide(w)
    <2> DEFINE d(x) == [c EXCEPT !.decision = x]
    <2>1. \A x \in Decisions :
             d(x) \in Session /\ d(x).settled = c.settled /\ d(x).ticket = c.ticket
      BY <1>1 DEF Session
    <2>2. c.verdict \in Verdicts
      BY <1>1 DEF Session
    <2> DEFINE e(reason) == Escalated(d("escalated"), reason)
    <2>3. \/ Advance(w, d("refused"), RouteAfterDecision(d("refused")))
          \/ Advance(w, d("auto"), RouteAfterDecision(d("auto")))
          \/ \E reason \in EscalationReasons :
                Advance(w, e(reason), RouteAfterDecision(e(reason)))
      <3>1. CASE c.verdict \in {"none", "ineligible"}
        BY <1>7, <3>1 DEF Decide
      <3>2. CASE c.verdict = "auto"
        BY <1>7, <3>2 DEF Decide
      <3>3. CASE c.verdict = "amount"
        BY <1>7, <3>3 DEF Decide, EscalationReasons
      <3>4. CASE c.verdict = "warranty"
        BY <1>7, <3>4 DEF Decide, EscalationReasons
      <3> QED
        BY <2>2, <3>1, <3>2, <3>3, <3>4 DEF Verdicts
    <2> HIDE DEF d
    <2>4. \A reason \in EscalationReasons :
             /\ e(reason) \in Session
             /\ e(reason).settled = c.settled /\ e(reason).ticket = c.ticket
      BY <2>1, EscalatedKeeps DEF Decisions
    <2> HIDE DEF e
    <2> QED
      BY <2>1, <2>3, <2>4, AdvanceKeeps, RoutesToNodes DEF Decisions
  <1> QED
    BY <1>2, <1>3, <1>4, <1>5, <1>6, <1>7

\* A failed action and a closed case claim nothing new.
LEMMA CloseKeeps ==
    ASSUME IInv, NEW w \in Turns,
           FailReturnLabel(w) \/ FailRefund(w) \/ Confirm(w) \/ ConfirmRefusal(w)
    PROVE  KeepsPromises(w)
  <1> DEFINE c == st[w]
  <1>1. c \in Session
    BY DEF IInv, TypeOK
  <1>2. CASE FailReturnLabel(w) \/ FailRefund(w)
    <2> DEFINE gone == Escalated(c, "technical_action_failed")
    <2>1. Advance(w, gone, RouteAfterAutoAction(gone))
      BY <1>2 DEF FailReturnLabel, FailRefund
    <2>2. gone \in Session /\ gone.settled = c.settled /\ gone.ticket = c.ticket
      BY <1>1, EscalatedKeeps DEF EscalationReasons
    <2> HIDE DEF gone
    <2> QED
      BY <2>1, <2>2, AdvanceKeeps, RoutesToNodes
  <1>3. CASE Confirm(w)
    <2>1. st'[w] = [c EXCEPT !.node = "CONFIRMATION"] /\ pc'[w] = "SAVE"
      BY <1>3 DEF Confirm, Move, IInv, TypeOK
    <2> QED
      BY <1>1, <2>1 DEF KeepsPromises, Session
  <1>4. CASE ConfirmRefusal(w)
    <2>1. PICK recorded \in BOOLEAN :
             Move(w, "SAVE", [c EXCEPT !.node = "CONFIRMATION",
                                       !.referenced = @ \/ recorded])
      BY <1>4 DEF ConfirmRefusal
    <2> DEFINE n == c.referenced \/ recorded
    <2>2. st'[w] = [c EXCEPT !.node = "CONFIRMATION", !.referenced = n]
      BY <2>1 DEF Move, IInv, TypeOK
    <2>3. pc'[w] = "SAVE"
      BY <2>1 DEF Move, IInv, TypeOK
    <2> HIDE DEF n
    <2> QED
      BY <1>1, <2>2, <2>3 DEF KeepsPromises, Session
  <1> QED
    BY <1>2, <1>3, <1>4

LEMMA OthersKeep ==
    ASSUME IInv, NEW w \in Turns, Computes(w), ~Claims(w)
    PROVE  KeepsPromises(w)
  BY TalkKeeps, ExamineKeeps, CloseKeeps DEF Computes, Claims

-----------------------------------------------------------------------------
\* Effects that a successful call leaves behind.
LEMMA RanOnce ==
    ASSUME NEW f \in [Sessions -> Nat], NEW x \in Sessions, NEW g,
           \E k \in Runs(TRUE) : g = [f EXCEPT ![x] = @ + k]
    PROVE  g[x] > 0
  BY TurnAssumption DEF Runs

\* Every claim is true when it is made.
LEMMA ClaimsBacked ==
    ASSUME PInv, NEW w \in Turns, Claims(w), CountersGrow, of[w] \in Sessions
    PROVE  Backed(st'[w], pc'[w], labels'[of[w]], refunds'[of[w]], tickets'[of[w]])
  <1> DEFINE c == st[w]
             x == of[w]
  <1>1. c \in Session
    BY DEF PInv, IInv, TypeOK
  <1>2. pc[w] # "idle"
    BY DEF Claims, CreateReturnLabel, TriggerRefund, CreateTicket, FailTicket, Notify
  <1>3. Backed(c, pc[w], labels[x], refunds[x], tickets[x])
    BY <1>2 DEF PInv, PromiseInv
  <1>4. /\ labels[x] \in Nat /\ refunds[x] \in Nat /\ tickets[x] \in Nat
        /\ labels'[x] \in Nat /\ refunds'[x] \in Nat /\ tickets'[x] \in Nat
        /\ labels'[x] >= labels[x] /\ refunds'[x] >= refunds[x]
        /\ tickets'[x] >= tickets[x]
    BY DEF PInv, IInv, TypeOK, CountersGrow, Grows
  <1>5. Backed(c, pc[w], labels'[x], refunds'[x], tickets'[x])
    BY <1>3, <1>4, BackedMono
  <1>6. CASE CreateReturnLabel(w)
    <2>1. labels'[x] > 0
      BY <1>6, RanOnce DEF CreateReturnLabel, Ran, CreateReturn, PInv, IInv, TypeOK
    <2>2. st'[w] = c /\ pc'[w] = "TRIGGER_REFUND"
      BY <1>6 DEF CreateReturnLabel, Move, PInv, IInv, TypeOK
    <2> QED
      BY <1>5, <2>1, <2>2 DEF Backed
  <1>7. CASE TriggerRefund(w)
    <2> DEFINE q == [c EXCEPT !.settled = TRUE, !.referenced = TRUE]
    <2>1. refunds'[x] > 0
      BY <1>7, RanOnce DEF TriggerRefund, Ran, Refund, PInv, IInv, TypeOK
    <2>2. labels'[x] > 0
      BY <1>5, <1>7 DEF TriggerRefund, Backed
    <2>3. Advance(w, q, RouteAfterAutoAction(q))
      BY <1>7 DEF TriggerRefund
    <2>4. q \in Session /\ q.ticket = c.ticket
      BY <1>1 DEF Session
    <2> HIDE DEF q
    <2>5. st'[w].ticket = c.ticket /\ pc'[w] \notin {"TRIGGER_REFUND", "NOTIFY"}
      BY <2>3, <2>4, AdvanceLands, RoutesToNodes DEF PInv
    <2> QED
      BY <1>5, <2>1, <2>2, <2>5 DEF Backed
  <1>8. CASE CreateTicket(w)
    <2>1. tickets'[x] > 0
      BY <1>8, RanOnce DEF CreateTicket, Ran, OpenTicket, PInv, IInv, TypeOK
    <2>2. st'[w] = c /\ pc'[w] = "NOTIFY"
      BY <1>8 DEF CreateTicket, Move, PInv, IInv, TypeOK
    <2> QED
      BY <1>5, <2>1, <2>2 DEF Backed
  <1>9. ASSUME NEW told \in BOOLEAN, Advance(w, HandedOver(c, told), "CONFIRMATION"),
               told => tickets'[x] > 0
        PROVE  Backed(st'[w], pc'[w], labels'[x], refunds'[x], tickets'[x])
    <2> DEFINE q == HandedOver(c, told)
    <2>1. q \in Session /\ q.settled = c.settled /\ q.ticket = told
      BY <1>1 DEF HandedOver, Session
    <2>2. /\ st'[w].settled = c.settled /\ st'[w].ticket = told
          /\ pc'[w] \notin {"TRIGGER_REFUND", "NOTIFY"}
      BY <1>9, <2>1, AdvanceLands DEF PInv, Nodes
    <2> QED
      BY <1>5, <1>9, <2>2 DEF Backed
  <1>10. CASE FailTicket(w)
    BY <1>9, <1>10 DEF FailTicket
  <1>11. CASE Notify(w)
    <2>1. tickets'[x] > 0
      BY <1>5, <1>11 DEF Notify, Backed
    <2> QED
      BY <1>9, <1>11, <2>1 DEF Notify
  <1> QED
    BY <1>6, <1>7, <1>8, <1>10, <1>11 DEF Claims

\* Only the two steps of trigger_refund refund, and after a label.
LEMMA RefundsFollow ==
    ASSUME PInv, [Next]_vars, CountersGrow
    PROVE  RefundFollowsLabel'
  <1>1. RefundFollowsLabel
    BY DEF PInv, PromiseInv
  <1>2. ASSUME NEW w \in Turns, TriggerRefund(w) \/ FailRefund(w)
        PROVE  RefundFollowsLabel'
    <2>1. pc[w] = "TRIGGER_REFUND" /\ labels' = labels
      BY <1>2 DEF TriggerRefund, FailRefund
    <2>2. of[w] \in Sessions /\ labels[of[w]] > 0
      BY <2>1 DEF PInv, PromiseInv, IInv, SoundInv, Backed
    <2>3. \A s \in Sessions : s # of[w] => refunds'[s] = refunds[s]
      BY <1>2 DEF TriggerRefund, FailRefund, Ran, Refund, PInv, IInv, TypeOK
    <2> QED
      BY <1>1, <2>1, <2>2, <2>3 DEF RefundFollowsLabel
  <1>3. CASE refunds' = refunds
    BY <1>1, <1>3 DEF RefundFollowsLabel, CountersGrow, Grows, PInv, IInv, TypeOK
  <1>4. ASSUME NEW w \in Turns, Computes(w), ~(TriggerRefund(w) \/ FailRefund(w))
        PROVE  refunds' = refunds
    BY <1>4
    DEF Computes, Greet, HoldIdentification, Identify, FailIdentification,
        IdentificationUnavailable, Qualify, AskIntent, CollectReturn,
        AskDescription, CollectComplaint, RecordComplaint, Verify,
        VerificationUnavailable, Decide, CreateReturnLabel, FailReturnLabel,
        CreateTicket, FailTicket, Notify, Confirm, ConfirmRefusal, Quiet, backend
  <1>5. ASSUME NEW w \in Turns, Drops(w) \/ Save(w) \/ TurnAway(w)
        PROVE  refunds' = refunds
    BY <1>5
    DEF Drops, DropOnFailure, LoseComplaint, Crash, Save, TurnAway, backend
  <1>6. ASSUME NEW w \in Turns, NEW s \in Sessions, Receive(w, s)
        PROVE  refunds' = refunds
    BY <1>6 DEF Receive, backend
  <1>7. ASSUME NEW s \in Sessions, Expire(s) PROVE refunds' = refunds
    BY <1>7 DEF Expire, backend
  <1>8. CASE UNCHANGED vars
    BY <1>3, <1>8 DEF vars, backend
  <1> QED
    BY <1>2, <1>3, <1>4, <1>5, <1>6, <1>7, <1>8, NextCases

\* A claim stays true in every copy a step leaves alone.
LEMMA OthersBacked ==
    ASSUME PInv, CountersGrow, NEW s, NEW p, NEW x \in Sessions,
           Backed(s, p, labels[x], refunds[x], tickets[x])
    PROVE  Backed(s, p, labels'[x], refunds'[x], tickets'[x])
  <1>1. /\ labels[x] \in Nat /\ refunds[x] \in Nat /\ tickets[x] \in Nat
        /\ labels'[x] \in Nat /\ refunds'[x] \in Nat /\ tickets'[x] \in Nat
        /\ labels'[x] >= labels[x] /\ refunds'[x] >= refunds[x]
        /\ tickets'[x] >= tickets[x]
    BY DEF PInv, IInv, TypeOK, CountersGrow, Grows
  <1> QED
    BY <1>1, BackedMono

LEMMA NextPromises ==
    ASSUME PInv, [Next]_vars
    PROVE  PromiseInv'
  <1>1. CountersGrow
    BY CountersNext DEF PInv
  <1>2. RefundFollowsLabel'
    BY <1>1, RefundsFollow
  <1>3. /\ \A w \in Turns : pc[w] # "idle" =>
              /\ of[w] \in Sessions
              /\ Backed(st[w], pc[w], labels'[of[w]], refunds'[of[w]], tickets'[of[w]])
        /\ \A s \in Saved :
              Backed(store[s], "SAVE", labels'[s], refunds'[s], tickets'[s])
    BY <1>1, OthersBacked DEF PInv, PromiseInv, IInv, SoundInv, Saved
  <1>4. /\ pc \in [Turns -> Points \union {"idle"}]
        /\ st \in [Turns -> Session]
        /\ of \in [Turns -> Sessions \union {NoSession}]
        /\ store \in [Sessions -> Session \union {NoSession}]
    BY DEF PInv, IInv, TypeOK
  <1>5. ASSUME NEW w \in Turns, Computes(w) PROVE PromiseInv'
    <2>1. MovesSoundly(w) /\ pc[w] # "idle" /\ UNCHANGED <<store, of>>
      BY <1>5, ComputesSound DEF PInv
    <2>2. Backed(st'[w], pc'[w], labels'[of[w]], refunds'[of[w]], tickets'[of[w]])
      <3>1. CASE Claims(w)
        BY <1>1, <1>3, <2>1, <3>1, ClaimsBacked
      <3>2. CASE ~Claims(w)
        <4>1. KeepsPromises(w)
          BY <1>5, <3>2, OthersKeep DEF PInv
        <4> QED
          BY <1>3, <2>1, <4>1 DEF KeepsPromises, Backed
      <3> QED
        BY <3>1, <3>2
    <2>3. \A v \in Turns : v # w => pc'[v] = pc[v] /\ st'[v] = st[v]
      BY <1>4, <2>1 DEF MovesSoundly, Move
    <2> QED
      BY <1>2, <1>3, <2>1, <2>2, <2>3 DEF PromiseInv, Saved
  <1>6. ASSUME NEW w \in Turns, Drops(w) PROVE PromiseInv'
    <2>1. Finish(w) /\ store' = store
      BY <1>6 DEF Drops, DropOnFailure, LoseComplaint, Crash, Drop
    <2>2. /\ pc'[w] = "idle"
          /\ \A v \in Turns :
                v # w => pc'[v] = pc[v] /\ st'[v] = st[v] /\ of'[v] = of[v]
      BY <1>4, <2>1 DEF Finish
    <2> QED
      BY <1>2, <1>3, <2>1, <2>2 DEF PromiseInv, Saved
  <1>7. ASSUME NEW w \in Turns, Save(w) PROVE PromiseInv'
    <2>1. Finish(w) /\ pc[w] = "SAVE" /\ store' = [store EXCEPT ![of[w]] = st[w]]
      BY <1>7 DEF Save
    <2>2. /\ pc'[w] = "idle"
          /\ \A v \in Turns :
                v # w => pc'[v] = pc[v] /\ st'[v] = st[v] /\ of'[v] = of[v]
      BY <1>4, <2>1 DEF Finish
    <2>3. \A s \in Sessions :
             store'[s] = IF s = of[w] THEN st[w] ELSE store[s]
      BY <1>4, <2>1
    <2>4. Backed(st[w], "SAVE", labels'[of[w]], refunds'[of[w]], tickets'[of[w]])
      BY <1>3, <2>1
    <2>5. \A s \in Saved' :
             Backed(store'[s], "SAVE", labels'[s], refunds'[s], tickets'[s])
      BY <1>3, <2>3, <2>4 DEF Saved
    <2> QED
      BY <1>2, <1>3, <2>2, <2>5 DEF PromiseInv
  <1>8. ASSUME NEW w \in Turns, NEW s \in Sessions, Receive(w, s) PROVE PromiseInv'
    <2> DEFINE c == IF store[s] = NoSession THEN FreshSession ELSE store[s]
    <2>1. Move(w, c.node, c) /\ of' = [of EXCEPT ![w] = s] /\ store' = store
      BY <1>8 DEF Receive
    <2>2. c \in Session
      BY <1>4, FreshTyped
    <2>3. Backed(c, c.node, labels'[s], refunds'[s], tickets'[s])
      <3>1. c.node \notin {"TRIGGER_REFUND", "NOTIFY"}
        BY <2>2 DEF Session, Nodes
      <3>2. CASE store[s] = NoSession
        BY <3>1, <3>2 DEF Backed, FreshSession
      <3>3. CASE store[s] # NoSession
        <4>1. Backed(c, "SAVE", labels'[s], refunds'[s], tickets'[s])
          BY <1>3, <3>3 DEF Saved
        <4> HIDE DEF c
        <4> QED
          BY <3>1, <4>1 DEF Backed
      <3> QED
        BY <3>2, <3>3
    <2> HIDE DEF c
    <2>4. /\ pc'[w] = c.node /\ st'[w] = c /\ of'[w] = s
          /\ \A v \in Turns :
                v # w => pc'[v] = pc[v] /\ st'[v] = st[v] /\ of'[v] = of[v]
      BY <1>4, <2>1 DEF Move
    <2> QED
      BY <1>2, <1>3, <2>1, <2>3, <2>4 DEF PromiseInv, Saved
  <1>9. ASSUME NEW w \in Turns, TurnAway(w) PROVE PromiseInv'
    BY <1>2, <1>3, <1>9 DEF TurnAway, PromiseInv, Saved
  <1>10. ASSUME NEW s \in Sessions, Expire(s) PROVE PromiseInv'
    <2>1. /\ UNCHANGED <<pc, of, st>>
          /\ store' = [store EXCEPT ![s] = NoSession]
      BY <1>10 DEF Expire
    <2>2. \A x \in Saved' : x \in Saved /\ store'[x] = store[x]
      BY <1>4, <2>1 DEF Saved
    <2> QED
      BY <1>2, <1>3, <2>1, <2>2 DEF PromiseInv
  <1>11. CASE UNCHANGED vars
    BY <1>2, <1>3, <1>11 DEF vars, PromiseInv, Saved
  <1> QED
    BY <1>5, <1>6, <1>7, <1>8, <1>9, <1>10, <1>11, NextCases

LEMMA PromiseInvariance == Spec => []PInv
  <1>1. Init => PInv
    <2> SUFFICES ASSUME Init PROVE PromiseInv
      BY InitIInv DEF PInv
    <2> QED
      BY DEF Init, PromiseInv, Saved, RefundFollowsLabel
  <1>2. PInv /\ [Next]_vars => PInv'
    BY NextIInv, NextPromises DEF PInv
  <1> QED
    BY <1>1, <1>2, PTL DEF Spec

-----------------------------------------------------------------------------
\* No refund, not even one of a turn that was dropped, without a return on
\* record (auto_action_node calls create_return_label first).
THEOREM RefundsAlwaysFollowLabels == Spec => []RefundFollowsLabel
  <1>1. PInv => RefundFollowsLabel
    BY DEF PInv, PromiseInv
  <1> QED
    BY <1>1, PromiseInvariance, PTL

\* Whatever overlaps or is lost, a saved session reports no refund and quotes
\* no ticket that the back office does not have (auto_action_node,
\* escalation_node, confirmation_node).
THEOREM NoPromiseIsEmpty == Spec => []NoEmptyPromise
  <1>1. PInv => NoEmptyPromise
    <2> SUFFICES ASSUME PInv, NEW s \in Saved
                 PROVE  /\ store[s].settled => refunds[s] > 0 /\ labels[s] > 0
                        /\ store[s].ticket => tickets[s] > 0 /\ store[s].escalated
                        /\ store[s].decision = "auto" =>
                              store[s].settled \/ store[s].escalated
      BY DEF NoEmptyPromise
    <2>1. Backed(store[s], "SAVE", labels[s], refunds[s], tickets[s])
      BY DEF PInv, PromiseInv
    <2>2. store[s].node \in Resumable /\ SoundAt(store[s], store[s].node)
      BY DEF PInv, IInv, SoundInv, Sound, Where
    <2> QED
      BY <2>1, <2>2 DEF Backed, SoundAt, Acting, Resumable, RequiresFreshInput
  <1> QED
    BY <1>1, PromiseInvariance, PTL

\* A ticket is only opened for a session that was escalated with a reason
\* (escalation_node is entered through an escalation alone).
THEOREM TicketsAlwaysExplained == Spec => TicketsAreExplained
  <1> DEFINE Explained(s) ==
                \E w \in Turns : of[w] = s /\ st[w].escalated /\ st[w].why # "none"
             Opens(w) == CreateTicket(w) \/ FailTicket(w)
  <1>1. ASSUME NEW w \in Turns, IInv, Opens(w)
        PROVE  /\ Explained(of[w])
               /\ \A s \in Sessions : s # of[w] => tickets'[s] = tickets[s]
    <2>1. pc[w] = "ESCALATION"
      BY <1>1 DEF CreateTicket, FailTicket
    <2>2. SoundAt(st[w], "ESCALATION")
      BY <1>1, <2>1 DEF IInv, SoundInv, Sound, Where
    <2>3. \A s \in Sessions : s # of[w] => tickets'[s] = tickets[s]
      BY <1>1 DEF CreateTicket, FailTicket, Ran, OpenTicket, IInv, TypeOK
    <2> QED
      BY <2>2, <2>3 DEF SoundAt
  <1>2. ASSUME [Next]_vars, ~\E w \in Turns : Opens(w)
        PROVE  tickets' = tickets
    <2>1. ASSUME NEW w \in Turns, Computes(w), ~Opens(w)
          PROVE  tickets' = tickets
      BY <2>1
      DEF Computes, Greet, HoldIdentification, Identify, FailIdentification,
          IdentificationUnavailable, Qualify, AskIntent, CollectReturn,
          AskDescription, CollectComplaint, RecordComplaint, Verify,
          VerificationUnavailable, Decide, CreateReturnLabel, FailReturnLabel,
          TriggerRefund, FailRefund, Notify, Confirm, ConfirmRefusal, Quiet, backend
    <2>2. ASSUME NEW w \in Turns, Drops(w) \/ Save(w) \/ TurnAway(w)
          PROVE  tickets' = tickets
      BY <2>2
      DEF Drops, DropOnFailure, LoseComplaint, Crash, Save, TurnAway, backend
    <2>3. ASSUME NEW w \in Turns, NEW s \in Sessions, Receive(w, s)
          PROVE  tickets' = tickets
      BY <2>3 DEF Receive, backend
    <2>4. ASSUME NEW s \in Sessions, Expire(s) PROVE tickets' = tickets
      BY <2>4 DEF Expire, backend
    <2>5. CASE UNCHANGED vars
      BY <2>5 DEF vars, backend
    <2> QED
      BY <1>2, <2>1, <2>2, <2>3, <2>4, <2>5, NextCases
  <1> HIDE DEF Opens, Explained
  <1>3. IInv /\ [Next]_vars =>
           [\A s \in Sessions : tickets'[s] # tickets[s] => Explained(s)]_vars
    BY <1>1, <1>2
  <1> QED
    BY <1>3, Invariance, PTL DEF Spec, TicketsAreExplained, Explained
=============================================================================
