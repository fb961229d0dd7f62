# Rockey, formally

TLA+ models of Rockey, the customer-service agent in this repository: a Java gateway that
receives messages from a Web widget and from a mailbox, a Python agent that leads the
conversation, and Java back-office services that decide eligibility and keep the cases.
TLC checks the models on small instances, TLAPS proves theorems about them for every value
of their constants.

## 1. The system

| Component | State | Operations | Talks to |
|---|---|---|---|
| Message endpoint (`python-agent/src/main.py`) | none of its own | `POST /v1/messages`, RAG sync | session store, node graph, tenant configuration |
| Session store (`agent/memory/session_store.py`) | Redis: one JSON session per tenant, channel and client, 30 minutes of life | get, set with a new lifetime | - |
| Conversation engine (`agent/graph.py`, `agent/states/`) | the turn's copy of the session (`AgentState`) | `run_turn`, ten nodes, six routers | the tools below |
| Agent tools (`agent/tools/`, `history_store.py`, `slack_notifier.py`) | none | one external call each, three for `escalate_to_human` | Java, pgvector, Claude, Slack |
| Circuit breaker (`config/circuit_breaker.py`) | the loop of one call | `call_with_breaker` | every tool |
| Back office (`dossier/`, `returns/`, `refunds/`, `tickets/`) | dossiers in PostgreSQL | accept, refuse, escalate, refund | PostgreSQL |
| Client history (`history/`) | complaint count per client | `recordComplaint` | PostgreSQL |
| Eligibility (`eligibility/`) | policy file | return and complaint checks | orders |
| RAG (`agent/rag/`) | chunks and article vectors | startup sync, manual sync, query | Drive, pgvector |
| Email channel (`EmailController`, `EmailAdapter`) | SEEN flags of the mailbox | poll | agent |
| Web channel (`widget.js`, `WebChatController`, `AgentClient`) | session id in the browser | send, answer, report an error | agent |
| Orders, tenant configuration, admin, security, prompts, schema, logging | tables, files | look-ups, filters, text | - |

A customer message travels widget or mailbox -> gateway -> agent.  The agent loads the
session, runs nodes until one needs the next message, saves the session and answers.  Only
the nodes act on the world, through the tools, and each tool goes through the breaker.

What is hard about it:

* **Nothing locks a session.**  The endpoint is asynchronous, the session is read at the start
  of a turn and written as a whole at its end.  Two messages of one customer interleave at
  every `await`.
* **Effects come before the save.**  A label, a refund or a ticket exists before the session
  knows of it; whatever ends the turn in between replays the step later.
* **Retries repeat requests that may have worked.**  The breaker sees a timeout, not its cause,
  and none of the POSTs is idempotent.
* **Some failures are routed, some are not.**  Five nodes catch `TechnicalFailure`
  (identification, verification, auto action, escalation, confirmation), three do not (greeting,
  return flow, complaint flow), and a Slack error after a ticket is caught by nobody.
* **Sessions expire** between turns and under a running turn.
* **Not every wait is bounded.**  The breaker times the calls of the tools; Redis, IMAP and SMTP are used
  without a timeout.
* **Customers are known by what they type.**  An address is compared ignoring its case when a customer is
  identified, and exactly when the complaint history is read.
* **The policy changes under the decisions.**  A sync deletes and re-inserts the retailer's documents
  statement by statement while every eligibility check reads its thresholds out of them.
* **Each channel has a state of its own**: a mail is remembered by its SEEN flag, which fetching the
  body sets and not the reply; a chat by the session id in the browser, which is read when a message
  is sent and written when an answer comes.

What makes each component correct:

* Breaker: bounded repetition, a result that means what callers think, and a return in any case.
* Conversation: a saved session can always go on; nothing is done for a customer who is not
  identified and approved; limits lead to a human; what a session claims is true of the back
  office; a turn comes to a reply; escalation is final; no turn acts a second time without a loss.
* Back office and history: one case per decision, one first complaint per customer.
* Eligibility: no step back at any boundary, and a defect is never treated worse than a change of mind.
* RAG: readers never see a mix of two versions, and a complete sync stays complete.
* Channels: a mail is handed over once, in order, and in the end, unless the poll hangs; a conversation that has found its
  session keeps it; messages of a session overlap only for a known reason.

## 2. The modules

| Module | Models | Relation |
|---|---|---|
| `BoundedCall` | what a caller may rely on when a call goes through the breaker | abstract |
| `CircuitBreaker` | `call_with_breaker`, the service and the network for one call | implements `BoundedCall` |
| `CircuitBreakerProofs` | theorems about `CircuitBreaker` | |
| `Conversation` | a case as data-model.md describes it: stage and outcome | abstract |
| `AgentTurn` | `main.py` without RAG, `graph.py`, all nodes and tools | uses the contract of `BoundedCall`, implements `Conversation` |
| `MCAgentTurn` | the TLC instances of `AgentTurn` | |
| `AgentTurnProofs` | theorems about `AgentTurn`'s sessions | |
| `ComplaintRegister` | what may be relied on when a complaint is recorded | abstract |
| `ClientHistory` | `recordComplaint` under concurrent requests | implements `ComplaintRegister` |
| `MCClientHistory` | its TLC instance | |
| `ClientHistoryProofs` | theorems about `ClientHistory` | |
| `AgentPromisesProofs` | theorems that relate sessions and back office | uses the invariant of `AgentTurnProofs` |
| `AgentProgressProofs` | theorems about how far a conversation gets, its limits, and its refinement | uses the invariant of `AgentTurnProofs`, and `AgentExchanges` |
| `AgentExchanges` | `AgentTurn` with counts of what happened over all turns of a session | extends `AgentTurn` |
| `MCAgentExchanges` | its TLC instances | extends `MCAgentTurn` |
| `RagSync` | `rag_indexer.py`, the start of the agent and the manual resync | |
| `Eligibility` | `EligibilityService`, its controller, the agent's decision: pure operators | |
| `LivePolicy` | `PolicyLoader`: decisions on the policy that is being synchronized | composes `RagSync` and `Eligibility` |
| `MCLivePolicy` | its TLC instance | |
| `RagSyncProofs`, `LivePolicyProofs` | theorems about them | |
| `AgentClient` | the gateway's call of the agent, with its timeout | |
| `EmailPoll` | `EmailController`, `EmailAdapter` | extends `AgentClient` |
| `WebChat` | `widget.js`, `WebChatController`, `ChatErrorHandler` | extends `AgentClient` |
| `Gateway` | both channels, and crashes of the gateway | composes `EmailPoll` and `WebChat` |
| `MCGateway` | its TLC instance | |
| `GatewayProofs` | theorems about `Gateway` | |

### CircuitBreaker

`attempt` is the loop variable, `request` the request of the current try as the service sees
it, `late` the requests whose try timed out and which the service may still run, `effects`
how often the operation ran, `result` what the caller got.  `Try`, `Answer`, `RaiseBusiness`,
`GiveUpTry` and `Exhaust` are the lines of the loop; `Run`, `Refuse`, `Lose`, `LateRun` and
`LateDrop` are the service and the network.  `GiveUpTry` may fire whatever became of the
request, because a timeout says nothing about it.  `kind` tells the three sorts of calls apart:
those that can raise a `BusinessFailure`, those with `on_fallback`, and the rest.

### AgentTurn

`store` is Redis.  For every turn `w` in flight, `of[w]` is its session, `st[w]` its copy and
`pc[w]` where it stands: before a node, before a later call of the same node
(`RECORD_COMPLAINT`, `TRIGGER_REFUND`, `NOTIFY`) or before `save_session` (`SAVE`).  `labels`,
`refunds`, `tickets`, `refusals` and `complaints` count what the back office holds.  `acted`,
`opened`, `reports`, `lost` and `expired` are history: no action reads them.

| Code | Actions |
|---|---|
| `process_message` | `TurnAway`, `Receive`, `Save`, `Crash` |
| Redis lifetime | `Expire` |
| `greeting_node` | `Greet` |
| `identification_node` | `HoldIdentification`, `Identify`, `FailIdentification`, `IdentificationUnavailable` |
| `qualification_node` | `Qualify`, `AskIntent` |
| `return_flow_node` | `CollectReturn` |
| `complaint_flow_node` | `AskDescription`, `CollectComplaint`, then `RecordComplaint` or `LoseComplaint` |
| `verification_node` | `Verify`, `VerificationUnavailable` |
| `decision_node` | `Decide` |
| `auto_action_node` | `CreateReturnLabel` or `FailReturnLabel`, then `TriggerRefund` or `FailRefund` |
| `escalation_node` with `escalate_to_human` | `CreateTicket` or `FailTicket`, then `Notify` |
| `confirmation_node` | `Confirm`, `ConfirmRefusal` |
| a `TechnicalFailure` or Slack error no node catches | `DropOnFailure` |

`Advance` is the loop of `run_turn`: it sets `current_state` and pauses before a node of
`_REQUIRES_FRESH_INPUT`.  Abstractions, and why they are sound for the properties stated:

* A message is what its one reading node finds in it.  A turn runs at most one node that reads
  it, so the node may choose.
* `order` stands for `client_email`, `order_id` and `order_data`: the address as it was typed and the item
  ordered.  `CustomerOf` says whose address it is, whatever its case; no action reads it.  `settled` stands for `return_id` and
  `refund_id`, which the code sets in one assignment each.
* `Verdicts` are the combinations of `eligible`, `autoApprovable` and `appliedRule` that
  `EligibilityController` can answer; which one is Java's business and left open.
* A call is one step with the outcome and the number of effects that `BoundedCall` allows
  (`Runs`, `Ran`): it succeeded and ran one to `MaxRetries + 1` times, or failed and ran up to
  `MaxRetries + 1` times.  Effects that land after the call returned are counted when it
  returns; only `RecordComplaint` reads a count, and there a later effect can only mean that
  fewer complaints are seen, which a smaller number of runs also gives.
* `recordComplaint` on the Java side is one step, whose answer depends only on whether the address
  has a complaint on record.  The code has no transaction there; `ClientHistory` shows that this
  answer is that of an atomic register all the same, one in which a call that failed may have been recorded.  The count itself may fall behind, and no
  action or property of `AgentTurn` uses more of it than whether it is zero.
* Look-ups (`get_tenant_config`, `check_order`, `get_article_by_id`, eligibility) have no effect
  and are only their outcome.

`AgentExchanges` adds history variables to all this: how many exchanges in a row changed nothing
(`stalled`), and how many identifications failed (`failures`) and how many messages were too vague
(`questions`) while the session lived, in turns that were saved and in turns that were not.  So the limits are
stated against what happened to the customer, and not against the session's own counters.

### ClientHistory

`row` is the customer's `complaint_count` (0: no row), `held` the `priorCount` a request has read,
`status` how far it is or what it was answered.  `Find` is the query; `Insert`, `InsertConflict` and
`Update` are the three ways `repository.save` can go: the row is new, another request inserted it in
the meantime, or it was there when it was read.  A save commits on its own, and its request may fail all the
same, because the connection is lost at the commit or the process ends before the answer: `Commit` leaves
the answer or `"failed"`.  `Break` is a failure before the save or one that rolls it back.  A retry of the
breaker is one more request.  `saved` and `raced` are history.  Mapped to `ComplaintRegister`, a customer is
known when there is a row.

### RagSync and LivePolicy

A row of `rows` is a row of `rag_documents`: name, index, and the file and version its text came
from.  `job[j]` holds the local variables of one run of `sync_from_drive`; each Drive call and each SQL
statement is a step, because each statement commits on its own.  `FailExtract` and `FailInsert` are
the `except` around a file, `Raise` an exception outside of it, `Crash` the end of the process.
`Boot` is `startup_rag_sync` with its count, `Trigger` the endpoint for operators.  `shared` and
`whole` are history: whether two syncs wrote side by side, and which files at which version the last
sync indexed alone and without an error.

`Load` is what `PolicyLoader.load` would return at this moment: a function of the rows, because it
reads them in one SELECT.  A chunk states a fact or does not, which is whether the regular expression
of this fact matches it; the first match in the order of the SELECT counts.  A missing fact, or
amounts that do not increase, give the bundled file.  An eligibility check is that function applied
to an order (`Decide`), so it interleaves with the syncs at every step.

Abstractions: files of one version are never changed while they are downloaded; two files of one name
overwrite each other's chunks (`ON CONFLICT`), and the properties exempt them (`Sole`); the folder is
its first page, as `list_drive_files` reads no further one; a statement that was under way when the
process ended is counted as run or not run before the crash; days are relative to the delivery.  Amounts are whole numbers, since only their order matters.

### Gateway

`call[m]` is the call of message `m`: the gateway's side (`by`), the agent's side (`turn`), which
goes on after the gateway has given up, and the session.  `seen` and `replied` are the mailbox,
`queue` and `at` the loop of `pollEmails`; `Skip` is a mail without a sender, whose header is refused before
the body is read, `FailRead` a body that cannot be read, `FailReply` a failed call or a refused
reply, `Hang` a call of a server that never returns.  `stored` is the widget's `sessionStorage`, `asked` the id each message was sent with,
`pending` what the widget waits for; an id the gateway makes up is known by the message it was made
for.  `hasty`, `spoiled` and `broken` are history.

IMAP marks a mail as seen when its body is fetched: the code does not ask for `BODY.PEEK`, and
jakarta.mail does not by itself.  This, and not `setFlag` after the reply, is what keeps a crash from
having a mail processed twice.  The other side of it: a mail whose call or reply failed is seen and
is never tried again: no later poll finds it, and only a line in the log is left.

### Conversation

Cases with a `stage` (new, identifying, qualifying, collecting, closed) and an `outcome`.
`AgentTurn!Case` maps each saved session to a case: a session that was never saved is new, one
that stands before a node is at that node's stage, one at `CONFIRMATION` is closed, and its
outcome is read from `escalated`, `intent`, `decision` and `settled`.

## 3. The runs

| Run | Instance | Question |
|---|---|---|
| `CircuitBreaker` | 2 retries (the configured value) | is the effect bounded, does the result mean what callers think, does every call return, does the loop implement `BoundedCall` |
| `AgentSequential` | 1 turn, 1 session, 1 retry, 6 messages, crashes, expiry | what holds when messages of a session do not overlap: is nothing undone or repeated, and do the limits, counted over all turns, lead to a human |
| `AgentConcurrent` | 2 turns, 1 session, no retry, 5 messages, crashes, expiry | what holds when they do |
| `AgentTwoChannels` | 1 turn, 2 sessions, 1 address, 1 retry, 8 messages, crashes, fairness | is a second complaint always flagged, does every turn come to a reply, do saved sessions implement `Conversation` |
| `ClientHistory` | 5 requests, 2 customers, failures before and after the save | are the answers those of an atomic register, and is the count what was recorded |
| `LivePolicy` | 2 files (a policy of 2 versions, another one of 1), 2 syncs, 1 article, 7 orders, fairness | is the index sound at every moment, which policy is applied, what does it decide at the boundaries, does every sync end |
| `Gateway` | 3 mails of one customer (one without a sender), 1 widget with 2 messages, hanging polls, crashes, fairness | is each mail handed over once, in order, in the end; which overlaps and broken conversations can the channels produce |

`ClientHistory` runs five requests, three about one customer and two about another: three are the
fewest with which an update can overwrite a later count, two customers show that rows do not mix.

In `LivePolicy` two versions of two chunks are the fewest that can be mixed or have a gap, two syncs the
fewest that can meet; the other file shows that one document does not disturb another.  The
orders lie on the last day and the last amount of each of the three policies (both versions and the bundled
one), and the properties look one day and one unit further.  In `Gateway` the mail without a sender comes between
two others, so that it can hold them up; two messages of a widget are the fewest that fork or overlap.

The bounds of the agent's runs: the longest way to a closed session without detours takes four messages (greeting,
identification, qualification, reason), so five and six messages leave room for a lost turn, a
question, a failed identification, a second session after an expiry, or a message to a closed
case; eight messages let two sessions reach their end.  One retry already
separates a call that ran once from one that ran twice; `AgentConcurrent` needs none, since
repetition by overlap and crash is what it is about.  Overlapping turns of two sessions are left to the
theorem about `OneUnflaggedComplaint`.  `MaxMessages` only stops `sent` from
growing.  In `AgentConcurrent` the turns are symmetric.  `AgentTwoChannels` has a VIEW: labels, refunds,
tickets, refusals and the history variables are counted by the actions and read by none, and neither do its properties read
them, so states that differ in nothing else are one.

`CHECK_DEADLOCK FALSE` is set in all of them: a call that returned stops, and so does an agent
whose customers have sent all their messages.

What the properties say, beyond types:

* `RepetitionNeedsLoss`: acting or escalating a second time in one session is always paid for by a
  dropped turn or an expired session, when messages do not overlap.  It counts turns, not effects: within one
  turn the breaker may run a request `MaxRetries + 1` times, and so make two refunds or tickets with nothing
  lost (`EffectBound` is the bound on that).
* `ProgressIsKept`, `EscalationIsFinal`: a later message undoes neither an identification, a
  decision, a refund, a counter nor an escalation.  They need the absence of overlap:
  `AgentOverlap` shows what happens otherwise.
* `SavedSessionsResume`: with any overlap, crash or expiry, what is in Redis can be resumed and
  holds what its node reads without looking.
* `NoEmptyPromise`, `RefundFollowsLabel`: what a session claims exists in the back office.
* `TicketsAreExplained`, `ActionsAreAuthorised`: a ticket has a reason, money needs an identified
  customer and an approval.
* `LimitsEscalate`: when messages do not overlap, a customer who failed to identify twice, or was asked twice and still is
  not understood, is in human hands, and each dropped turn excuses one failure: what it counted is lost with it.
  With overlap it does not hold: two turns that both read 0 both save 1.
* `OneUnflaggedComplaint`: of two complaints under one address, typed the same way, on two channels one is
  escalated as a repeat.  `AgentTwoSpellings` shows what an address in upper case makes of it.
* `OneFirst`, `RepeatHasRecord`, `CountIsHonest`: two overlapping first complaints are never both
  taken for the first; a repeat has another recorded request, which may be the failed one it is a retry of; and
  the total is the requests recorded, failed ones included, short only for a customer whose requests
  overlapped (there it can be: the second save overwrites the first).
* `RepliesGetReady`, `ImplementsConversation`: liveness up to the save, and the refinement.
* `DocumentsDoNotMix`, `CleanSyncsAreWhole`: what a reader finds during a sync, after a failed one, and
  after a crash, which the next start takes as it is.  `SyncsEnd`: no file holds a sync up.
* `OnePolicyAtATime`, `PolicyIsCurrent`: no case is decided on a policy nobody published.
* `ComplaintsFareBetter`, `DecisionsAreMonotone`: the two methods of `EligibilityService` agree with each
  other and with themselves at every boundary.
* `HandedOverOnce`, `MailsKeepOrder`, `EveryMailIsRead`: the mailbox, whatever fails or crashes.  The last
  one excepts a poll that hangs for good, and to be read is not to be answered.
* `OverlapNeedsHaste`: two turns of one session overlap only if the gateway gave one up after its
  timeout or the customer did not wait: this is when the findings of `AgentOverlap` can happen, and
  otherwise the runs with one turn describe the system.
* `ForkNeedsHaste`, `SettledForGood`: a chat is one session, and stays it.

Disagreements between documents and code, each a run that TLC finds violated (PROJECT.json,
"findings", quotes the documents):

| Run | Shows |
|---|---|
| `AgentOverlap` | an escalated session goes back to not escalated when two turns overlap |
| `AgentDuplicateTicket` | a Slack error after the ticket leads to a second ticket in the same session |
| `AgentStuck` | a customer who never names an order is asked for it for ever, and no human is called |
| `AgentTwoSpellings` | a second complaint about the same item is not flagged if its address is typed in another case |
| `RagEmptyStart` | every file fails to download at the first start, and the agent starts on an empty index |

Further disagreements, visible in the actions and not given a run of their own: three nodes let a
`TechnicalFailure` end the turn (`DropOnFailure`) where `circuit_breaker.py` says that callers must
escalate; a reason that no keyword matches is approved like any other (`Decide`) where `graph.py` and FR-008
call it a mandatory escalation; a first complaint whose request is retried comes back as a
repeated one (`RecordComplaint` with two runs, `Commit` with `"failed"`), though the comment of `recordComplaint` speaks of what the
customer complained about before; a second complaint about another item is escalated as one about "this item"
(`RecordComplaint` knows only the address), where spec.md:228, complaint_flow.py:99 and escalation.py:30 speak of the same item and
only data-model.md:111-112 of the customer; a mail whose call or reply failed is lost (`FailReply`, `FailRead`), though the comment in
`EmailController` (lines 92-93) promises no silent request loss; a request that is still unclear after two questions is escalated
(`AskIntent`, after data-model.md) where research.md:40-42 has it redirected as out of scope; two overlapping turns save one
failed attempt for two (`FailIdentification`), so that a third one is offered; and a case can be closed without a case number
when the ticket or the refusal was not recorded (`FailTicket`, `ConfirmRefusal`), against FR-010.

### Fairness

`CircuitBreaker!FairSpec` has weak fairness of the loop only: `asyncio.wait_for` bounds each try
and the loop is an ordinary coroutine.  Nothing is assumed of the service or the network.
`AgentTurn!FairSpec` has weak fairness of the steps of each turn, which rests on the former:
each `await` of a node is a call through the breaker, or the one to Slack, which the HTTP client times out.
`save_session` is left out of it: the Redis client has no timeout and no breaker, so what is shown is that every turn comes to a reply that is
ready to be saved.  (`get_session` comes before anything `Receive` does, and no message has to be received.)
Customers, crashes and expiry owe nothing.

`RagSync!Fairness` is weak fairness of the steps of each sync: a call to Drive or to PostgreSQL answers or
breaks; operators, the retailer and the agent's start owe nothing.  `Gateway!Fairness`: the
scheduler starts a poll again and again (`fixedDelay`), the poll goes on or hangs (`Hang`: neither IMAP nor SMTP has a
timeout, and nothing but a crash ends it), the read timeout of each call comes, and the gateway crashes only finitely often.  The agent may stay silent for ever.

Each property has a mutant, a plausible bug of one definition (comments "Mutant: ..." in the
modules), under which TLC finds the property violated.

## 4. The proofs

Assumptions: `MaxRetries` is a natural number; `CustomerOf` is a function of addresses; the value
`NoSession` is no session id and no `AgentState` (`SessionAssumption`: `get_session` answers `None` or a state); `NoOrder` is no order (`OrderAssumption`); `Faults` is within {"crash", "expiry"}.  Turns, sessions, addresses and items
are any sets, finite or not.

`CircuitBreakerProofs`: `TypeCorrect`, `EffectsBounded`, `ResultsMean` and `Refinement`.  `EffectBound` alone is not inductive.  The strengthening says that every effect and
every request still travelling belongs to a try of its own, and that tries are bounded by the
range of the loop; the meaning of results adds that a request that counts as run has left an
effect.

`AgentTurnProofs`: `TypeCorrect`, `SavedSessionsAlwaysResume` and `ActionsAlwaysAuthorised`.  The invariant speaks of the saved sessions and of every turn's own copy:
the copy of a turn holds what the node it stands before needs, and the limits are respected by
copies as well as by saved sessions.  It is preserved per turn, because a save copies a sound
copy and a receive copies a sound session; so it holds for any number of turns.  The proof has
one lemma per node.  `ActionsAlwaysAuthorised` follows from the part of the invariant about
`AUTO_ACTION` and `TRIGGER_REFUND`.

`AgentPromisesProofs`: `RefundsAlwaysFollowLabels`, `NoPromiseIsEmpty` and
`TicketsAlwaysExplained`, again for any number of overlapping turns.  The argument is that the
counts of the back office never go back (`CountersGrow`), so a claim that was true when a turn
made it stays true in every copy of the session, whichever turn saves last.  What is left is that
each claim is true when it is made: `Backed` says so of the copies of the turns and of the saved
sessions, and adds what a turn between two calls of one node owes to the first of them.  Of the
steps of a turn only five claim anything or stop between two calls (`Claims`); all others keep
`Backed` for one common reason (`KeepsPromises`).

`AgentProgressProofs`: `AtMostOneUnflaggedComplaint`, `EscalationStaysFinal`, `ProgressAlwaysKept`,
`RepetitionAlwaysPaid`, `ConversationImplemented` and `LimitsAlwaysEscalate`.  They share one description of the nodes: `Lawful`
says what a node may change of a turn's copy and where it may go next, and each node is shown to be
lawful once.  `EarlyInv` adds to the invariant of `AgentTurnProofs` that a verdict and a decision do not
exist before the nodes that make them.

* `AtMostOneUnflaggedComplaint` holds for any number of turns, sessions and addresses, and whatever
  overlaps or is retried.  The property speaks of saved sessions; the invariant (`MarkInv`) of every copy: all copies of
  complaints under one address that passed `complaint_flow_node` without the flag belong to one session, and
  while there is one the complaint is on record, so that the next one is flagged.
* The others compare the copy of a turn with the saved session it was read from.  That says something only as
  long as nobody else saves this session, so they assume `NoOverlap`: no two turns under way are of one session.
  Any number of turns may run, of different sessions.  Nothing in `main.py` enforces it, and without it the
  properties fail: `AgentOverlap` shows it for `EscalationIsFinal`.  A single turn has it (`OneTurn`), so the theorems
  cover the instances of `AgentSequential` and `AgentTwoChannels`; `GatewayProofs!Overlap` says when the
  channels keep to it.  None of the properties is inductive.  `FollowInv`: a copy has got at least as far as the
  saved session, and the copy of a closed one is still closed; so a save never goes back.  `PaidInv`: a session
  that was acted on knows of it, in the store or in the one copy of it, or each action was paid for by a
  lost turn or an expiry; so the one that is free can be used once.  `OnwardInv`: where a turn stands is reachable
  from the stage its saved session is at, so that the save that ends it is a step of `Conversation`.
* `ConversationImplemented` also assumes that sessions do not expire, as the run does: an expired case
  starts anew, which no case of data-model.md does.
* `LimitsAlwaysEscalate` is about `AgentExchanges`.  Its invariant follows the one copy of a session that may be under way:
  what was counted over all turns is at most what that copy counts, plus one for each turn that was dropped; so when
  the count reaches the limit and no turn is under way, the saved session has counted it too and was escalated.

`ClientHistoryProofs`: `TypeCorrect`, `FirstIsUnique`, `RepeatsAreRecorded`, `HistoryIsRegister` and
`CountStaysHonest`, for any number of requests.  The invariant ties the row to the saves: a customer has a row exactly if a request was
recorded, and a request that read a count has read it from that row.  `Insert` is the only
step that makes a first, and the UNIQUE key makes it find no row.  `CountIsHonest` is not inductive: a
save writes what was read, not what is there.  `CountInv` adds what a request under way has read:
never more than the requests recorded by now, and, if the customer's requests never overlapped, the count as it is.

`RagSyncProofs`: `TypeCorrect`, `DocumentsNeverMix` and `CleanSyncsStayWhole`, for any files, versions and
number of syncs.  `DocumentsDoNotMix` is not inductive: as long as no two syncs write side by side, at most one
sync is between its deletion and its end, the rows of the file it is at are exactly the chunks before `next`
of the version it read, and the rows of every file still to come are none.  `CleanSyncsAreWhole` adds that, as
long as this sync missed nothing, every listed file it is done with is complete.

`LivePolicyProofs`: `OnePolicyAlways` and `PolicyAlwaysCurrent` carry this over to what
`PolicyLoader` returns.  The first match exists because a set of rows under the order of the SELECT has a
least element, and it is of the one version the index holds.  `LaterAndDearerNeverBetter` and
`ComplaintsNeverWorse` are about the rules alone, for any thresholds and orders; `DecisionsAlwaysMonotone` and
`ComplaintsAlwaysFareBetter` apply them to every policy that can be loaded, for which the loaded thresholds
have to be shown to be natural numbers in every state (`Indexed`).

`GatewayProofs`: `TypeCorrect`, `AskedOnce`, `MailOrder`, `Overlap`, `Forks` and `SessionKept`, for any
number of mails, widgets and messages.  The invariant has one part for each channel, because each writes the
calls of its own messages only; what the agent, the timeout and a crash do to calls is common to both
(`Settles`).  `MailInv` says that a mail handed over is seen and that the mails a poll has left are new, but for the one it waits for or hangs at, and
follow those it dealt with: so nothing is handed over twice, and in order.  `ChatInv` says that, as long as the
customer waits and nothing fails, at most one message of a widget is under way and all of them are for the
session the widget knows (`Calm`).  `Overlap` needs both, and that the sessions of two widgets, or of a widget
and a mail, are never the same (`Owned`, `SessionsApart`).

Assumptions: the inbox is no widget; no mail is for a session of the chat, since `build_session_key` contains
the channel; the bounds on messages are natural numbers.  For `RagSync` and `LivePolicy`: every version of a file has a sequence of chunks and, if it states the policy, natural numbers;
the names of the policy files are names of files.

Only model-checked: liveness (`Returns`, `RepliesGetReady`, `SyncsEnd`, `EveryMailIsRead`), since liveness under
fairness is out of the prover's reach.  Every other property of the passing runs is a theorem.

## 5. The plan

Done: the breaker and its contract, the conversation engine with its store and tools, the client
history and its register, the documents and the policy read from them, the eligibility rules, both
channels, and the theorems of section 4, which state every invariant and every action property of the runs.  Next:

1. `Gateway` and `AgentTurn` in one module, so that `NoOverlap` is what `OverlapNeedsHaste` gives for patient
   customers and not an assumption of its own.
2. The per-node description `Lawful` for `SavedSessionsResume` too, whose proof expands the nodes once more.

## 6. Not modelled

The semantic queries of `rag_query.py` and `rag_fallback.py` (they read the index, change nothing, and their
answer is a matter of vectors), the STOMP endpoint (the widget does not use it), a browser tab that is
closed, the PDF label that is fetched for a reply, orders abroad (the model has them, `verification_node` never
says so).  Wording, prompts and the language model (they change no state), look-ups without effect beyond
their outcome, security and WebSocket configuration, logging, the database schema except the
constraints that modules name, and the `.specify` development scripts.  The keyword tables are
abstracted to the classes they produce: whether a given sentence is classified well is not a
question of this project.
