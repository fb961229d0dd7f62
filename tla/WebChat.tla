------------------------------- MODULE WebChat -------------------------------
(***************************************************************************)
(* The web channel: widget.js, WebChatController's POST /api/v1/chat and   *)
(* ChatErrorHandler.                                                       *)
(*                                                                         *)
(* The widget keeps the session_id of an answer in sessionStorage and      *)
(* sends it with the next message; it does not wait for one answer before  *)
(* it sends the next message.  The gateway makes up an id for a message    *)
(* that has none: that id is known here by the message it was made for.    *)
(***************************************************************************)
EXTENDS AgentClient

Chat(w, i) == <<w, i>>

VARIABLES
    sent,       \* the messages each widget has sent
    asked,      \* the session_id each message was sent with
    pending,    \* the messages each widget waits for an answer to
    stored,     \* sessionStorage: the widget's session_id
    hasty,      \* history: the customer did not wait for an answer
    spoiled     \* history: an answer was an error, or was lost

browser == <<sent, asked, pending, stored, hasty, spoiled>>

Sessions == Chats \union {NoSession}

WebTypeOK ==
    /\ sent \in [Widgets -> 0..LastChat]
    /\ asked \in [Chats -> Sessions]
    /\ pending \in [Widgets -> SUBSET (1..LastChat)]
    /\ stored \in [Widgets -> Sessions]
    /\ hasty \in [Widgets -> BOOLEAN] /\ spoiled \in [Widgets -> BOOLEAN]

WebInit ==
    /\ sent = [w \in Widgets |-> 0]
    /\ asked = [m \in Chats |-> NoSession]
    /\ pending = [w \in Widgets |-> {}]
    /\ stored = [w \in Widgets |-> NoSession]
    /\ hasty = [w \in Widgets |-> FALSE]
    /\ spoiled = [w \in Widgets |-> FALSE]

\* sendMessage, up to fetch.
Send(w) ==
    /\ sent[w] < LastChat
    /\ sent' = [sent EXCEPT ![w] = @ + 1]
    /\ asked' = [asked EXCEPT ![Chat(w, sent[w] + 1)] = stored[w]]
    /\ pending' = [pending EXCEPT ![w] = @ \union {sent[w] + 1}]
    /\ hasty' = [hasty EXCEPT ![w] = @ \/ pending[w] # {}]
    /\ UNCHANGED <<stored, spoiled, call>>

\* Mutant: every message gets a new id.
SessionAnew(m) == m

\* Mutant: no id is made up for a message that has none.
SessionAsked(m) == asked[m]

\* handleRestFallback: the id of the request, or a new one.
SessionFor(m) == IF asked[m] = NoSession THEN m ELSE asked[m]

\* handleRestFallback: the request reaches the gateway, even if the widget has
\* given it up.
Accept(w, i) ==
    /\ i <= sent[w]
    /\ call[Chat(w, i)].by = "unsent"
    /\ Process(Chat(w, i), SessionFor(Chat(w, i)))
    /\ UNCHANGED browser

\* sendMessage's then: ChatResponse carries the session_id of the request.
Deliver(w, i) ==
    /\ i \in pending[w]
    /\ call[Chat(w, i)].by = "answered"
    /\ pending' = [pending EXCEPT ![w] = @ \ {i}]
    /\ stored' = [stored EXCEPT ![w] = call[Chat(w, i)].session]
    /\ UNCHANGED <<sent, asked, hasty, spoiled, call>>

\* Mutant: the widget stores the session_id of an error, which has none.
FailStoring(w, i) ==
    /\ i \in pending[w]
    /\ pending' = [pending EXCEPT ![w] = @ \ {i}]
    /\ stored' = [stored EXCEPT ![w] = NoSession]
    /\ spoiled' = [spoiled EXCEPT ![w] = TRUE]
    /\ UNCHANGED <<sent, asked, hasty, call>>

\* ChatErrorHandler answers without a session_id, or the request or its answer
\* is lost: sendMessage's catch.
Fail(w, i) ==
    /\ i \in pending[w]
    /\ pending' = [pending EXCEPT ![w] = @ \ {i}]
    /\ spoiled' = [spoiled EXCEPT ![w] = TRUE]
    /\ UNCHANGED <<sent, asked, stored, hasty, call>>

Converse(w) == Send(w) \/ \E i \in 1..LastChat : Accept(w, i) \/ Deliver(w, i) \/ Fail(w, i)
=============================================================================
