---------------------------- MODULE GatewayProofs ----------------------------
(***************************************************************************)
(* Theorems about Gateway, for any number of mails, widgets and messages.  *)
(*                                                                         *)
(* The mail channel and the web channel share only the calls, and each     *)
(* writes its own.  So the invariant has a part for each (MailInv and      *)
(* ChatInv), and a step of one channel leaves the other's part alone.      *)
(* What the agent, the timeout and a crash do to the calls is common to    *)
(* both (Settles).                                                         *)
(***************************************************************************)
EXTENDS Gateway, TLAPS

-----------------------------------------------------------------------------
(* Messages.                                                               *)

\* A message is a mail or a message of a widget, and known by its number.
LEMMA Numbered ==
    /\ \A n \in 1..LastMail : Mail(n) \in Messages /\ Mail(n) \notin Chats
    /\ \A w \in Widgets, i \in 1..LastChat : Chat(w, i) \in Messages /\ Chat(w, i) \in Chats
    /\ \A n, k \in 1..LastMail : Mail(n) = Mail(k) => n = k
    /\ \A w, v \in Widgets, i, j \in 1..LastChat : Chat(w, i) = Chat(v, j) => w = v /\ i = j
    /\ \A n \in 1..LastMail, w \in Widgets, i \in 1..LastChat : Mail(n) # Chat(w, i)
  BY SourceAssumption DEF Mail, Chat, Messages, Mails, Chats

LEMMA MailOrChat ==
    ASSUME NEW m \in Messages
    PROVE  \/ \E n \in 1..LastMail : m = Mail(n)
           \/ \E w \in Widgets, i \in 1..LastChat : m = Chat(w, i)
  BY DEF Mail, Chat, Messages, Mails, Chats

\* The sessions of mails and of chats are different ones.
LEMMA Separate ==
    /\ NoSession \notin Chats
    /\ \A n \in 1..LastMail : SenderOf[n] # NoSession /\ SenderOf[n] \notin Chats
  BY SourceAssumption, SenderAssumption DEF Chats

-----------------------------------------------------------------------------
(* Types.                                                                  *)

CallsOK ==
    /\ call \in [Messages -> Call]
    /\ \A m \in Messages :
          call[m] # Unsent => /\ call[m].by # "unsent"
                              /\ call[m].turn # "none"
                              /\ call[m].session # NoSession

\* A call has begun on both sides or on neither.
LEMMA BothBegin ==
    ASSUME CallsOK, NEW m \in Messages
    PROVE  /\ call[m] \in Call
           /\ call[m].by = "unsent" <=> call[m].turn = "none"
           /\ call[m].by = "unsent" <=> call[m] = Unsent
           /\ call[m].by # "unsent" => call[m].session # NoSession
  BY DEF CallsOK, Unsent

\* What the agent, the timeout and a crash do to the calls that were begun.
Settles ==
    \A m \in Messages :
        /\ call'[m].session = call[m].session
        /\ call'[m].by = "unsent" <=> call[m].by = "unsent"
        /\ call'[m].by = "waiting" => call[m].by = "waiting"
        /\ call[m].by \in {"answered", "failed"} => call'[m].by = call[m].by
        /\ call'[m].turn = "running" => call[m].turn = "running"
        /\ call'[m].by = "answered" /\ call[m].by # "answered" => call'[m].turn # "running"

LEMMA EndTurnSettles ==
    ASSUME CallsOK, NEW m \in Messages, EndTurn(m)
    PROVE  CallsOK' /\ Settles
  <1>1. PICK r \in {"answered", "failed"} :
           call' = [call EXCEPT ![m].turn = "over",
                                ![m].by = IF Waiting(m) THEN r ELSE call[m].by]
    BY DEF EndTurn
  <1>2. call[m].by # "unsent" /\ call[m].turn = "running" /\ call[m] # Unsent
    BY BothBegin DEF EndTurn, Unsent
  <1>3. call'[m] = [by |-> IF Waiting(m) THEN r ELSE call[m].by,
                    turn |-> "over", session |-> call[m].session]
    BY <1>1 DEF CallsOK, Call
  <1>4. \A k \in Messages : k # m => call'[k] = call[k]
    BY <1>1 DEF CallsOK
  <1>5. call'[m] \in Call
    BY <1>2, <1>3 DEF CallsOK, Call
  <1>6. call' \in [Messages -> Call]
    BY <1>1, <1>4, <1>5 DEF CallsOK
  <1> QED
    BY <1>2, <1>3, <1>4, <1>6 DEF CallsOK, Settles, Waiting

LEMMA GiveUpSettles ==
    ASSUME CallsOK, NEW m \in Messages, GiveUp(m)
    PROVE  CallsOK' /\ Settles
  <1>1. call' = [call EXCEPT ![m].by = "failed"] /\ call[m].by = "waiting"
    BY DEF GiveUp, Waiting
  <1>2. call[m] # Unsent
    BY <1>1 DEF Unsent
  <1>3. call'[m] = [by |-> "failed", turn |-> call[m].turn, session |-> call[m].session]
    BY <1>1 DEF CallsOK, Call
  <1>4. \A k \in Messages : k # m => call'[k] = call[k]
    BY <1>1 DEF CallsOK
  <1>5. call' \in [Messages -> Call]
    BY <1>1, <1>3, <1>4 DEF CallsOK, Call
  <1> QED
    BY <1>1, <1>2, <1>3, <1>4, <1>5 DEF CallsOK, Settles

LEMMA CrashSettles ==
    ASSUME CallsOK, Crash
    PROVE  CallsOK' /\ Settles
  <1>1. \A m \in Messages :
           call'[m] = IF Waiting(m) THEN [call[m] EXCEPT !.by = "failed"] ELSE call[m]
    BY DEF Crash
  <1>2. ASSUME NEW m \in Messages, Waiting(m)
        PROVE  /\ call'[m] = [by |-> "failed", turn |-> call[m].turn,
                              session |-> call[m].session]
               /\ call[m] # Unsent
    BY <1>1, <1>2 DEF CallsOK, Call, Waiting, Unsent
  <1>3. call' \in [Messages -> Call]
    BY <1>1, <1>2 DEF CallsOK, Call, Crash
  <1> QED
    BY <1>1, <1>2, <1>3 DEF CallsOK, Settles, Waiting

\* A call that begins.
LEMMA ProcessTyped ==
    ASSUME CallsOK, NEW m \in Messages, NEW s, Process(m, s), s # NoSession,
           s \in Sessions \union {SenderOf[n] : n \in 1..LastMail}
    PROVE  /\ CallsOK'
           /\ call'[m] = [by |-> "waiting", turn |-> "running", session |-> s]
           /\ \A k \in Messages : k # m => call'[k] = call[k]
  BY DEF CallsOK, Call, Process
-----------------------------------------------------------------------------
(* Type invariant.                                                         *)

\* The ids a widget's own messages have given rise to.
Own(w) == {NoSession} \union {Chat(w, j) : j \in 1..LastChat}

Owned ==
    \A w \in Widgets :
        /\ stored[w] \in Own(w)
        /\ \A i \in 1..LastChat :
              asked[Chat(w, i)] \in Own(w) /\ call[Chat(w, i)].session \in Own(w)

LEMMA OwnSessions == \A w \in Widgets : Own(w) \subseteq Sessions
  BY Numbered DEF Own, Sessions

LEMMA SessionForTyped ==
    ASSUME Owned, NEW w \in Widgets, NEW i \in 1..LastChat
    PROVE  SessionFor(Chat(w, i)) \in Own(w) /\ SessionFor(Chat(w, i)) # NoSession
  BY Numbered, Separate DEF Owned, Own, SessionFor

LEMMA MailTyped ==
    ASSUME CallsOK, EmailTypeOK, NEW n \in 1..LastMail, Handle(n)
    PROVE  CallsOK' /\ EmailTypeOK'
  <1>1. CASE Skip(n)
    BY <1>1 DEF Skip, CallsOK, EmailTypeOK
  <1>2. CASE HandOver(n)
    <2>1. CallsOK'
      BY <1>2, ProcessTyped, Numbered, Separate DEF HandOver
    <2> QED
      BY <1>2, <2>1 DEF HandOver, Current, EmailTypeOK
  <1>3. CASE FailRead(n)
    BY <1>3 DEF FailRead, Current, CallsOK, EmailTypeOK
  <1>4. CASE Reply(n)
    BY <1>4 DEF Reply, Current, CallsOK, EmailTypeOK
  <1>5. CASE FailReply(n)
    BY <1>5 DEF FailReply, CallsOK, EmailTypeOK
  <1> QED
    BY <1>1, <1>2, <1>3, <1>4, <1>5 DEF Handle

LEMMA ChatTyped ==
    ASSUME CallsOK, WebTypeOK, Owned, NEW w \in Widgets, Converse(w)
    PROVE  CallsOK' /\ WebTypeOK' /\ Owned'
  <1>1. CASE Send(w)
    <2>1. sent[w] + 1 \in 1..LastChat
      BY <1>1, SourceAssumption DEF Send, WebTypeOK
    <2>2. /\ sent' \in [Widgets -> 0..LastChat]
          /\ pending' \in [Widgets -> SUBSET (1..LastChat)]
          /\ hasty' \in [Widgets -> BOOLEAN]
      BY <1>1, <2>1 DEF Send, WebTypeOK
    <2>3. asked' \in [Chats -> Sessions]
      BY <1>1, <2>1, Numbered DEF Send, WebTypeOK
    <2>4. \A m \in Chats :
             asked'[m] = IF m = Chat(w, sent[w] + 1) THEN stored[w] ELSE asked[m]
      BY <1>1, <2>1, Numbered DEF Send, WebTypeOK
    <2>5. Owned'
      BY <1>1, <2>1, <2>4, Numbered DEF Send, Owned, Own
    <2> QED
      BY <1>1, <2>2, <2>3, <2>5 DEF Send, CallsOK, WebTypeOK
  <1>2. ASSUME NEW i \in 1..LastChat, Accept(w, i)
        PROVE  CallsOK' /\ WebTypeOK' /\ Owned'
    <2>1. PICK s : s = SessionFor(Chat(w, i))
      OBVIOUS
    <2>2. s \in Own(w) /\ s \in Sessions /\ s # NoSession
      BY <2>1, SessionForTyped, OwnSessions
    <2>3. Chat(w, i) \in Messages /\ Process(Chat(w, i), s) /\ UNCHANGED browser
      BY <1>2, <2>1, Numbered DEF Accept
    <2>4. /\ CallsOK'
          /\ call'[Chat(w, i)].session = s
          /\ \A k \in Messages : k # Chat(w, i) => call'[k] = call[k]
      <3>1. s \in Sessions \union {SenderOf[n] : n \in 1..LastMail}
        BY <2>2
      <3>2. /\ CallsOK'
            /\ call'[Chat(w, i)] = [by |-> "waiting", turn |-> "running", session |-> s]
            /\ \A k \in Messages : k # Chat(w, i) => call'[k] = call[k]
        BY <2>2, <2>3, <3>1, ProcessTyped, Zenon
      <3> QED
        BY <3>2
    <2>5. ASSUME NEW v \in Widgets, NEW j \in 1..LastChat
          PROVE  call'[Chat(v, j)].session \in Own(v)
      BY <2>2, <2>4, Numbered DEF Owned
    <2>6. Owned'
      BY <2>3, <2>5 DEF browser, Owned, Own
    <2> QED
      BY <2>3, <2>4, <2>6 DEF browser, WebTypeOK
  <1>3. ASSUME NEW i \in 1..LastChat, Deliver(w, i)
        PROVE  CallsOK' /\ WebTypeOK' /\ Owned'
    <2>1. call[Chat(w, i)].session \in Own(w) /\ call[Chat(w, i)].session \in Sessions
      BY OwnSessions DEF Owned
    <2>2. WebTypeOK'
      BY <1>3, <2>1 DEF Deliver, WebTypeOK
    <2>3. Owned'
      BY <1>3, <2>1 DEF Deliver, WebTypeOK, Owned, Own
    <2> QED
      BY <1>3, <2>2, <2>3 DEF Deliver, CallsOK
  <1>4. ASSUME NEW i \in 1..LastChat, Fail(w, i)
        PROVE  CallsOK' /\ WebTypeOK' /\ Owned'
    BY <1>4 DEF Fail, CallsOK, WebTypeOK, Owned, Own
  <1> QED
    BY <1>1, <1>2, <1>3, <1>4 DEF Converse

\* The steps of one channel leave the messages of the other alone.
LEMMA MailFrame ==
    ASSUME CallsOK, NEW n \in 1..LastMail, Handle(n)
    PROVE  \A m \in Messages : m # Mail(n) => call'[m] = call[m]
  BY Numbered DEF Handle, Skip, HandOver, FailRead, Reply, FailReply, Process, CallsOK

LEMMA ChatFrame ==
    ASSUME CallsOK, NEW w \in Widgets, Converse(w)
    PROVE  \A m \in Messages : m \notin Chats => call'[m] = call[m]
  BY Numbered DEF Converse, Send, Accept, Deliver, Fail, Process, CallsOK

\* The steps of Next, in the groups the proofs treat alike.
MailStep == Arrive \/ Poll \/ Close \/ Hang \/ \E n \in 1..LastMail : Handle(n)

LEMMA NextCases ==
    ASSUME [Next]_vars, CallsOK
    PROVE  \/ Settles /\ CallsOK' /\ UNCHANGED <<mailbox, browser>>
           \/ Crash /\ Settles /\ CallsOK'
           \/ MailStep /\ UNCHANGED browser
           \/ (\E w \in Widgets : Converse(w)) /\ UNCHANGED mailbox
           \/ UNCHANGED vars
  BY EndTurnSettles, GiveUpSettles, CrashSettles DEF Next, MailStep

Typed == CallsOK /\ EmailTypeOK /\ WebTypeOK /\ Owned

LEMMA TypedInit == Init => Typed
  <1> SUFFICES ASSUME Init PROVE Typed
    OBVIOUS
  <1>1. CallsOK
    BY DEF Init, CallsInit, CallsOK, Call, Unsent, Sessions
  <1>2. EmailTypeOK /\ WebTypeOK
    BY SourceAssumption DEF Init, EmailInit, WebInit, EmailTypeOK, WebTypeOK, Sessions
  <1>3. Owned
    BY Numbered DEF Init, CallsInit, WebInit, Owned, Own, Unsent
  <1> QED
    BY <1>1, <1>2, <1>3 DEF Typed

LEMMA TypedStep ==
    ASSUME Typed, [Next]_vars
    PROVE  Typed'
  <1> USE DEF Typed
  <1>1. CASE Settles /\ CallsOK' /\ UNCHANGED <<mailbox, browser>>
    <2>1. Owned'
      BY <1>1, Numbered DEF Settles, Owned, Own, browser
    <2> QED
      BY <1>1, <2>1 DEF mailbox, browser, EmailTypeOK, WebTypeOK
  <1>2. CASE Crash /\ Settles /\ CallsOK'
    <2>1. Owned'
      BY <1>2, Numbered DEF Crash, Settles, Owned, Own, browser
    <2> QED
      BY <1>2, <2>1 DEF Crash, browser, EmailTypeOK, WebTypeOK
  <1>3. CASE MailStep /\ UNCHANGED browser
    <2>1. CASE Arrive \/ Poll \/ Close \/ Hang
      <3>1. UNCHANGED call /\ EmailTypeOK'
        <4>1. CASE Arrive
          <5>1. inbox \in Nat /\ inbox' = inbox + 1 /\ inbox' \in 0..LastMail
            BY <4>1, SourceAssumption DEF Arrive, EmailTypeOK
          <5>2. 1..inbox \subseteq 1..inbox'
            BY <5>1
          <5> QED
            BY <4>1, <5>1, <5>2 DEF Arrive, EmailTypeOK
        <4>2. CASE Poll \/ Close \/ Hang
          BY <4>2 DEF Poll, Close, Hang, EmailTypeOK
        <4> QED
          BY <2>1, <4>1, <4>2
      <3> QED
        BY <1>3, <3>1 DEF CallsOK, WebTypeOK, Owned, Own, browser
    <2>2. ASSUME NEW n \in 1..LastMail, Handle(n)
          PROVE  Typed'
      <3>1. CallsOK' /\ EmailTypeOK'
        BY <2>2, MailTyped
      <3>2. Owned'
        BY <1>3, <2>2, MailFrame, Numbered DEF Owned, Own, browser
      <3> QED
        BY <1>3, <3>1, <3>2 DEF browser, WebTypeOK
    <2> QED
      BY <1>3, <2>1, <2>2 DEF MailStep
  <1>4. CASE (\E w \in Widgets : Converse(w)) /\ UNCHANGED mailbox
    BY <1>4, ChatTyped DEF mailbox, EmailTypeOK
  <1>5. CASE UNCHANGED vars
    BY <1>5 DEF vars, mailbox, browser, CallsOK, EmailTypeOK, WebTypeOK, Owned, Own
  <1> QED
    BY <1>1, <1>2, <1>3, <1>4, <1>5, NextCases

\* Gateway's type invariant, for any number of mails, widgets and messages.
THEOREM TypeCorrect == Spec => []TypeOK
  <1>1. Typed => TypeOK
    BY DEF Typed, CallsOK, TypeOK
  <1> QED
    BY <1>1, TypedInit, TypedStep, PTL DEF Spec
-----------------------------------------------------------------------------
(* The mailbox.                                                            *)

Unasked(n) == call[Mail(n)].by = "unsent"

\* A mail that was handed over is seen, and in its sender's session.
Remembered ==
    \A n \in 1..LastMail :
        ~Unasked(n) => n \in seen /\ Readable(n) /\ call[Mail(n)].session = SenderOf[n]

\* A seen mail was handed over, or its body could not be read.
Accounted == \A n \in seen : n \in broken \/ ~Unasked(n)

\* The gateway waits for one mail at a time, the one the poll is at.
AtHand == \A n \in 1..LastMail : Waiting(Mail(n)) => at = "calling" /\ Current(n)

\* The mails of the poll are new, but for the one it waits for or hangs at.
Fresh == \A n \in queue : Unasked(n) \/ (at \in {"calling", "hung"} /\ Current(n))

\* The poll has dealt with the mails before those that are left.
DealtWith ==
    \A k \in 1..LastMail, n \in queue :
        k < n /\ k \notin queue /\ Readable(k) /\ k \notin broken => ~Unasked(k)

\* Mails of one sender were handed over in order.
InOrder ==
    \A k, n \in 1..LastMail :
        k < n /\ ~Unasked(n) /\ SenderOf[k] = SenderOf[n] /\ k \notin broken => ~Unasked(k)

MailInv == Remembered /\ Accounted /\ AtHand /\ Fresh /\ DealtWith /\ InOrder

\* MailInv depends on the mailbox and on the calls of mails.
LEMMA MailInvFrame ==
    ASSUME MailInv, UNCHANGED mailbox,
           \A n \in 1..LastMail : call'[Mail(n)] = call[Mail(n)], EmailTypeOK
    PROVE  MailInv'
  <1>1. 1..inbox \subseteq 1..LastMail
    BY SourceAssumption DEF EmailTypeOK
  <1>2. queue \subseteq 1..LastMail /\ seen \subseteq 1..LastMail
    BY <1>1 DEF EmailTypeOK
  <1> QED
    BY <1>2 DEF MailInv, mailbox, Remembered, Accounted, AtHand, Fresh, DealtWith, InOrder,
        Unasked, Waiting, Current

\* What is left of it when calls settle: the gateway may stop waiting.
LEMMA MailInvSettles ==
    ASSUME MailInv, Settles, EmailTypeOK, UNCHANGED <<inbox, seen, broken>>,
           \/ UNCHANGED <<queue, at>>
           \/ queue' = {} /\ \A m \in Messages : call'[m].by # "waiting"
    PROVE  MailInv'
  <1>1. 1..inbox \subseteq 1..LastMail
    BY SourceAssumption DEF EmailTypeOK
  <1>2. queue \subseteq 1..LastMail /\ seen \subseteq 1..LastMail
    BY <1>1 DEF EmailTypeOK
  <1>3. \A n \in 1..LastMail :
           /\ Unasked(n)' <=> Unasked(n)
           /\ Waiting(Mail(n))' => Waiting(Mail(n))
           /\ call'[Mail(n)].session = call[Mail(n)].session
    BY Numbered DEF Settles, Unasked, Waiting
  <1>4. Remembered' /\ Accounted' /\ InOrder'
    BY <1>2, <1>3 DEF MailInv, Remembered, Accounted, InOrder
  <1>5. AtHand' /\ Fresh' /\ DealtWith'
    <2>1. CASE UNCHANGED <<queue, at>>
      BY <1>2, <1>3, <2>1 DEF MailInv, AtHand, Fresh, DealtWith, Current
    <2>2. CASE queue' = {} /\ \A m \in Messages : call'[m].by # "waiting"
      BY <2>2, Numbered DEF AtHand, Fresh, DealtWith, Waiting
    <2> QED
      BY <2>1, <2>2
  <1> QED
    BY <1>4, <1>5 DEF MailInv

\* Arrive, Poll, Close and Hang: no call is touched.
LEMMA MailInvPoll ==
    ASSUME MailInv, EmailTypeOK, Arrive \/ Poll \/ Close \/ Hang
    PROVE  MailInv'
  <1>1. inbox \in Nat /\ inbox <= LastMail /\ seen \subseteq 1..inbox /\ queue \subseteq 1..inbox
    BY SourceAssumption DEF EmailTypeOK
  <1>2. 1..inbox \subseteq 1..LastMail
    BY <1>1, SourceAssumption
  <1>3. CASE Arrive
    BY <1>1, <1>2, <1>3 DEF Arrive, MailInv, Remembered, Accounted, AtHand, Fresh, DealtWith,
        InOrder, Unasked, Waiting, Current
  <1>4. CASE Poll
    <2>1. Remembered' /\ Accounted' /\ InOrder'
      BY <1>4 DEF Poll, MailInv, Remembered, Accounted, InOrder, Unasked
    <2>2. AtHand'
      BY <1>4 DEF Poll, MailInv, AtHand, Waiting
    <2>3. Fresh'
      <3>1. ASSUME NEW n \in queue'
            PROVE  Unasked(n)'
        <4>1. n \in 1..LastMail /\ n \notin seen
          BY <1>2, <1>4 DEF Poll
        <4> QED
          BY <1>4, <4>1 DEF Poll, MailInv, Remembered, Unasked
      <3> QED
        BY <3>1 DEF Fresh
    <2>4. ASSUME NEW k \in 1..LastMail, NEW n \in queue',
                 k < n, k \notin queue', k \notin broken'
          PROVE  ~Unasked(k)'
      <3>1. n \in 1..inbox
        BY <1>4, <2>4 DEF Poll
      <3>2. k \in 1..inbox
        BY <1>1, <2>4, <3>1
      <3>3. k \in seen
        BY <1>4, <2>4, <3>2 DEF Poll
      <3> QED
        BY <1>4, <2>4, <3>3 DEF Poll, MailInv, Accounted, Unasked
    <2>5. DealtWith'
      BY <2>4 DEF DealtWith
    <2> QED
      BY <2>1, <2>2, <2>3, <2>5 DEF MailInv
  <1>5. CASE Close
    BY <1>2, <1>5 DEF Close, MailInv, Remembered, Accounted, AtHand, Fresh, DealtWith,
        InOrder, Unasked, Waiting, Current
  <1>6. CASE Hang
    <2>1. Remembered' /\ Accounted' /\ DealtWith' /\ InOrder'
      BY <1>6 DEF Hang, MailInv, Remembered, Accounted, DealtWith, InOrder, Unasked
    <2>2. AtHand'
      <3>1. ASSUME NEW n \in 1..LastMail, Waiting(Mail(n))
            PROVE  FALSE
        BY <1>6, <3>1 DEF Hang, MailInv, AtHand, Current
      <3> QED
        BY <1>6, <3>1 DEF Hang, AtHand, Waiting
    <2>3. Fresh'
      BY <1>6 DEF Hang, MailInv, Fresh, Unasked, Current
    <2> QED
      BY <2>1, <2>2, <2>3 DEF MailInv
  <1> QED
    BY <1>3, <1>4, <1>5, <1>6

\* The steps of one mail that touch no call.
LEMMA MailInvPass ==
    ASSUME MailInv, EmailTypeOK, NEW n \in 1..LastMail,
           Skip(n) \/ FailRead(n) \/ Reply(n) \/ FailReply(n)
    PROVE  MailInv'
  <1>1. inbox \in Nat /\ inbox <= LastMail /\ seen \subseteq 1..inbox /\ queue \subseteq 1..inbox
    BY SourceAssumption DEF EmailTypeOK
  <1>2. 1..inbox \subseteq 1..LastMail
    BY <1>1, SourceAssumption
  <1>3. /\ UNCHANGED call
        /\ queue' = queue \ {n}
        /\ Current(n)
        /\ seen' \in {seen, seen \union {n}}
        /\ broken' \in {broken, broken \union {n}}
    BY DEF Skip, FailRead, Reply, FailReply
  <1>10. \A k \in queue' : ~Current(k)
    BY <1>1, <1>3 DEF Current
  <1>4. Remembered'
    BY <1>3 DEF MailInv, Remembered, Unasked
  <1>5. Accounted'
    BY DEF MailInv, Accounted, Unasked, Skip, FailRead, Reply, FailReply
  <1>6. AtHand'
    <2>1. CASE at = "next"
      BY <1>3, <2>1 DEF MailInv, AtHand, Waiting
    <2>2. CASE at = "calling"
      <3>1. call[Mail(n)].by # "waiting"
        BY <2>2 DEF Skip, FailRead, Reply, FailReply
      <3>2. ASSUME NEW k \in 1..LastMail, Waiting(Mail(k)), k # n
            PROVE  FALSE
        BY <1>1, <1>3, <3>2 DEF MailInv, AtHand, Current
      <3> QED
        BY <1>3, <3>1, <3>2 DEF AtHand, Waiting
    <2> QED
      BY <2>1, <2>2 DEF Skip, FailRead, Reply, FailReply
  <1>7. Fresh'
    BY <1>1, <1>2, <1>3, <1>10 DEF MailInv, Fresh, Unasked
  <1>8. DealtWith'
    <2>1. Readable(n) /\ n \notin broken' => ~Unasked(n)
      BY DEF Skip, FailRead, Reply, FailReply, Unasked
    <2> QED
      BY <1>3, <2>1 DEF MailInv, DealtWith, Unasked
  <1>9. InOrder'
    BY <1>3 DEF MailInv, InOrder, Unasked
  <1> QED
    BY <1>4, <1>5, <1>6, <1>7, <1>8, <1>9 DEF MailInv

\* The hand-over.
LEMMA MailInvHandOver ==
    ASSUME MailInv, EmailTypeOK, CallsOK, NEW n \in 1..LastMail, HandOver(n)
    PROVE  MailInv' /\ Unasked(n)
  <1>1. inbox \in Nat /\ inbox <= LastMail /\ seen \subseteq 1..inbox /\ queue \subseteq 1..inbox
    BY SourceAssumption DEF EmailTypeOK
  <1>2. 1..inbox \subseteq 1..LastMail
    BY <1>1, SourceAssumption
  <1>3. /\ at = "next" /\ at' = "calling" /\ Current(n) /\ Readable(n)
        /\ seen' = seen \union {n} /\ queue' = queue /\ broken' = broken
        /\ Current(n)'
    BY DEF HandOver, Current
  <1>4. /\ call'[Mail(n)] = [by |-> "waiting", turn |-> "running", session |-> SenderOf[n]]
        /\ \A k \in 1..LastMail : k # n => call'[Mail(k)] = call[Mail(k)]
    BY ProcessTyped, Numbered, Separate DEF HandOver
  <1>5. Unasked(n)
    BY <1>3 DEF MailInv, Fresh, Current
  <1>6. ~Unasked(n)' /\ \A k \in 1..LastMail : k # n => (Unasked(k)' <=> Unasked(k))
    BY <1>4 DEF Unasked
  <1>7. Remembered'
    BY <1>3, <1>4, <1>6 DEF MailInv, Remembered
  <1>8. Accounted'
    BY <1>1, <1>2, <1>3, <1>6 DEF MailInv, Accounted
  <1>9. AtHand'
    BY <1>3, <1>4 DEF MailInv, AtHand, Waiting
  <1>10. Fresh'
    <2>1. ASSUME NEW k \in queue, k # n
          PROVE  Unasked(k)'
      BY <1>1, <1>2, <1>3, <1>6, <2>1 DEF MailInv, Fresh
    <2> QED
      BY <1>3, <2>1 DEF Fresh
  <1>11. DealtWith'
    BY <1>3, <1>6 DEF MailInv, DealtWith
  <1>12. InOrder'
    <2>1. ASSUME NEW k \in 1..LastMail, k < n, SenderOf[k] = SenderOf[n], k \notin broken
          PROVE  ~Unasked(k)
      <3>1. k \notin queue /\ Readable(k)
        BY <1>1, <1>3, <2>1 DEF Current, Readable
      <3> QED
        BY <1>3, <2>1, <3>1 DEF MailInv, DealtWith, Current
    <2> QED
      BY <1>3, <1>6, <2>1 DEF MailInv, InOrder
  <1> QED
    BY <1>5, <1>7, <1>8, <1>9, <1>10, <1>11, <1>12 DEF MailInv

LEMMA MailInvInit == Init => MailInv
  BY Numbered DEF Init, CallsInit, EmailInit, MailInv, Remembered, Accounted, AtHand, Fresh,
      DealtWith, InOrder, Unasked, Unsent, Waiting

LEMMA MailInvStep ==
    ASSUME Typed, MailInv, [Next]_vars
    PROVE  MailInv'
  <1> USE DEF Typed
  <1>1. CASE Settles /\ CallsOK' /\ UNCHANGED <<mailbox, browser>>
    BY <1>1, MailInvSettles DEF mailbox
  <1>2. CASE Crash /\ Settles /\ CallsOK'
    <2>1. ASSUME NEW m \in Messages
          PROVE  call'[m].by # "waiting"
      BY <1>2, BothBegin DEF Crash, Waiting, Call
    <2> QED
      BY <1>2, <2>1, MailInvSettles DEF Crash
  <1>3. CASE MailStep /\ UNCHANGED browser
    BY <1>3, MailInvPoll, MailInvPass, MailInvHandOver DEF MailStep, Handle
  <1>4. CASE (\E w \in Widgets : Converse(w)) /\ UNCHANGED mailbox
    BY <1>4, ChatFrame, Numbered, MailInvFrame
  <1>5. CASE UNCHANGED vars
    BY <1>5, MailInvFrame DEF vars
  <1> QED
    BY <1>1, <1>2, <1>3, <1>4, <1>5, NextCases
-----------------------------------------------------------------------------
(* The chat.                                                               *)

Begun(w, i) == call[Chat(w, i)].by # "unsent"

\* A message is only waited for or asked about after it was sent.
Counted ==
    \A w \in Widgets :
        /\ pending[w] \subseteq 1..sent[w]
        /\ \A i \in 1..LastChat : i > sent[w] => ~Begun(w, i)

\* The gateway uses the id it is given.
Kept ==
    \A w \in Widgets, i \in 1..LastChat :
        Begun(w, i) /\ asked[Chat(w, i)] # NoSession =>
            call[Chat(w, i)].session = asked[Chat(w, i)]

\* As long as the customer waits and nothing fails, at most one message is
\* under way, it is for the session the widget knows, and so were the others.
Calm(w) ==
    /\ \A i, j \in pending[w] : i = j
    /\ \A i \in pending[w] : asked[Chat(w, i)] = stored[w]
    /\ \A i \in (1..LastChat) \ pending[w] :
          /\ i <= sent[w] => Begun(w, i)
          /\ Begun(w, i) => /\ call[Chat(w, i)].by = "answered"
                            /\ call[Chat(w, i)].session = stored[w]

CalmUnlessHasty == \A w \in Widgets : ~hasty[w] /\ ~spoiled[w] => Calm(w)

ChatInv == Counted /\ Kept /\ CalmUnlessHasty

\* ChatInv depends on the browser and on the calls of chats.
LEMMA ChatInvFrame ==
    ASSUME ChatInv, WebTypeOK, UNCHANGED browser,
           \A w \in Widgets, i \in 1..LastChat : call'[Chat(w, i)] = call[Chat(w, i)]
    PROVE  ChatInv'
  BY DEF ChatInv, WebTypeOK, browser, Counted, Kept, CalmUnlessHasty, Calm, Begun

LEMMA ChatInvSettles ==
    ASSUME ChatInv, WebTypeOK, UNCHANGED browser, Settles
    PROVE  ChatInv'
  <1>1. \A w \in Widgets, i \in 1..LastChat :
           /\ Begun(w, i)' <=> Begun(w, i)
           /\ call'[Chat(w, i)].session = call[Chat(w, i)].session
           /\ call[Chat(w, i)].by = "answered" => call'[Chat(w, i)].by = "answered"
    BY Numbered DEF Settles, Begun
  <1>2. Counted' /\ Kept'
    BY <1>1 DEF ChatInv, browser, Counted, Kept
  <1>3. ASSUME NEW w \in Widgets, Calm(w)
        PROVE  Calm(w)'
    BY <1>1, <1>3 DEF WebTypeOK, browser, Calm
  <1> QED
    BY <1>2, <1>3 DEF ChatInv, CalmUnlessHasty, browser

LEMMA ChatInvSend ==
    ASSUME ChatInv, WebTypeOK, NEW w \in Widgets, Send(w)
    PROVE  ChatInv'
  <1> DEFINE n == sent[w] + 1
  <1>1. sent[w] \in Nat /\ n \in 1..LastChat /\ n > sent[w] /\ pending[w] \subseteq 1..sent[w]
    BY SourceAssumption DEF Send, WebTypeOK, ChatInv, Counted
  <1>2. ~Begun(w, n) /\ n \notin pending[w]
    BY <1>1 DEF ChatInv, Counted
  <1>3. \A v \in Widgets, i \in 1..LastChat :
           asked'[Chat(v, i)] = IF v = w /\ i = n THEN stored[w] ELSE asked[Chat(v, i)]
    BY <1>1, Numbered DEF Send, WebTypeOK
  <1>4. /\ UNCHANGED <<stored, spoiled, call>>
        /\ sent'[w] = n /\ pending'[w] = pending[w] \union {n}
        /\ hasty'[w] = (hasty[w] \/ pending[w] # {})
        /\ \A v \in Widgets : v # w => /\ sent'[v] = sent[v]
                                       /\ pending'[v] = pending[v]
                                       /\ hasty'[v] = hasty[v]
    BY DEF Send, WebTypeOK
  <1> HIDE DEF n
  <1>5. Counted'
    <2>1. 1..sent[w] \subseteq 1..n /\ n \in 1..n /\ n \in Nat
      BY <1>1 DEF n
    <2>2. \A i \in 1..LastChat : i > n => i > sent[w]
      BY <1>1, <2>1
    <2> QED
      BY <1>1, <1>4, <2>1, <2>2 DEF ChatInv, Counted, Begun
  <1>6. Kept'
    BY <1>2, <1>3, <1>4 DEF ChatInv, Kept, Begun
  <1>7. ASSUME NEW v \in Widgets, v # w, Calm(v)
        PROVE  Calm(v)'
    BY <1>3, <1>4, <1>7 DEF Calm, Begun, WebTypeOK
  <1>8. ASSUME Calm(w), pending[w] = {}
        PROVE  Calm(w)'
    <2>1. pending'[w] = {n}
      BY <1>4, <1>8
    <2>2. \A i \in 1..LastChat : i # n /\ i <= n => i <= sent[w]
      BY <1>1 DEF n
    <2> QED
      BY <1>1, <1>3, <1>4, <1>8, <2>1, <2>2 DEF Calm, Begun
  <1>9. CalmUnlessHasty'
    BY <1>4, <1>7, <1>8 DEF ChatInv, CalmUnlessHasty, WebTypeOK
  <1> QED
    BY <1>5, <1>6, <1>9 DEF ChatInv

LEMMA ChatInvAccept ==
    ASSUME ChatInv, CallsOK, WebTypeOK, Owned, NEW w \in Widgets, NEW i \in 1..LastChat,
           Accept(w, i)
    PROVE  ChatInv' /\ ~Begun(w, i)
  <1>1. PICK s : s = SessionFor(Chat(w, i))
    OBVIOUS
  <1>2. /\ s # NoSession
        /\ s \in Sessions \union {SenderOf[n] : n \in 1..LastMail}
        /\ Chat(w, i) \in Messages
        /\ Process(Chat(w, i), s)
    BY <1>1, SessionForTyped, OwnSessions, Numbered DEF Accept
  <1>3. /\ call'[Chat(w, i)] = [by |-> "waiting", turn |-> "running", session |-> s]
        /\ \A k \in Messages : k # Chat(w, i) => call'[k] = call[k]
    BY <1>2, ProcessTyped, Zenon
  <1>4. \A v \in Widgets, j \in 1..LastChat :
           v # w \/ j # i => call'[Chat(v, j)] = call[Chat(v, j)]
    BY <1>3, Numbered
  <1>5. /\ UNCHANGED browser
        /\ i <= sent[w] /\ ~Begun(w, i) /\ Begun(w, i)'
    BY <1>3 DEF Accept, Begun
  <1>6. asked[Chat(w, i)] # NoSession => s = asked[Chat(w, i)]
    BY <1>1 DEF SessionFor
  <1>7. Counted'
    BY <1>4, <1>5 DEF ChatInv, Counted, Begun, browser, WebTypeOK
  <1>8. Kept'
    BY <1>3, <1>4, <1>5, <1>6 DEF ChatInv, Kept, Begun, browser
  <1>9. ASSUME NEW v \in Widgets, Calm(v)
        PROVE  Calm(v)'
    BY <1>4, <1>5, <1>9 DEF Calm, Begun, browser, WebTypeOK
  <1> QED
    BY <1>5, <1>7, <1>8, <1>9 DEF ChatInv, CalmUnlessHasty, browser

LEMMA ChatInvDeliver ==
    ASSUME ChatInv, CallsOK, WebTypeOK, NEW w \in Widgets, NEW i \in 1..LastChat,
           Deliver(w, i)
    PROVE  ChatInv'
  <1>1. /\ UNCHANGED <<sent, asked, hasty, spoiled, call>>
        /\ i \in pending[w] /\ Begun(w, i)
        /\ call[Chat(w, i)].by = "answered"
        /\ pending'[w] = pending[w] \ {i}
        /\ stored'[w] = call[Chat(w, i)].session
        /\ \A v \in Widgets : v # w => pending'[v] = pending[v] /\ stored'[v] = stored[v]
    BY DEF Deliver, WebTypeOK, Begun
  <1>2. Counted' /\ Kept'
    BY <1>1 DEF ChatInv, Counted, Kept, Begun
  <1>3. ASSUME NEW v \in Widgets, v # w, Calm(v)
        PROVE  Calm(v)'
    BY <1>1, <1>3 DEF Calm, Begun
  <1>4. ASSUME Calm(w)
        PROVE  Calm(w)'
    <2>1. pending[w] = {i} /\ pending'[w] = {}
      BY <1>1, <1>4 DEF Calm
    <2>2. ASSUME NEW j \in 1..LastChat, j # i, Begun(w, j)
          PROVE  call[Chat(w, j)].session = call[Chat(w, i)].session
      <3>1. call[Chat(w, j)].session = stored[w] /\ asked[Chat(w, i)] = stored[w]
        BY <1>4, <2>1, <2>2 DEF Calm
      <3>2. stored[w] # NoSession
        BY <2>2, <3>1, BothBegin, Numbered DEF Begun
      <3> QED
        BY <1>1, <3>1, <3>2 DEF ChatInv, Kept
    <2> QED
      BY <1>1, <1>4, <2>1, <2>2 DEF Calm, Begun
  <1>5. CalmUnlessHasty'
    BY <1>1, <1>3, <1>4 DEF ChatInv, CalmUnlessHasty
  <1> QED
    BY <1>2, <1>5 DEF ChatInv

LEMMA ChatInvFail ==
    ASSUME ChatInv, WebTypeOK, NEW w \in Widgets, NEW i \in 1..LastChat, Fail(w, i)
    PROVE  ChatInv'
  <1>1. /\ UNCHANGED <<sent, asked, stored, hasty, call>>
        /\ spoiled'[w] /\ pending'[w] \subseteq pending[w]
        /\ \A v \in Widgets : v # w => pending'[v] = pending[v] /\ spoiled'[v] = spoiled[v]
    BY DEF Fail, WebTypeOK
  <1>2. Counted' /\ Kept'
    BY <1>1 DEF ChatInv, Counted, Kept, Begun
  <1>3. ASSUME NEW v \in Widgets, v # w, Calm(v)
        PROVE  Calm(v)'
    BY <1>1, <1>3 DEF Calm, Begun
  <1> QED
    BY <1>1, <1>2, <1>3 DEF ChatInv, CalmUnlessHasty

LEMMA ChatInvInit == Init => ChatInv
  BY Numbered, SourceAssumption DEF Init, CallsInit, WebInit, ChatInv, Counted, Kept,
      CalmUnlessHasty, Calm, Begun, Unsent

LEMMA ChatInvStep ==
    ASSUME Typed, ChatInv, [Next]_vars
    PROVE  ChatInv'
  <1> USE DEF Typed
  <1>1. CASE Settles /\ CallsOK' /\ UNCHANGED <<mailbox, browser>>
    BY <1>1, ChatInvSettles
  <1>2. CASE Crash /\ Settles /\ CallsOK'
    BY <1>2, ChatInvSettles DEF Crash
  <1>3. CASE MailStep /\ UNCHANGED browser
    <2>1. CASE Arrive \/ Poll \/ Close \/ Hang
      BY <1>3, <2>1, ChatInvFrame DEF Arrive, Poll, Close, Hang
    <2>2. ASSUME NEW n \in 1..LastMail, Handle(n)
          PROVE  ChatInv'
      BY <1>3, <2>2, MailFrame, Numbered, ChatInvFrame
    <2> QED
      BY <1>3, <2>1, <2>2 DEF MailStep
  <1>4. CASE (\E w \in Widgets : Converse(w)) /\ UNCHANGED mailbox
    BY <1>4, ChatInvSend, ChatInvAccept, ChatInvDeliver, ChatInvFail DEF Converse
  <1>5. CASE UNCHANGED vars
    BY <1>5, ChatInvFrame DEF vars
  <1> QED
    BY <1>1, <1>2, <1>3, <1>4, <1>5, NextCases
-----------------------------------------------------------------------------
(* The invariant.                                                          *)

\* An agent that is at work has not answered.
Busy == \A m \in Messages : call[m].by = "answered" => call[m].turn # "running"

GatewayInv == Typed /\ MailInv /\ ChatInv /\ Busy

\* A message is handed over once; everything else leaves its call to settle.
LEMMA CallStep ==
    ASSUME GatewayInv, [Next]_vars, NEW m \in Messages
    PROVE  \/ /\ call'[m].by = "unsent" <=> call[m].by = "unsent"
              /\ call[m].by \in {"answered", "failed"} => call'[m].by = call[m].by
              /\ call'[m].turn = "running" => call[m].turn = "running"
              /\ (call'[m].by = "answered" /\ call[m].by # "answered") =>
                    call'[m].turn # "running"
           \/ call[m].by = "unsent" /\ call'[m].by = "waiting"
  <1> USE DEF GatewayInv, Typed
  <1>1. CASE Settles
    BY <1>1 DEF Settles
  <1>2. CASE UNCHANGED call
    BY <1>2
  <1>3. ASSUME NEW n \in 1..LastMail, HandOver(n)
        PROVE  \/ call'[m] = call[m]
               \/ call[m].by = "unsent" /\ call'[m].by = "waiting"
    <2>1. CASE m = Mail(n)
      <3>1. Unasked(n)
        BY <1>3, MailInvHandOver
      <3>2. call'[m].by = "waiting"
        BY <1>3, <2>1 DEF HandOver, Process, CallsOK
      <3> QED
        BY <2>1, <3>1, <3>2 DEF Unasked
    <2>2. CASE m # Mail(n)
      BY <1>3, <2>2, MailFrame DEF Handle
    <2> QED
      BY <2>1, <2>2
  <1>4. ASSUME NEW w \in Widgets, NEW i \in 1..LastChat, Accept(w, i)
        PROVE  \/ call'[m] = call[m]
               \/ call[m].by = "unsent" /\ call'[m].by = "waiting"
    <2>1. ~Begun(w, i)
      BY <1>4, ChatInvAccept
    <2>2. PICK s : s = SessionFor(Chat(w, i))
      OBVIOUS
    <2>3. call' = [call EXCEPT ![Chat(w, i)] =
                      [by |-> "waiting", turn |-> "running", session |-> s]]
      BY <1>4, <2>2 DEF Accept, Process
    <2>4. m # Chat(w, i) => call'[m] = call[m]
      BY <2>3 DEF CallsOK
    <2>5. m = Chat(w, i) => call'[m].by = "waiting"
      BY <2>3 DEF CallsOK
    <2> QED
      BY <2>1, <2>4, <2>5 DEF Begun
  <1>5. CASE MailStep
    BY <1>2, <1>3, <1>5 DEF MailStep, Arrive, Poll, Close, Hang, Handle, Skip, FailRead, Reply, FailReply
  <1>6. CASE \E w \in Widgets : Converse(w)
    BY <1>2, <1>4, <1>6 DEF Converse, Send, Deliver, Fail
  <1> QED
    BY <1>1, <1>2, <1>5, <1>6, NextCases DEF vars

LEMMA GatewayInvInit == Init => GatewayInv
  <1>1. Init => Busy
    BY DEF Init, CallsInit, Busy, Unsent
  <1> QED
    BY <1>1, TypedInit, MailInvInit, ChatInvInit DEF GatewayInv

LEMMA GatewayInvStep ==
    ASSUME GatewayInv, [Next]_vars
    PROVE  GatewayInv'
  <1>1. Busy'
    BY CallStep DEF GatewayInv, Busy
  <1> QED
    BY <1>1, TypedStep, MailInvStep, ChatInvStep DEF GatewayInv

LEMMA Invariant == Spec => []GatewayInv
  BY GatewayInvInit, GatewayInvStep, PTL DEF Spec

-----------------------------------------------------------------------------
(* The theorems.                                                           *)

\* No message is handed to the agent a second time: neither a mail that a poll
\* finds again after a failed reply or a crash, nor a message of the chat.
THEOREM AskedOnce == Spec => HandedOverOnce
  <1>1. ASSUME GatewayInv, [Next]_vars
        PROVE  [\A m \in Messages :
                   call[m].by \in {"answered", "failed"} => call'[m].by = call[m].by]_vars
    BY <1>1, CallStep
  <1> QED
    BY <1>1, Invariant, PTL DEF Spec, HandedOverOnce

\* The mails of a sender are handed over in the order they came in, whatever
\* polls fail and whenever the gateway crashes: once a later one was handed
\* over, every earlier one that could be read has been.
THEOREM MailOrder == Spec => MailsKeepOrder
  <1>1. ASSUME GatewayInv
        PROVE  [\A k, n \in 1..LastMail :
                   /\ k < n /\ SenderOf[k] = SenderOf[n] /\ k \notin broken
                   /\ call[Mail(n)].by # "unsent" /\ call[Mail(k)].by = "unsent"
                   => call'[Mail(k)].by = "unsent"]_vars
    BY <1>1 DEF GatewayInv, MailInv, InOrder, Unasked
  <1> QED
    BY <1>1, Invariant, PTL DEF MailsKeepOrder

\* The sessions a message of a widget may be for belong to no other widget and
\* to no mail.
LEMMA SessionsApart ==
    ASSUME GatewayInv, NEW w \in Widgets, NEW i \in 1..LastChat, Begun(w, i)
    PROVE  \E j \in 1..LastChat : call[Chat(w, i)].session = Chat(w, j)
  BY BothBegin, Numbered DEF GatewayInv, Typed, Owned, Own, Begun

\* Two turns of one session run side by side only after a timeout, or when the
\* customer was hasty or was let down.
THEOREM Overlap == Spec => []OverlapNeedsHaste
  <1>1. ASSUME GatewayInv, NEW a \in Messages, NEW b \in Messages, a # b,
               call[a].turn = "running", call[b].turn = "running",
               call[a].session = call[b].session, ~GivenUp(a), ~GivenUp(b)
        PROVE  \E w \in Widgets : a[1] = w /\ b[1] = w /\ (hasty[w] \/ spoiled[w])
    <2>1. Waiting(a) /\ Waiting(b)
      BY <1>1, BothBegin DEF GatewayInv, Typed, Busy, GivenUp, Waiting, Call
    <2>2. ASSUME NEW n \in 1..LastMail, NEW w \in Widgets, NEW i \in 1..LastChat,
                 Waiting(Mail(n)), Waiting(Chat(w, i)),
                 call[Mail(n)].session = call[Chat(w, i)].session
          PROVE  FALSE
      <3>1. call[Mail(n)].session = SenderOf[n]
        BY <1>1, <2>2 DEF GatewayInv, MailInv, Remembered, Unasked, Waiting
      <3>2. call[Chat(w, i)].session \in Chats
        BY <1>1, <2>2, SessionsApart, Numbered DEF Begun, Waiting
      <3> QED
        BY <2>2, <3>1, <3>2, Separate
    <2>3. ASSUME NEW n \in 1..LastMail, NEW k \in 1..LastMail, a = Mail(n), b = Mail(k)
          PROVE  FALSE
      <3>1. Current(n) /\ Current(k)
        BY <1>1, <2>1, <2>3 DEF GatewayInv, MailInv, AtHand
      <3>2. n \in Nat /\ k \in Nat /\ n <= k /\ k <= n
        BY <3>1, SourceAssumption DEF Current
      <3> QED
        BY <1>1, <2>3, <3>2
    <2>4. ASSUME NEW w \in Widgets, NEW i \in 1..LastChat,
                 NEW v \in Widgets, NEW j \in 1..LastChat, a = Chat(w, i), b = Chat(v, j)
          PROVE  a[1] = w /\ b[1] = w /\ (hasty[w] \/ spoiled[w])
      <3>1. Begun(w, i) /\ Begun(v, j)
        BY <2>1, <2>4 DEF Begun, Waiting
      <3>2. w = v
        BY <1>1, <2>4, <3>1, SessionsApart, Numbered
      <3>3. ASSUME Calm(w)
            PROVE  FALSE
        <4>1. i \in pending[w] /\ j \in pending[w]
          BY <2>1, <2>4, <3>1, <3>2, <3>3 DEF Calm, Waiting
        <4> QED
          BY <1>1, <2>4, <3>2, <3>3, <4>1 DEF Calm
      <3>4. a[1] = w /\ b[1] = w
        BY <2>4, <3>2 DEF Chat
      <3> QED
        BY <1>1, <3>3, <3>4 DEF GatewayInv, ChatInv, CalmUnlessHasty
    <2> QED
      BY <1>1, <2>1, <2>2, <2>3, <2>4, MailOrChat
  <1>2. GatewayInv => OverlapNeedsHaste
    BY <1>1 DEF OverlapNeedsHaste
  <1> QED
    BY <1>2, Invariant, PTL

\* The messages of a widget are for one session as long as the customer waits
\* for the answers and gets them.
THEOREM Forks == Spec => []ForkNeedsHaste
  <1>1. ASSUME GatewayInv, NEW w \in Widgets, Calm(w),
               NEW i \in 1..LastChat, NEW j \in 1..LastChat, Begun(w, i), Begun(w, j)
        PROVE  call[Chat(w, i)].session = call[Chat(w, j)].session
    <2>1. ASSUME NEW k \in 1..LastChat, k \in pending[w], Begun(w, k),
                 NEW l \in 1..LastChat, l \notin pending[w], Begun(w, l)
          PROVE  call[Chat(w, k)].session = call[Chat(w, l)].session
      <3>1. call[Chat(w, l)].session = stored[w] /\ asked[Chat(w, k)] = stored[w]
        BY <1>1, <2>1 DEF Calm
      <3>2. stored[w] # NoSession
        BY <1>1, <2>1, <3>1, BothBegin, Numbered DEF GatewayInv, Typed, Begun
      <3> QED
        BY <1>1, <2>1, <3>1, <3>2 DEF GatewayInv, ChatInv, Kept
    <2>2. CASE i \in pending[w] /\ j \in pending[w]
      BY <1>1, <2>2 DEF Calm
    <2>3. CASE i \notin pending[w] /\ j \notin pending[w]
      BY <1>1, <2>3 DEF Calm
    <2> QED
      BY <1>1, <2>1, <2>2, <2>3
  <1>2. ASSUME GatewayInv, NEW w \in Widgets,
               NEW s \in SessionsOf(w), NEW t \in SessionsOf(w), s # t
        PROVE  hasty[w] \/ spoiled[w]
    <2>1. PICK i \in 1..LastChat : Begun(w, i) /\ s = call[Chat(w, i)].session
      BY <1>2 DEF SessionsOf, Begun
    <2>2. PICK j \in 1..LastChat : Begun(w, j) /\ t = call[Chat(w, j)].session
      BY <1>2 DEF SessionsOf, Begun
    <2> QED
      BY <1>1, <1>2, <2>1, <2>2 DEF GatewayInv, ChatInv, CalmUnlessHasty
  <1>3. GatewayInv => ForkNeedsHaste
    BY <1>2 DEF ForkNeedsHaste
  <1> QED
    BY <1>3, Invariant, PTL

\* A widget whose messages are all for the session it knows keeps it.
THEOREM SessionKept == Spec => SettledForGood
  <1>1. ASSUME GatewayInv, [Next]_vars, NEW w \in Widgets, Settled(w)
        PROVE  Settled(w)' /\ stored'[w] = stored[w]
    <2> USE DEF GatewayInv, Typed
    <2>1. CASE UNCHANGED browser
      BY <1>1, <2>1 DEF Settled, browser
    <2>2. ASSUME NEW v \in Widgets, Converse(v)
          PROVE  Settled(w)' /\ stored'[w] = stored[w]
      <3>1. CASE Send(v)
        <4>1. sent[v] + 1 \in 1..LastChat
          BY <1>1, <3>1, SourceAssumption DEF Send, WebTypeOK
        <4>2. \A m \in Chats :
                 asked'[m] = IF m = Chat(v, sent[v] + 1) THEN stored[v] ELSE asked[m]
          BY <1>1, <3>1, <4>1, Numbered DEF Send, WebTypeOK
        <4>3. \A i \in pending'[w] : i \in pending[w] \/ (v = w /\ i = sent[v] + 1)
          BY <1>1, <3>1 DEF Send, WebTypeOK
        <4>4. pending[w] \subseteq 1..LastChat /\ stored' = stored
          BY <1>1, <3>1 DEF Send, WebTypeOK
        <4> QED
          BY <1>1, <4>1, <4>2, <4>3, <4>4, Numbered DEF Settled
      <3>2. ASSUME NEW i \in 1..LastChat, Accept(v, i)
            PROVE  Settled(w)' /\ stored'[w] = stored[w]
        BY <2>1, <3>2 DEF Accept
      <3>3. ASSUME NEW i \in 1..LastChat, Deliver(v, i)
            PROVE  Settled(w)' /\ stored'[w] = stored[w]
        <4>1. v = w => call[Chat(v, i)].session = stored[w]
          BY <1>1, <3>3 DEF Deliver, Settled, ChatInv, Kept, Begun
        <4>2. stored'[w] = stored[w] /\ pending'[w] \subseteq pending[w] /\ asked' = asked
          BY <1>1, <3>3, <4>1 DEF Deliver, WebTypeOK
        <4> QED
          BY <1>1, <4>2 DEF Settled
      <3>4. ASSUME NEW i \in 1..LastChat, Fail(v, i)
            PROVE  Settled(w)' /\ stored'[w] = stored[w]
        BY <1>1, <3>4 DEF Fail, Settled, WebTypeOK
      <3> QED
        BY <2>2, <3>1, <3>2, <3>3, <3>4 DEF Converse
    <2> QED
      BY <1>1, <2>1, <2>2, NextCases DEF Crash, vars
  <1>2. ASSUME GatewayInv, [Next]_vars
        PROVE  [\A w \in Widgets : Settled(w) => Settled(w)' /\ stored'[w] = stored[w]]_vars
    BY <1>1, <1>2
  <1> QED
    BY <1>2, Invariant, PTL DEF Spec, SettledForGood
===============================================================================
