------------------------------- MODULE Gateway -------------------------------
(***************************************************************************)
(* The Java gateway between the customers and the agent: both channels and *)
(* their calls, with a crash of the gateway at any moment.                 *)
(***************************************************************************)
EXTENDS EmailPoll, WebChat

vars == <<call, mailbox, browser>>

Call == [by : {"unsent", "waiting", "answered", "failed"},
         turn : {"none", "running", "over"},
         session : Sessions \union {SenderOf[n] : n \in 1..LastMail}]

\* Type invariant: the mailbox, the widgets and the calls; the agent is never
\* asked without a session (AgentClient sends what it is given).
TypeOK ==
    /\ call \in [Messages -> Call]
    /\ \A m \in Messages :
          call[m] # Unsent => /\ call[m].by # "unsent"
                              /\ call[m].turn # "none"
                              /\ call[m].session # NoSession
    /\ EmailTypeOK
    /\ WebTypeOK

Init == CallsInit /\ EmailInit /\ WebInit

\* The process ends: the poll and the waiting calls with it.  The agent's
\* turns go on.
Crash ==
    /\ \/ at # "idle"
       \/ \E m \in Messages : Waiting(m)
    /\ at' = "idle"
    /\ queue' = {}
    /\ call' = [m \in Messages |->
                   IF Waiting(m) THEN [call[m] EXCEPT !.by = "failed"] ELSE call[m]]
    /\ UNCHANGED <<inbox, seen, replied, broken, browser>>

Next ==
    \/ \E m \in Messages : (EndTurn(m) \/ GiveUp(m)) /\ UNCHANGED <<mailbox, browser>>
    \/ /\ Arrive \/ Poll \/ Close \/ Hang \/ \E n \in 1..LastMail : Handle(n)
       /\ UNCHANGED browser
    \/ (\E w \in Widgets : Converse(w)) /\ UNCHANGED mailbox
    \/ Crash

Spec == Init /\ [][Next]_vars

\* The scheduler runs a poll again and again, the mail server lets one of them
\* in, the poll goes on unless it hangs, a read timeout comes, and the gateway
\* does not crash for ever.  The agent owes nothing, nor does anything end a poll
\* that hangs.
Fairness ==
    /\ WF_vars((Poll \/ Close \/ \E n \in 1..LastMail : Handle(n)) /\ UNCHANGED browser)
    /\ \A m \in Messages : WF_vars(GiveUp(m) /\ UNCHANGED <<mailbox, browser>>)
    /\ <>[][~Crash]_vars

FairSpec == Spec /\ Fairness

-----------------------------------------------------------------------------
\* A mail is handed to the agent once, whatever fails or crashes afterwards: a
\* poll finds only unseen mails, and a mail is seen from the moment its body
\* was read (pollEmails sets the flag only after the reply).
HandedOverOnce ==
    [][\A m \in Messages :
          call[m].by \in {"answered", "failed"} => call'[m].by = call[m].by]_vars

\* The mails of a customer are handed over in the order they came in, unless
\* one of them could not be read at first.
MailsKeepOrder ==
    [][\A k, n \in 1..LastMail :
          /\ k < n /\ SenderOf[k] = SenderOf[n] /\ k \notin broken
          /\ call[Mail(n)].by # "unsent" /\ call[Mail(k)].by = "unsent"
          => call'[Mail(k)].by = "unsent"]_vars

\* Every mail with a sender is read sooner or later, if the poll does not hang for
\* good: no mail that cannot be handled, no silent agent and no crash holds up
\* the others.  To be read is not to be answered: a mail whose call or reply
\* failed stays seen, and no later poll finds it.
EveryMailIsRead ==
    \A n \in 1..LastMail :
        Readable(n) /\ inbox >= n ~> n \in seen \/ [](at = "hung")

\* The agent works on two messages of one session at the same time only if the
\* gateway stopped waiting for one of them, or the customer in the chat did not
\* wait for an answer or did not get one.
OverlapNeedsHaste ==
    \A a, b \in Messages :
        /\ a # b
        /\ call[a].turn = "running" /\ call[b].turn = "running"
        /\ call[a].session = call[b].session
        => \/ GivenUp(a) \/ GivenUp(b)
           \/ \E w \in Widgets : a[1] = w /\ b[1] = w /\ (hasty[w] \/ spoiled[w])

\* The sessions a widget's messages were processed in.
SessionsOf(w) ==
    {call[Chat(w, i)].session : i \in {k \in 1..LastChat : call[Chat(w, k)].by # "unsent"}}

\* A conversation in the chat falls apart into several sessions only if the
\* customer did not wait for an answer, or an answer failed.
ForkNeedsHaste ==
    \A w \in Widgets :
        \A s, t \in SessionsOf(w) : s # t => hasty[w] \/ spoiled[w]

\* The widget knows its session and has no message under way for another.
Settled(w) ==
    /\ stored[w] # NoSession
    /\ \A i \in pending[w] : asked[Chat(w, i)] = stored[w]

\* A conversation that has found its session keeps it, through errors, lost
\* answers and crashes of the gateway (spec.md: reconnecting resumes it).
SettledForGood ==
    [][\A w \in Widgets : Settled(w) => Settled(w)' /\ stored'[w] = stored[w]]_vars
=============================================================================
