------------------------------ MODULE EmailPoll ------------------------------
(***************************************************************************)
(* The e-mail channel: EmailController.pollEmails, and what EmailAdapter   *)
(* needs of a mail.                                                        *)
(*                                                                         *)
(* A poll takes the unread mails and handles them one after the other; the *)
(* next poll starts after it ended (fixedDelay).  An exception about one   *)
(* mail is logged and the next mail follows.  The mailbox is IMAP: to      *)
(* fetch the body of a mail marks it as seen (jakarta.mail does not peek   *)
(* unless it is told to), to fetch its headers does not.  Neither IMAP nor *)
(* SMTP has a timeout: a poll may hang for good.                           *)
(***************************************************************************)
EXTENDS AgentClient

CONSTANTS
    SenderOf,   \* the From address of each mail, by its number
    NoSender    \* a mail without one

\* No mail is for a session of the chat (build_session_key has the channel).
ASSUME SenderAssumption ==
    \A n \in 1..LastMail : SenderOf[n] # NoSession /\ SenderOf[n] \notin Chats

Mail(n) == <<Inbox, n>>

VARIABLES
    inbox,      \* the number of mails that have arrived
    seen,       \* IMAP: the mails with the flag SEEN
    replied,    \* the mails whose answer was sent
    queue,      \* pollEmails: the mails of unread that are left
    at,         \* pollEmails: between polls, next mail, calling the agent, hung
    broken      \* history: the mails whose body could not be read

mailbox == <<inbox, seen, replied, queue, at, broken>>

EmailTypeOK ==
    /\ inbox \in 0..LastMail
    /\ seen \subseteq 1..inbox /\ replied \subseteq 1..inbox
    /\ queue \subseteq 1..inbox /\ broken \subseteq 1..inbox
    /\ at \in {"idle", "next", "calling", "hung"}

EmailInit ==
    /\ inbox = 0 /\ at = "idle"
    /\ seen = {} /\ replied = {} /\ queue = {} /\ broken = {}

Readable(n) == SenderOf[n] # NoSender

\* Mutant: the newest mail first.
CurrentNewest(n) == n \in queue /\ \A k \in queue : k <= n

\* The mail the poll is at: messages come in the order of their numbers.
Current(n) == n \in queue /\ \A k \in queue : n <= k

Arrive ==
    /\ inbox < LastMail
    /\ inbox' = inbox + 1
    /\ UNCHANGED <<seen, replied, queue, at, broken, call>>

\* pollEmails, up to the search for unseen mails; a poll that cannot connect
\* changes nothing.
Poll ==
    /\ at = "idle"
    /\ queue' = (1..inbox) \ seen
    /\ at' = "next"
    /\ UNCHANGED <<inbox, seen, replied, broken, call>>

\* toInternal: a mail without From is given up before its body is read.
Skip(n) ==
    /\ at = "next" /\ Current(n)
    /\ ~Readable(n)
    /\ queue' = queue \ {n}
    /\ UNCHANGED <<inbox, seen, replied, at, broken, call>>

\* Mutant: the poll hands the mail over and goes on to the next.
HandOverAsync(n) ==
    /\ at = "next" /\ Current(n)
    /\ Readable(n)
    /\ seen' = seen \union {n}
    /\ queue' = queue \ {n}
    /\ Process(Mail(n), SenderOf[n])
    /\ UNCHANGED <<inbox, replied, at, broken>>

\* Mutant: the body is fetched with BODY.PEEK.
HandOverPeeking(n) ==
    /\ at = "next" /\ Current(n)
    /\ Readable(n)
    /\ at' = "calling"
    /\ Process(Mail(n), SenderOf[n])
    /\ UNCHANGED <<inbox, seen, replied, queue, broken>>

\* toInternal and the call of the agent: the sender's address is the client,
\* and so the session.
HandOver(n) ==
    /\ at = "next" /\ Current(n)
    /\ Readable(n)
    /\ seen' = seen \union {n}
    /\ at' = "calling"
    /\ Process(Mail(n), SenderOf[n])
    /\ UNCHANGED <<inbox, replied, queue, broken>>

\* The body cannot be fetched, or not be parsed once it was (bound: once for
\* each mail).
FailRead(n) ==
    /\ at = "next" /\ Current(n)
    /\ Readable(n)
    /\ n \notin broken
    /\ seen' \in {seen, seen \union {n}}
    /\ broken' = broken \union {n}
    /\ queue' = queue \ {n}
    /\ UNCHANGED <<inbox, replied, at, call>>

\* sendReply, and setFlag(SEEN).
Reply(n) ==
    /\ at = "calling" /\ Current(n)
    /\ call[Mail(n)].by = "answered"
    /\ replied' = replied \union {n}
    /\ seen' = seen \union {n}
    /\ queue' = queue \ {n}
    /\ at' = "next"
    /\ UNCHANGED <<inbox, broken, call>>

\* The agent failed or took too long, or SMTP refuses the reply.
FailReply(n) ==
    /\ at = "calling" /\ Current(n)
    /\ call[Mail(n)].by \in {"answered", "failed"}
    /\ queue' = queue \ {n}
    /\ at' = "next"
    /\ UNCHANGED <<inbox, seen, replied, broken, call>>

\* The poll ends; the next one comes two minutes later.
Close ==
    /\ at = "next" /\ queue = {}
    /\ at' = "idle"
    /\ UNCHANGED <<inbox, seen, replied, queue, broken, call>>

\* A call of the database, the IMAP or the SMTP server never returns.  The mail it
\* is about may be seen by then, or answered: FailRead or Reply came before.
Hang ==
    /\ at \in {"idle", "next", "calling"}
    /\ \A n \in queue : Current(n) => ~(at = "calling" /\ Waiting(Mail(n)))
    /\ at' = "hung"
    /\ UNCHANGED <<inbox, seen, replied, queue, broken, call>>

Handle(n) == Skip(n) \/ HandOver(n) \/ FailRead(n) \/ Reply(n) \/ FailReply(n)
=============================================================================
