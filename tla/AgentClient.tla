----------------------------- MODULE AgentClient -----------------------------
(***************************************************************************)
(* The gateway's only way into the agent: AgentClient.process, one POST    *)
(* with a read timeout and no retry.  The channels EXTEND this module.     *)
(*                                                                         *)
(* The agent's side of a call is a turn (module AgentTurn), which goes on  *)
(* when the gateway has given up waiting for it.                           *)
(***************************************************************************)
EXTENDS Naturals

CONSTANTS
    Inbox,      \* where e-mails come from
    Widgets,    \* where chat messages come from: one widget in one browser tab
    LastMail,   \* bound: the number of the last e-mail
    LastChat,   \* bound: the number of the last message of a widget
    NoSession

ASSUME SourceAssumption ==
    /\ Inbox \notin Widgets
    /\ LastMail \in Nat /\ LastChat \in Nat
    /\ NoSession \notin Widgets \X (1..LastChat)

\* The n-th e-mail, or the n-th message of a widget.
Mails == {Inbox} \X (1..LastMail)
Chats == Widgets \X (1..LastChat)
Messages == Mails \union Chats

VARIABLE call   \* the call of each message: the gateway's side, the agent's
                \* side and the session it is for

Unsent == [by |-> "unsent", turn |-> "none", session |-> NoSession]

CallsInit == call = [m \in Messages |-> Unsent]

\* process: the request is sent and the thread waits.
Process(m, s) ==
    call' = [call EXCEPT ![m] = [by |-> "waiting", turn |-> "running", session |-> s]]

Waiting(m) == call[m].by = "waiting"
GivenUp(m) == call[m].by = "failed" /\ call[m].turn = "running"

\* The agent answers, with a reply or an error; nobody may be listening any
\* more.  An agent that cannot be reached at all is an error as well.
EndTurn(m) ==
    /\ call[m].turn = "running"
    /\ \E r \in {"answered", "failed"} :
          call' = [call EXCEPT ![m].turn = "over",
                               ![m].by = IF Waiting(m) THEN r ELSE call[m].by]

\* Mutant: no read timeout is set; HttpURLConnection waits for ever.
GiveUpNever(m) == FALSE /\ Waiting(m) /\ UNCHANGED call

\* READ_TIMEOUT.
GiveUp(m) ==
    /\ Waiting(m)
    /\ call' = [call EXCEPT ![m].by = "failed"]
=============================================================================
