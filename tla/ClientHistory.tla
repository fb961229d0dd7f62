---------------------------- MODULE ClientHistory ----------------------------
(***************************************************************************)
(* ClientHistoryService.recordComplaint under concurrent requests.  The    *)
(* method has no transaction of its own: the row of the customer is read,  *)
(* counted up in memory and saved, and nothing keeps another request from  *)
(* doing the same in between.  Only the UNIQUE key of client_history       *)
(* stands between two first complaints.                                    *)
(*                                                                         *)
(* A request is one POST /internal/client-history/complaint, whichever     *)
(* turn or retry of call_with_breaker sent it.  Its save commits on its    *)
(* own, and the request may still fail after it: the connection is lost at *)
(* the commit, or the process ends before the caller has the answer.       *)
(***************************************************************************)
EXTENDS Naturals, FiniteSets

CONSTANTS
    Requests,   \* the requests that arrive
    Clients,    \* pairs of tenant and e-mail address
    ClientOf    \* whom each request is about

ASSUME HistoryAssumption == ClientOf \in [Requests -> Clients]

VARIABLES
    row,        \* complaint_count of the client's row, 0 if there is no row:
                \* only recordComplaint inserts, and what it inserts has counted
    held,       \* priorCount, what the request read
    status,     \* where the request stands, or what its caller was answered
    \* History: not in the program, kept to state what it must not do.
    saved,      \* requests whose save was committed
    raced       \* clients two of whose requests were under way at once

vars == <<row, held, status, saved, raced>>

Answers == {"first", "repeat", "failed"}

\* Type invariant: rows, local variables and answers of recordComplaint.
TypeOK ==
    /\ row \in [Clients -> Nat]
    /\ held \in [Requests -> Nat]
    /\ status \in [Requests -> {"sent", "found"} \union Answers]
    /\ saved \in SUBSET Requests
    /\ raced \in SUBSET Clients

Init ==
    /\ row = [c \in Clients |-> 0]
    /\ held = [r \in Requests |-> 0]
    /\ status = [r \in Requests |-> "sent"]
    /\ saved = {}
    /\ raced = {}

\* Mutant: the new row is saved as soon as it is missed.
FindAndCreate(r) ==
    /\ status[r] = "sent"
    /\ held' = [held EXCEPT ![r] = row[ClientOf[r]]]
    /\ row' = [row EXCEPT ![ClientOf[r]] = IF @ = 0 THEN 1 ELSE @]
    /\ status' = [status EXCEPT ![r] = "found"]
    /\ UNCHANGED <<saved, raced>>

\* findByTenantIdAndClientEmail, or a new ClientHistory.
Find(r) ==
    /\ status[r] = "sent"
    /\ held' = [held EXCEPT ![r] = row[ClientOf[r]]]
    /\ status' = [status EXCEPT ![r] = "found"]
    /\ raced' = IF \E q \in Requests : ClientOf[q] = ClientOf[r] /\ status[q] = "found"
                THEN raced \union {ClientOf[r]} ELSE raced
    /\ UNCHANGED <<row, saved>>

\* The save of count n is committed.  The caller is answered, or the request
\* fails all the same.
Commit(r, n, answer) ==
    /\ row' = [row EXCEPT ![ClientOf[r]] = n]
    /\ saved' = saved \union {r}
    /\ \E a \in {answer, "failed"} : status' = [status EXCEPT ![r] = a]
    /\ UNCHANGED <<held, raced>>

\* Mutant: client_history without its UNIQUE key.
InsertAnyway(r) ==
    /\ status[r] = "found" /\ held[r] = 0
    /\ Commit(r, 1, "first")

\* save inserts the new row, with a count of 1.
Insert(r) ==
    /\ status[r] = "found" /\ held[r] = 0
    /\ row[ClientOf[r]] = 0
    /\ Commit(r, 1, "first")

\* Mutant: the UNIQUE key's error is taken for an answer of its own.
InsertConflictAnswered(r) ==
    /\ status[r] = "found" /\ held[r] = 0
    /\ row[ClientOf[r]] # 0
    /\ status' = [status EXCEPT ![r] = "conflict"]
    /\ UNCHANGED <<row, held, saved, raced>>

\* save inserts a row that another request has inserted since: the UNIQUE key
\* refuses it, and the request ends in an error.
InsertConflict(r) ==
    /\ status[r] = "found" /\ held[r] = 0
    /\ row[ClientOf[r]] # 0
    /\ status' = [status EXCEPT ![r] = "failed"]
    /\ UNCHANGED <<row, held, saved, raced>>

\* Mutant: the count is saved as it was read.
UpdateUncounted(r) ==
    /\ status[r] = "found" /\ held[r] > 0
    /\ Commit(r, held[r], "repeat")

\* Mutant: priorCount is compared with the wrong bound.
UpdateLeniently(r) ==
    /\ status[r] = "found" /\ held[r] > 0
    /\ Commit(r, held[r] + 1, IF held[r] > 1 THEN "repeat" ELSE "first")

\* save updates the row to the count that was read, plus one: the entity has no
\* @Version, so what was counted since is overwritten.
Update(r) ==
    /\ status[r] = "found" /\ held[r] > 0
    /\ Commit(r, held[r] + 1, "repeat")

\* The database fails in either statement, which is then rolled back, or the
\* process ends before the save.
Break(r) ==
    /\ status[r] \in {"sent", "found"}
    /\ status' = [status EXCEPT ![r] = "failed"]
    /\ UNCHANGED <<row, held, saved, raced>>

Handle(r) ==
    Find(r) \/ Insert(r) \/ InsertConflict(r) \/ Update(r) \/ Break(r)

Next == \E r \in Requests : Handle(r)

Spec == Init /\ [][Next]_vars

-----------------------------------------------------------------------------
\* However the requests of a customer overlap, at most one of them is told that
\* this is the first complaint (recordComplaint's isRepeat).
OneFirst ==
    \A q, r \in Requests :
        /\ ClientOf[q] = ClientOf[r]
        /\ status[q] = "first"
        /\ status[r] = "first"
        => q = r

\* A customer is only called a repeated complainer after another request about
\* this customer was recorded: it takes two that reached the save, whether or
\* not their callers learned of it.
RepeatHasRecord ==
    \A r \in Requests : status[r] = "repeat" =>
        \E q \in saved \ {r} : ClientOf[q] = ClientOf[r]

Recorded(c) == {r \in saved : ClientOf[r] = c}

\* complaint_count never exceeds the requests that were recorded, failed ones
\* included, and falls behind them only for a customer whose requests
\* overlapped (a lost update).
CountIsHonest ==
    \A c \in Clients :
        /\ row[c] <= Cardinality(Recorded(c))
        /\ c \notin raced => row[c] = Cardinality(Recorded(c))

-----------------------------------------------------------------------------
\* As far as "first" and "repeat" go, overlapping requests look as if they took
\* effect one after the other: lost updates lose counts, never the row.
Register == INSTANCE ComplaintRegister WITH
    known <- {c \in Clients : row[c] > 0},
    answer <- [r \in Requests |-> IF status[r] \in Answers THEN status[r] ELSE "pending"]

ImplementsRegister == Register!Spec
=============================================================================
