------------------------- MODULE ClientHistoryProofs -------------------------
(***************************************************************************)
(* Theorems about ClientHistory, for any number of overlapping requests of *)
(* any customers.  The invariant ties the row to what was committed: a     *)
(* customer has a row exactly if a request was recorded, failed ones       *)
(* included, and nobody is answered before the save.                       *)
(***************************************************************************)
EXTENDS ClientHistory, FiniteSetTheorems, TLAPS

OnRecord(c) == \E q \in saved : ClientOf[q] = c

Inv ==
    /\ TypeOK
    /\ OneFirst
    /\ RepeatHasRecord
    /\ \A r \in Requests : status[r] \in {"first", "repeat"} => r \in saved
    /\ \A r \in saved : status[r] \in Answers
    /\ \A c \in Clients : row[c] > 0 <=> OnRecord(c)
    /\ \A r \in Requests : held[r] > 0 => row[ClientOf[r]] > 0

LEMMA InitInv == Init => Inv
  BY HistoryAssumption
     DEF Init, Inv, TypeOK, OneFirst, RepeatHasRecord, OnRecord, Answers

\* A step that answers nobody "first" or "repeat" and records nothing.
LEMMA QuietInv ==
    ASSUME Inv, TypeOK', row' = row, saved' = saved,
           \A r \in Requests : held'[r] = held[r] \/ held'[r] = row[ClientOf[r]],
           \A r \in saved : status'[r] = status[r],
           \A r \in Requests : \A a \in {"first", "repeat"} :
               status'[r] = a <=> status[r] = a
    PROVE  Inv'
  BY HistoryAssumption DEF Inv, TypeOK, OneFirst, RepeatHasRecord, OnRecord

LEMMA FindInv == ASSUME Inv, NEW r \in Requests, Find(r) PROVE Inv'
  <1>1. TypeOK'
    BY HistoryAssumption DEF Inv, TypeOK, Find
  <1>2. \A q \in Requests : held'[q] = held[q] \/ held'[q] = row[ClientOf[q]]
    BY DEF Inv, TypeOK, Find
  <1>3. \A q \in Requests : \A a \in {"first", "repeat"} :
            status'[q] = a <=> status[q] = a
    BY DEF Inv, TypeOK, Find
  <1>4. \A q \in saved : status'[q] = status[q]
    BY DEF Inv, TypeOK, Find, Answers
  <1> QED
    BY <1>1, <1>2, <1>3, <1>4, QuietInv DEF Find

LEMMA FailedInv ==
    ASSUME Inv, NEW r \in Requests, InsertConflict(r) \/ Break(r) PROVE Inv'
  <1>1. TypeOK'
    BY DEF Inv, TypeOK, InsertConflict, Break, Answers
  <1>2. \A q \in Requests : \A a \in {"first", "repeat"} :
            status'[q] = a <=> status[q] = a
    BY DEF Inv, TypeOK, InsertConflict, Break
  <1>3. \A q \in saved : status'[q] = status[q]
    BY DEF Inv, TypeOK, InsertConflict, Break, Answers
  <1> QED
    BY <1>1, <1>2, <1>3, QuietInv DEF InsertConflict, Break

\* What a committed save does, whatever its caller is answered: r is recorded,
\* its customer has a row, and nobody else is affected.
LEMMA CommitInv ==
    ASSUME Inv, NEW r \in Requests, NEW n \in Nat, n > 0,
           NEW a \in {"first", "repeat"},
           status[r] = "found", Commit(r, n, a),
           a = "first" => row[ClientOf[r]] = 0,
           a = "repeat" => row[ClientOf[r]] > 0
    PROVE  Inv'
  <1> DEFINE c == ClientOf[r]
  <1>0. c \in Clients
    BY HistoryAssumption
  <1>1. PICK b \in {a, "failed"} : status' = [status EXCEPT ![r] = b]
    BY DEF Commit
  <1>2. /\ \A q \in Requests : status'[q] = IF q = r THEN b ELSE status[q]
        /\ \A d \in Clients : row'[d] = IF d = c THEN n ELSE row[d]
        /\ saved' = saved \union {r} /\ held' = held
    BY <1>0, <1>1 DEF Commit, Inv, TypeOK
  <1>3. r \notin saved
    BY DEF Inv, Answers
  <1>4. TypeOK'
    <2>1. row' \in [Clients -> Nat] /\ held' \in [Requests -> Nat]
      BY DEF Inv, TypeOK, Commit
    <2>2. saved' \in SUBSET Requests /\ raced' \in SUBSET Clients
      BY DEF Inv, TypeOK, Commit
    <2>3. status' \in [Requests -> {"sent", "found"} \union Answers]
      BY <1>1 DEF Inv, TypeOK, Answers
    <2> QED
      BY <2>1, <2>2, <2>3 DEF TypeOK
  <1>5. \A q \in Requests : status'[q] \in {"first", "repeat"} => q \in saved'
    BY <1>2 DEF Inv
  <1>6. \A q \in saved' : status'[q] \in Answers
    BY <1>2 DEF Inv, TypeOK, Answers
  <1>7. OneFirst'
    <2>1. a = "first" =>
             \A q \in Requests : ClientOf[q] = c => status[q] # "first"
      <3> SUFFICES ASSUME a = "first", NEW q \in Requests, ClientOf[q] = c,
                          status[q] = "first"
                   PROVE  FALSE
        OBVIOUS
      <3>1. q \in saved
        BY DEF Inv
      <3>2. OnRecord(c)
        BY <3>1 DEF OnRecord
      <3> QED
        BY <1>0, <3>2 DEF Inv
    <2> QED
      BY <1>2, <2>1 DEF OneFirst, Inv
  <1>8. RepeatHasRecord'
    <2> SUFFICES ASSUME NEW p \in Requests, status'[p] = "repeat"
                 PROVE  \E q \in saved' \ {p} : ClientOf[q] = ClientOf[p]
      BY DEF RepeatHasRecord
    <2>1. CASE p = r
      <3>1. OnRecord(c)
        BY <1>0, <1>2, <2>1 DEF Inv
      <3> QED
        BY <1>2, <1>3, <2>1, <3>1 DEF OnRecord
    <2>2. CASE p # r
      <3>1. status[p] = "repeat"
        BY <1>2, <2>2
      <3> QED
        BY <1>2, <3>1 DEF Inv, RepeatHasRecord
    <2> QED
      BY <2>1, <2>2
  <1>9. \A d \in Clients : row'[d] > 0 <=> OnRecord(d)'
    <2> TAKE d \in Clients
    <2>1. CASE d = c
      BY <1>2, <2>1 DEF OnRecord
    <2>2. CASE d # c
      <3>1. OnRecord(d)' <=> OnRecord(d)
        BY <1>2, <2>2 DEF OnRecord
      <3> QED
        BY <1>2, <2>2, <3>1 DEF Inv
    <2> QED
      BY <2>1, <2>2
  <1>10. \A q \in Requests : held'[q] > 0 => row'[ClientOf[q]] > 0
    BY HistoryAssumption, <1>2 DEF Inv, TypeOK
  <1> QED
    BY <1>4, <1>5, <1>6, <1>7, <1>8, <1>9, <1>10 DEF Inv

\* The UNIQUE key: who inserts found no row at the moment of the insert, so
\* nobody was answered "first" before.
LEMMA InsertInv == ASSUME Inv, NEW r \in Requests, Insert(r) PROVE Inv'
  BY CommitInv DEF Insert

\* An update may write a stale count, but never removes the row.
LEMMA UpdateInv == ASSUME Inv, NEW r \in Requests, Update(r) PROVE Inv'
  <1>1. held[r] + 1 \in Nat /\ held[r] + 1 > 0 /\ row[ClientOf[r]] > 0
    BY DEF Inv, TypeOK, Update
  <1> QED
    BY <1>1, CommitInv DEF Update

LEMMA NextInv == Inv /\ [Next]_vars => Inv'
  <1> SUFFICES ASSUME Inv, [Next]_vars PROVE Inv'
    OBVIOUS
  <1>1. CASE UNCHANGED vars
    BY <1>1 DEF Inv, TypeOK, OneFirst, RepeatHasRecord, OnRecord, vars
  <1>2. ASSUME NEW r \in Requests, Handle(r) PROVE Inv'
    BY <1>2, FindInv, FailedInv, InsertInv, UpdateInv DEF Handle
  <1> QED
    BY <1>1, <1>2 DEF Next

LEMMA Invariance == Spec => []Inv
  BY InitInv, NextInv, PTL DEF Spec

-----------------------------------------------------------------------------
\* At most one of a customer's requests is told that the complaint is the
\* first, whatever overlaps (recordComplaint and the UNIQUE key).
THEOREM FirstIsUnique == Spec => []OneFirst
  <1>1. Inv => OneFirst
    BY DEF Inv
  <1> QED
    BY <1>1, Invariance, PTL

\* Nobody is called a repeated complainer unless another request about the same
\* customer was recorded, failures after the commit included (recordComplaint).
THEOREM RepeatsAreRecorded == Spec => []RepeatHasRecord
  <1>1. Inv => RepeatHasRecord
    BY DEF Inv
  <1> QED
    BY <1>1, Invariance, PTL

\* recordComplaint, without a transaction, implements an atomic register, in
\* which a failed request may or may not be on record.
THEOREM HistoryIsRegister == Spec => ImplementsRegister
  <1> DEFINE known == {c \in Clients : row[c] > 0}
             answer == [r \in Requests |->
                           IF status[r] \in Answers THEN status[r] ELSE "pending"]
  <1>1. Init => Register!Init
    <2> SUFFICES ASSUME Init PROVE Register!Init
      OBVIOUS
    <2>1. known = {}
      BY DEF Init
    <2>2. answer = [r \in Requests |-> "pending"]
      BY DEF Init, Answers
    <2> QED
      BY <2>1, <2>2 DEF Register!Init
  <1>2. ASSUME Inv, NEW r \in Requests, NEW n \in Nat, n > 0,
               NEW a \in {"first", "repeat"},
               status[r] = "found", Commit(r, n, a),
               a = IF ClientOf[r] \in known THEN "repeat" ELSE "first"
        PROVE  Register!Record(r) \/ Register!Fail(r)
    <2> DEFINE c == ClientOf[r]
    <2>1. c \in Clients
      BY HistoryAssumption
    <2>2. answer[r] = "pending"
      BY <1>2 DEF Answers
    <2>3. known' = known \union {c}
      <3>1. \A d \in Clients : row'[d] = IF d = c THEN n ELSE row[d]
        BY <1>2, <2>1 DEF Commit, Inv, TypeOK
      <3> QED
        BY <1>2, <2>1, <3>1
    <2>4. \E b \in {a, "failed"} : answer' = [answer EXCEPT ![r] = b]
      <3>1. PICK b \in {a, "failed"} : status' = [status EXCEPT ![r] = b]
        BY <1>2 DEF Commit
      <3>2. answer' = [answer EXCEPT ![r] = b]
        BY <1>2, <3>1 DEF Inv, TypeOK, Answers
      <3> QED
        BY <3>2
    <2> QED
      BY <1>2, <2>2, <2>3, <2>4 DEF Register!Record, Register!Fail
  <1>3. Inv /\ [Next]_vars => [Register!Next]_<<known, answer>>
    <2> SUFFICES ASSUME Inv, [Next]_vars PROVE [Register!Next]_<<known, answer>>
      OBVIOUS
    <2>1. CASE UNCHANGED vars
      BY <2>1 DEF vars
    <2>2. ASSUME NEW r \in Requests, Find(r) PROVE UNCHANGED <<known, answer>>
      BY <2>2 DEF Find, Inv, TypeOK, Answers
    <2>3. ASSUME NEW r \in Requests, InsertConflict(r) \/ Break(r)
          PROVE  Register!Fail(r)
      BY <2>3 DEF InsertConflict, Break, Inv, TypeOK, Answers, Register!Fail
    <2>4. ASSUME NEW r \in Requests, Insert(r)
          PROVE  Register!Record(r) \/ Register!Fail(r)
      <3>1. ClientOf[r] \notin known
        BY <2>4 DEF Insert
      <3> HIDE DEF known, answer
      <3> QED
        BY <1>2, <2>4, <3>1 DEF Insert
    <2>5. ASSUME NEW r \in Requests, Update(r)
          PROVE  Register!Record(r) \/ Register!Fail(r)
      <3>1. ClientOf[r] \in known
        <4>1. row[ClientOf[r]] > 0
          BY <2>5 DEF Update, Inv
        <4> QED
          BY <4>1, HistoryAssumption
      <3>2. held[r] + 1 \in Nat /\ held[r] + 1 > 0
        BY <2>5 DEF Update, Inv, TypeOK
      <3> HIDE DEF known, answer
      <3> QED
        BY <1>2, <2>5, <3>1, <3>2 DEF Update
    <2> QED
      BY <2>1, <2>2, <2>3, <2>4, <2>5 DEF Next, Handle, Register!Next
  <1> QED
    BY <1>1, <1>3, Invariance, PTL DEF Spec, Register!Spec, ImplementsRegister
-----------------------------------------------------------------------------
(* The count.                                                              *)

\* A request that is under way has read no more than what is recorded by now;
\* if nobody else is under way, it has read the count as it is.
CountInv ==
    /\ \A c \in Clients : IsFiniteSet(Recorded(c))
    /\ \A r \in Requests :
          status[r] = "found" => held[r] <= Cardinality(Recorded(ClientOf[r]))
    /\ \A q, r \in Requests :
          /\ ClientOf[q] = ClientOf[r] /\ ClientOf[r] \notin raced
          /\ status[q] = "found" /\ status[r] = "found"
          => q = r /\ held[r] = row[ClientOf[r]]
    /\ CountIsHonest

\* r is recorded with the count it read: the step of Insert and of Update.
Counted(r) ==
    /\ status[r] = "found" /\ r \notin saved
    /\ \E a \in Answers : status' = [status EXCEPT ![r] = a]
    /\ row' = [row EXCEPT ![ClientOf[r]] = held[r] + 1]
    /\ saved' = saved \union {r}
    /\ UNCHANGED <<held, raced>>

LEMMA RecordedTyped ==
    ASSUME CountInv, NEW c \in Clients
    PROVE  IsFiniteSet(Recorded(c)) /\ Cardinality(Recorded(c)) \in Nat
  BY FS_CardinalityType DEF CountInv

\* Whatever changes neither what is recorded nor the rows keeps the count.
LEMMA CountFind ==
    ASSUME Inv, CountInv, NEW r \in Requests, Find(r)
    PROVE  CountInv'
  <1> DEFINE c == ClientOf[r]
  <1>1. c \in Clients /\ status[r] = "sent" /\ row' = row
    BY HistoryAssumption DEF Find
  <1>2. /\ \A q \in Requests : q # r => status'[q] = status[q] /\ held'[q] = held[q]
        /\ status'[r] = "found" /\ held'[r] = row[c]
    BY DEF Find, Inv, TypeOK
  <1>3. \A d \in Clients : Recorded(d)' = Recorded(d)
    BY DEF Recorded, Find
  <1>4. raced \subseteq raced'
    BY DEF Find
  <1>5. CountIsHonest'
    BY <1>1, <1>3, <1>4 DEF CountInv, CountIsHonest
  <1>6. \A q \in Requests :
           status'[q] = "found" => held'[q] <= Cardinality(Recorded(ClientOf[q])')
    BY <1>1, <1>2, <1>3, HistoryAssumption DEF CountInv, CountIsHonest
  <1>7. ASSUME NEW q \in Requests, NEW t \in Requests,
               ClientOf[q] = ClientOf[t], ClientOf[t] \notin raced',
               status'[q] = "found", status'[t] = "found"
        PROVE  q = t /\ held'[t] = row'[ClientOf[t]]
    <2>1. CASE q # r /\ t # r
      BY <1>1, <1>2, <1>4, <1>7, <2>1 DEF CountInv
    <2>2. CASE q = r \/ t = r
      <3>1. \A p \in Requests : p # r /\ ClientOf[p] = c => status[p] # "found"
        BY <1>7, <2>2 DEF Find
      <3> QED
        BY <1>1, <1>2, <1>7, <2>2, <3>1
    <2> QED
      BY <2>1, <2>2
  <1> QED
    BY <1>3, <1>5, <1>6, <1>7 DEF CountInv

LEMMA CountFailed ==
    ASSUME Inv, CountInv, NEW r \in Requests, InsertConflict(r) \/ Break(r)
    PROVE  CountInv'
  <1>1. /\ \A q \in Requests : q # r => status'[q] = status[q]
        /\ status'[r] = "failed" /\ status[r] \in {"sent", "found"}
        /\ UNCHANGED <<row, held, saved, raced>>
    BY DEF InsertConflict, Break, Inv, TypeOK
  <1>2. \A d \in Clients : Recorded(d)' = Recorded(d)
    BY <1>1 DEF Recorded
  <1> QED
    BY <1>1, <1>2, HistoryAssumption DEF CountInv, CountIsHonest

LEMMA CountRecorded ==
    ASSUME Inv, CountInv, NEW r \in Requests, Counted(r)
    PROVE  CountInv'
  <1> DEFINE c == ClientOf[r]
  <1>1. c \in Clients /\ held[r] \in Nat
    BY HistoryAssumption DEF Inv, TypeOK
  <1>2. /\ \A q \in Requests : q # r => status'[q] = status[q]
        /\ status'[r] \in Answers
        /\ \A d \in Clients : row'[d] = IF d = c THEN held[r] + 1 ELSE row[d]
        /\ held' = held /\ raced' = raced
    BY <1>1 DEF Counted, Inv, TypeOK
  <1>3. /\ Recorded(c)' = Recorded(c) \union {r} /\ r \notin Recorded(c)
        /\ \A d \in Clients : d # c => Recorded(d)' = Recorded(d)
    BY <1>2 DEF Recorded, Counted
  <1>4. /\ IsFiniteSet(Recorded(c)')
        /\ Cardinality(Recorded(c)') = Cardinality(Recorded(c)) + 1
    BY <1>1, <1>3, RecordedTyped, FS_AddElement
  <1>5. \A d \in Clients :
           /\ IsFiniteSet(Recorded(d)')
           /\ Cardinality(Recorded(d)') \in Nat /\ Cardinality(Recorded(d)) \in Nat
           /\ Cardinality(Recorded(d)') >= Cardinality(Recorded(d))
    <2> TAKE d \in Clients
    <2>1. IsFiniteSet(Recorded(d)) /\ Cardinality(Recorded(d)) \in Nat
      BY RecordedTyped
    <2>2. CASE d = c
      BY <1>4, <2>1, <2>2
    <2>3. CASE d # c
      <3>1. Recorded(d)' = Recorded(d)
        BY <1>3, <2>3
      <3> QED
        BY <2>1, <3>1
    <2> QED
      BY <2>2, <2>3
  <1>6. held[r] <= Cardinality(Recorded(c))
    BY DEF CountInv, Counted
  <1>7. c \notin raced => held[r] = Cardinality(Recorded(c))
    BY <1>1 DEF CountInv, CountIsHonest, Counted
  <1>8. CountIsHonest'
    <2> SUFFICES ASSUME NEW d \in Clients
                 PROVE  /\ row'[d] <= Cardinality(Recorded(d)')
                        /\ d \notin raced' => row'[d] = Cardinality(Recorded(d)')
      BY DEF CountIsHonest
    <2>1. CASE d = c
      <3>1. row'[d] = held[r] + 1
        BY <1>2, <2>1
      <3>2. Cardinality(Recorded(d)') = Cardinality(Recorded(c)) + 1
        BY <1>4, <2>1
      <3>3. d \notin raced' => held[r] = Cardinality(Recorded(c))
        BY <1>2, <1>7, <2>1
      <3> HIDE DEF c
      <3>4. Cardinality(Recorded(c)) \in Nat
        BY <1>1, RecordedTyped
      <3> QED
        BY <1>1, <1>6, <3>1, <3>2, <3>3, <3>4
    <2>2. CASE d # c
      <3>1. row'[d] = row[d] /\ Recorded(d)' = Recorded(d) /\ raced' = raced
        BY <1>2, <1>3, <2>2
      <3> QED
        BY <3>1 DEF CountInv, CountIsHonest
    <2> QED
      BY <2>1, <2>2
  <1>9. \A q \in Requests :
           status'[q] = "found" => held'[q] <= Cardinality(Recorded(ClientOf[q])')
    <2> TAKE q \in Requests
    <2> HAVE status'[q] = "found"
    <2>1. status[q] = "found" /\ ClientOf[q] \in Clients /\ held[q] \in Nat
      BY <1>2, HistoryAssumption DEF Counted, Inv, TypeOK
    <2>2. held[q] <= Cardinality(Recorded(ClientOf[q]))
      BY <2>1 DEF CountInv
    <2> QED
      BY <1>2, <1>5, <2>1, <2>2
  <1>10. \A q, t \in Requests :
           /\ ClientOf[q] = ClientOf[t] /\ ClientOf[t] \notin raced'
           /\ status'[q] = "found" /\ status'[t] = "found"
           => q = t /\ held'[t] = row'[ClientOf[t]]
    <2> SUFFICES ASSUME NEW q \in Requests, NEW t \in Requests,
                        ClientOf[q] = ClientOf[t], ClientOf[t] \notin raced',
                        status'[q] = "found", status'[t] = "found"
                 PROVE  q = t /\ held'[t] = row'[ClientOf[t]]
      OBVIOUS
    <2>1. q # r /\ t # r /\ status[q] = "found" /\ status[t] = "found"
      BY <1>2 DEF Counted, Answers
    <2>2. q = t /\ held[t] = row[ClientOf[t]]
      BY <1>2, <2>1 DEF CountInv
    <2>3. ClientOf[t] # c
      BY <1>2, <2>1 DEF CountInv, Counted
    <2> QED
      BY <1>2, <2>2, <2>3, HistoryAssumption
  <1> QED
    BY <1>5, <1>8, <1>9, <1>10 DEF CountInv

LEMMA CountStep ==
    ASSUME Inv, CountInv, [Next]_vars
    PROVE  CountInv'
  <1>1. ASSUME NEW r \in Requests, Insert(r) \/ Update(r)
        PROVE  CountInv'
    <2>1. Counted(r)
      <3>1. r \notin saved
        BY <1>1 DEF Insert, Update, Inv, Answers
      <3> QED
        BY <1>1, <3>1 DEF Insert, Update, Commit, Counted, Answers, Inv, TypeOK
    <2> QED
      BY <2>1, CountRecorded
  <1>3. CASE UNCHANGED vars
    BY <1>3 DEF vars, CountInv, CountIsHonest, Recorded
  <1> QED
    BY <1>1, <1>3, CountFind, CountFailed DEF Next, Handle

\* Rows, local variables and answers keep their types.
THEOREM TypeCorrect == Spec => []TypeOK
  <1>1. Inv => TypeOK
    BY DEF Inv
  <1> QED
    BY <1>1, Invariance, PTL

\* The stored count never claims more complaints than were recorded, and is
\* exact for a customer whose requests never overlapped, for any number of
\* requests (recordComplaint's unguarded read and save).
THEOREM CountStaysHonest == Spec => []CountIsHonest
  <1>1. Init => CountInv
    <2> SUFFICES ASSUME Init PROVE CountInv
      OBVIOUS
    <2>1. \A c \in Clients : Recorded(c) = {}
      BY DEF Init, Recorded
    <2>2. \A c \in Clients : IsFiniteSet(Recorded(c)) /\ Cardinality(Recorded(c)) = 0
      BY <2>1, FS_EmptySet
    <2> QED
      BY <2>2 DEF Init, CountInv, CountIsHonest
  <1>2. CountInv => CountIsHonest
    BY DEF CountInv
  <1> QED
    BY <1>1, <1>2, CountStep, Invariance, PTL DEF Spec
=============================================================================
