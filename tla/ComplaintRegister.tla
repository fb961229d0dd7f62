-------------------------- MODULE ComplaintRegister --------------------------
(***************************************************************************)
(* What complaint_flow_node may rely on when it asks whether a customer    *)
(* complained before: requests take effect one after the other, the first  *)
(* one on record is answered "first" and every later one "repeat".  A      *)
(* request may fail, and its caller does not learn whether it is recorded. *)
(***************************************************************************)
CONSTANTS Requests, ClientOf

VARIABLES
    known,      \* the clients with a complaint on record
    answer      \* what each request was told

Init ==
    /\ known = {}
    /\ answer = [r \in Requests |-> "pending"]

Record(r) ==
    /\ answer[r] = "pending"
    /\ answer' = [answer EXCEPT ![r] = IF ClientOf[r] \in known THEN "repeat" ELSE "first"]
    /\ known' = known \union {ClientOf[r]}

Fail(r) ==
    /\ answer[r] = "pending"
    /\ answer' = [answer EXCEPT ![r] = "failed"]
    /\ known' \in {known, known \union {ClientOf[r]}}

Next == \E r \in Requests : Record(r) \/ Fail(r)

Spec == Init /\ [][Next]_<<known, answer>>
=============================================================================
