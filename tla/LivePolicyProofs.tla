-------------------------- MODULE LivePolicyProofs --------------------------
(***************************************************************************)
(* Theorems about LivePolicy: the thresholds that are applied while the    *)
(* index changes, and the decisions on them, for every folder, policy,     *)
(* order and number of syncs.                                              *)
(***************************************************************************)
EXTENDS LivePolicy, RagSyncProofs, WellFoundedInduction

LEMMA LeastNatural ==
    ASSUME NEW T, T \subseteq Nat, T # {}
    PROVE  \E x \in T : \A y \in T : x <= y
<1> DEFINE Less == {ss \in Nat \X Nat : ss[1] < ss[2]}
<1>1. IsWellFoundedOn(Less, Nat)
  BY NatLessThanWellFounded DEF OpToRel
<1> HIDE DEF Less
<1>2. PICK x \in T : \A y \in T : ~(<<y, x>> \in Less)
  BY <1>1, WFMin
<1>3. ASSUME NEW y \in T PROVE x <= y
  <2>1. x \in Nat /\ y \in Nat
    OBVIOUS
  <2>2. <<y, x>> \in Nat \X Nat /\ <<y, x>>[1] = y /\ <<y, x>>[2] = x
    BY <2>1
  <2>3. ~(<<y, x>>[1] < <<y, x>>[2])
    BY <1>2, <2>2 DEF Less
  <2> QED
    BY <2>1, <2>2, <2>3
<1> QED
  BY <1>3

-----------------------------------------------------------------------------
(* The decisions, for any thresholds.                                      *)

LEMMA RequestedIsOrder ==
    ASSUME NEW t \in Thresholds, NEW o \in Orders
    PROVE  /\ Requested(o) \in Orders
           /\ Requested(o).age = o.age /\ Requested(o).amount = o.amount
           /\ Requested(o).delivered = o.delivered
           /\ Requested(o).returnable = o.returnable
           /\ Window(t, Requested(o)) = t.domestic
BY DEF Requested, Orders, Window

\* The answers to a return and to a complaint, by the order's age.
LEMMA ReturnAnswers ==
    ASSUME NEW t \in Thresholds, NEW o \in Orders
    PROVE  LET a == Check(t, o, "return") IN
           /\ ~o.returnable => a = Answer(FALSE, FALSE, "non_returnable")
           /\ o.returnable /\ ~o.delivered => a = Error
           /\ o.returnable /\ o.delivered /\ o.age > t.domestic =>
                 a = Answer(FALSE, FALSE, "return_window")
           /\ o.returnable /\ o.delivered /\ o.age <= t.domestic =>
                 a = ByAmount(t, Requested(o))
<1>1. t.domestic \in Nat /\ o.age \in Int
  BY DEF Thresholds, Orders
<1>2. PICK r : r = Requested(o)
  OBVIOUS
<1>3. /\ r.age = o.age /\ r.delivered = o.delivered
      /\ r.returnable = o.returnable /\ Window(t, r) = t.domestic
  BY <1>2, RequestedIsOrder
<1>4. Check(t, o, "return") = CheckReturn(t, r)
  BY <1>2 DEF Check
<1> QED
  BY <1>1, <1>2, <1>3, <1>4 DEF CheckReturn, Answer

LEMMA ComplaintAnswers ==
    ASSUME NEW t \in Thresholds, NEW o \in Orders
    PROVE  LET a == Check(t, o, "complaint") IN
           /\ ~o.delivered => a = Error
           /\ o.delivered /\ o.age > t.warranty => a = Answer(FALSE, TRUE, "legal_warranty")
           /\ o.delivered /\ o.age <= t.warranty /\ o.age > t.domestic =>
                 a = Answer(TRUE, FALSE, "legal_warranty")
           /\ o.delivered /\ o.age <= t.warranty /\ o.age <= t.domestic =>
                 a = ByAmount(t, Requested(o))
<1>1. t.domestic \in Nat /\ t.warranty \in Nat /\ o.age \in Int
  BY DEF Thresholds, Orders
<1>2. PICK r : r = Requested(o)
  OBVIOUS
<1>3. r.age = o.age /\ r.delivered = o.delivered /\ Window(t, r) = t.domestic
  BY <1>2, RequestedIsOrder
<1>4. Check(t, o, "complaint") = CheckComplaint(t, r)
  BY <1>2 DEF Check
<1>5. ~o.delivered => CheckComplaint(t, r) = Error
  BY <1>3 DEF CheckComplaint
<1>6. o.delivered /\ o.age > t.warranty =>
          CheckComplaint(t, r) = Answer(FALSE, TRUE, "legal_warranty")
  BY <1>1, <1>3 DEF CheckComplaint, Answer
<1>7. o.delivered /\ o.age <= t.warranty /\ o.age > t.domestic =>
          CheckComplaint(t, r) = Answer(TRUE, FALSE, "legal_warranty")
  <2> SUFFICES ASSUME o.delivered, o.age <= t.warranty, o.age > t.domestic
               PROVE  CheckComplaint(t, r) = Answer(TRUE, FALSE, "legal_warranty")
    OBVIOUS
  <2>1. /\ r.delivered /\ ~(r.age > t.warranty) /\ r.age <= t.warranty
        /\ r.age > Window(t, r) /\ ~(r.age <= Window(t, r))
    BY <1>1, <1>3
  <2> QED
    BY <2>1 DEF CheckComplaint, Answer
<1>8. o.delivered /\ o.age <= t.warranty /\ o.age <= t.domestic =>
          CheckComplaint(t, r) = ByAmount(t, r)
  <2> SUFFICES ASSUME o.delivered, o.age <= t.warranty, o.age <= t.domestic
               PROVE  CheckComplaint(t, r) = ByAmount(t, r)
    OBVIOUS
  <2>1. /\ r.delivered /\ ~(r.age > t.warranty) /\ r.age <= t.warranty
        /\ r.age <= Window(t, r) /\ ~(r.age > Window(t, r))
    BY <1>1, <1>3
  <2> QED
    BY <2>1 DEF CheckComplaint
<1> QED
  BY <1>2, <1>4, <1>5, <1>6, <1>7, <1>8

\* What each answer means for the customer.
LEMMA Ranks ==
    /\ Rank(Decision(Error)) = 1
    /\ \A b \in BOOLEAN : Rank(Decision(Answer(FALSE, b, "legal_warranty"))) = 0
    /\ Rank(Decision(Answer(FALSE, FALSE, "non_returnable"))) = 0
    /\ Rank(Decision(Answer(FALSE, FALSE, "return_window"))) = 0
    /\ Rank(Decision(Answer(TRUE, FALSE, "legal_warranty"))) = 1
BY DEF Rank, Decision, Answer, Error

LEMMA AmountRanks ==
    ASSUME NEW t \in Thresholds, NEW o \in Orders
    PROVE  /\ o.amount <= t.auto => Rank(Decision(ByAmount(t, o))) = 2
           /\ o.amount > t.auto => Rank(Decision(ByAmount(t, o))) = 1
<1>1. t.auto \in Nat /\ o.amount \in Nat
  BY DEF Thresholds, Orders
<1> QED
  BY <1>1 DEF ByAmount, Decision, Answer, Rank

\* How well the decision serves the customer, by age and amount alone.
LEMMA ReturnRank ==
    ASSUME NEW t \in Thresholds, NEW o \in Orders
    PROVE  /\ ~o.returnable => Rank(Decide(t, o, "return")) = 0
           /\ o.returnable /\ ~o.delivered => Rank(Decide(t, o, "return")) = 1
           /\ o.returnable /\ o.delivered /\ o.age > t.domestic =>
                 Rank(Decide(t, o, "return")) = 0
           /\ o.returnable /\ o.delivered /\ o.age <= t.domestic /\ o.amount <= t.auto =>
                 Rank(Decide(t, o, "return")) = 2
           /\ o.returnable /\ o.delivered /\ o.age <= t.domestic /\ o.amount > t.auto =>
                 Rank(Decide(t, o, "return")) = 1
<1>1. Decide(t, o, "return") = Decision(Check(t, o, "return"))
  BY DEF Decide
<1>2. ASSUME ~o.returnable PROVE Rank(Decide(t, o, "return")) = 0
  <2>1. Check(t, o, "return") = Answer(FALSE, FALSE, "non_returnable")
    BY <1>2, ReturnAnswers
  <2> QED
    BY <1>1, <2>1, Ranks
<1>3. ASSUME o.returnable, ~o.delivered PROVE Rank(Decide(t, o, "return")) = 1
  <2>1. Check(t, o, "return") = Error
    BY <1>3, ReturnAnswers
  <2> QED
    BY <1>1, <2>1, Ranks
<1>4. ASSUME o.returnable, o.delivered, o.age > t.domestic
      PROVE  Rank(Decide(t, o, "return")) = 0
  <2>1. Check(t, o, "return") = Answer(FALSE, FALSE, "return_window")
    BY <1>4, ReturnAnswers
  <2> QED
    BY <1>1, <2>1, Ranks
<1>5. PICK r \in Orders : r = Requested(o) /\ r.amount = o.amount
  BY RequestedIsOrder
<1>6. ASSUME o.returnable, o.delivered, o.age <= t.domestic
      PROVE  Check(t, o, "return") = ByAmount(t, r)
  BY <1>5, <1>6, ReturnAnswers
<1>7. /\ o.amount <= t.auto => Rank(Decision(ByAmount(t, r))) = 2
      /\ o.amount > t.auto => Rank(Decision(ByAmount(t, r))) = 1
  BY <1>5, AmountRanks
<1> QED
  BY <1>1, <1>2, <1>3, <1>4, <1>6, <1>7

LEMMA ComplaintRank ==
    ASSUME NEW t \in Thresholds, NEW o \in Orders
    PROVE  /\ ~o.delivered => Rank(Decide(t, o, "complaint")) = 1
           /\ o.delivered /\ o.age > t.warranty => Rank(Decide(t, o, "complaint")) = 0
           /\ o.delivered /\ o.age <= t.warranty /\ o.age > t.domestic =>
                 Rank(Decide(t, o, "complaint")) = 1
           /\ o.delivered /\ o.age <= t.warranty /\ o.age <= t.domestic =>
                 /\ o.amount <= t.auto => Rank(Decide(t, o, "complaint")) = 2
                 /\ o.amount > t.auto => Rank(Decide(t, o, "complaint")) = 1
<1>1. Decide(t, o, "complaint") = Decision(Check(t, o, "complaint"))
  BY DEF Decide
<1>2. ASSUME ~o.delivered PROVE Rank(Decide(t, o, "complaint")) = 1
  <2>1. Check(t, o, "complaint") = Error
    BY <1>2, ComplaintAnswers
  <2> QED
    BY <1>1, <2>1, Ranks
<1>3. ASSUME o.delivered, o.age > t.warranty PROVE Rank(Decide(t, o, "complaint")) = 0
  <2>1. Check(t, o, "complaint") = Answer(FALSE, TRUE, "legal_warranty")
    BY <1>3, ComplaintAnswers
  <2> QED
    BY <1>1, <2>1, Ranks
<1>4. ASSUME o.delivered, o.age <= t.warranty, o.age > t.domestic
      PROVE  Rank(Decide(t, o, "complaint")) = 1
  <2>1. Check(t, o, "complaint") = Answer(TRUE, FALSE, "legal_warranty")
    BY <1>4, ComplaintAnswers
  <2> QED
    BY <1>1, <2>1, Ranks
<1>5. PICK r \in Orders : r = Requested(o) /\ r.amount = o.amount
  BY RequestedIsOrder
<1>6. ASSUME o.delivered, o.age <= t.warranty, o.age <= t.domestic
      PROVE  Check(t, o, "complaint") = ByAmount(t, r)
  BY <1>5, <1>6, ComplaintAnswers
<1>7. /\ o.amount <= t.auto => Rank(Decision(ByAmount(t, r))) = 2
      /\ o.amount > t.auto => Rank(Decision(ByAmount(t, r))) = 1
  BY <1>5, AmountRanks
<1> QED
  BY <1>1, <1>2, <1>3, <1>4, <1>6, <1>7

LEMMA Measures ==
    ASSUME NEW t \in Thresholds, NEW o \in Orders
    PROVE  /\ t.domestic \in Nat /\ t.warranty \in Nat /\ t.auto \in Nat
           /\ o.age \in Int /\ o.amount \in Nat
           /\ o.delivered \in BOOLEAN /\ o.returnable \in BOOLEAN
BY DEF Thresholds, Orders

\* A defect never serves the customer worse than a change of mind about the
\* same order, provided the warranty lasts as long as the return window.
THEOREM ComplaintsNeverWorse ==
    ASSUME NEW t \in Thresholds, NEW o \in Orders, t.domestic <= t.warranty
    PROVE  Rank(Decide(t, o, "complaint")) >= Rank(Decide(t, o, "return"))
<1>1. Rank(Decide(t, o, "complaint")) \in {0, 1, 2}
  BY Measures, ComplaintRank
<1>2. CASE o.returnable /\ o.delivered /\ o.age <= t.domestic
  BY <1>2, Measures, ReturnRank, ComplaintRank
<1>3. CASE ~(o.returnable /\ o.delivered /\ o.age <= t.domestic)
  BY <1>1, <1>3, Measures, ReturnRank, ComplaintRank
<1> QED
  BY <1>2, <1>3

\* A day more, or a unit of money more, never makes a decision better.
THEOREM LaterAndDearerNeverBetter ==
    ASSUME NEW t \in Thresholds, NEW o \in Orders, NEW k \in {"return", "complaint"}
    PROVE  /\ Rank(Decide(t, [o EXCEPT !.age = @ + 1], k)) <= Rank(Decide(t, o, k))
           /\ Rank(Decide(t, [o EXCEPT !.amount = @ + 1], k)) <= Rank(Decide(t, o, k))
<1>1. ASSUME NEW p \in Orders, p.delivered = o.delivered, p.returnable = o.returnable,
             o.age <= p.age, o.amount <= p.amount
      PROVE  Rank(Decide(t, p, k)) <= Rank(Decide(t, o, k))
  <2>1. /\ p.age \in Int /\ p.amount \in Nat /\ o.age \in Int /\ o.amount \in Nat
        /\ t.domestic \in Nat /\ t.warranty \in Nat /\ t.auto \in Nat
    BY Measures
  <2>2. Rank(Decide(t, p, "return")) <= Rank(Decide(t, o, "return"))
    <3>1. CASE ~o.returnable \/ ~o.delivered
      BY <1>1, <3>1, ReturnRank
    <3>2. CASE o.returnable /\ o.delivered /\ p.age > t.domestic
      <4>1. Rank(Decide(t, p, "return")) = 0
        BY <1>1, <3>2, ReturnRank
      <4>2. Rank(Decide(t, o, "return")) \in {0, 1, 2}
        BY <2>1, <3>2, ReturnRank
      <4> QED
        BY <4>1, <4>2
    <3>3. CASE o.returnable /\ o.delivered /\ p.age <= t.domestic
      <4>1. o.age <= t.domestic
        BY <1>1, <2>1, <3>3
      <4>2. CASE o.amount <= t.auto
        <5>1. Rank(Decide(t, o, "return")) = 2
          BY <3>3, <4>1, <4>2, ReturnRank
        <5>2. p.returnable /\ p.delivered /\ p.age <= t.domestic
          BY <1>1, <3>3
        <5>3. Rank(Decide(t, p, "return")) \in {1, 2}
          BY <2>1, <5>2, ReturnRank
        <5> QED
          BY <5>1, <5>3
      <4>3. CASE p.amount > t.auto
        <5>1. Rank(Decide(t, p, "return")) = 1
          BY <1>1, <3>3, <4>3, ReturnRank
        <5>2. Rank(Decide(t, o, "return")) \in {1, 2}
          BY <2>1, <3>3, <4>1, ReturnRank
        <5> QED
          BY <5>1, <5>2
      <4> QED
        BY <1>1, <2>1, <4>2, <4>3
    <3> QED
      BY <2>1, <3>1, <3>2, <3>3
  <2>3. Rank(Decide(t, p, "complaint")) <= Rank(Decide(t, o, "complaint"))
    <3>1. CASE ~o.delivered
      BY <1>1, <3>1, ComplaintRank
    <3>2. CASE o.delivered /\ p.age > t.domestic
      <4>1. /\ p.age > t.warranty => Rank(Decide(t, p, "complaint")) = 0
            /\ p.age <= t.warranty => Rank(Decide(t, p, "complaint")) = 1
        BY <1>1, <3>2, ComplaintRank
      <4>2. /\ Rank(Decide(t, o, "complaint")) \in {0, 1, 2}
            /\ o.age <= t.warranty => Rank(Decide(t, o, "complaint")) \in {1, 2}
        BY <2>1, <3>2, ComplaintRank
      <4>3. p.age <= t.warranty => o.age <= t.warranty
        BY <1>1, <2>1
      <4> QED
        BY <2>1, <4>1, <4>2, <4>3
    <3>3. CASE o.delivered /\ p.age <= t.domestic
      <4>1. o.age <= t.domestic /\ (p.age <= t.warranty => o.age <= t.warranty)
        BY <1>1, <2>1, <3>3
      <4>2. CASE p.age > t.warranty
        <5>1. Rank(Decide(t, p, "complaint")) = 0
          BY <1>1, <3>3, <4>2, ComplaintRank
        <5>2. Rank(Decide(t, o, "complaint")) \in {0, 1, 2}
          BY <2>1, <3>3, ComplaintRank
        <5> QED
          BY <5>1, <5>2
      <4>3. CASE p.age <= t.warranty /\ o.amount <= t.auto
        <5>1. Rank(Decide(t, o, "complaint")) = 2
          BY <3>3, <4>1, <4>3, ComplaintRank
        <5>2. Rank(Decide(t, p, "complaint")) \in {1, 2}
          BY <1>1, <2>1, <3>3, <4>3, ComplaintRank
        <5> QED
          BY <5>1, <5>2
      <4>4. CASE p.age <= t.warranty /\ p.amount > t.auto
        <5>1. Rank(Decide(t, p, "complaint")) = 1
          BY <1>1, <3>3, <4>4, ComplaintRank
        <5>2. Rank(Decide(t, o, "complaint")) \in {1, 2}
          BY <2>1, <3>3, <4>1, <4>4, ComplaintRank
        <5> QED
          BY <5>1, <5>2
      <4> QED
        BY <1>1, <2>1, <4>2, <4>3, <4>4
    <3> QED
      BY <2>1, <3>1, <3>2, <3>3
  <2> QED
    BY <2>2, <2>3
<1> DEFINE p == [o EXCEPT !.age = o.age + 1]
           q == [o EXCEPT !.amount = o.amount + 1]
<1>2. p \in Orders /\ q \in Orders
  BY Measures DEF Orders
<1>3. /\ p.delivered = o.delivered /\ p.returnable = o.returnable
      /\ o.age <= p.age /\ o.amount <= p.amount
  BY Measures DEF Orders
<1>4. /\ q.delivered = o.delivered /\ q.returnable = o.returnable
      /\ o.age <= q.age /\ o.amount <= q.amount
  BY Measures DEF Orders
<1> HIDE DEF p, q
<1>5. Rank(Decide(t, p, k)) <= Rank(Decide(t, o, k)) /\ Rank(Decide(t, q, k)) <= Rank(Decide(t, o, k))
  BY <1>1, <1>2, <1>3, <1>4
<1> QED
  BY <1>5 DEF p, q

-----------------------------------------------------------------------------
(* The thresholds that are loaded from a changing index.                    *)

LEMMA PolicyPositions ==
    ASSUME NEW r \in PolicyRows
    PROVE  /\ r \in rows
           /\ Position(r.source) \in Nat
           /\ PolicyNames[Position(r.source)] = r.source
<1>1. r \in rows /\ \E k \in DOMAIN PolicyNames : PolicyNames[k] = r.source
  BY DEF PolicyRows
<1>2. DOMAIN PolicyNames \subseteq Nat
  BY PolicyAssumption
<1> QED
  BY <1>1, <1>2 DEF Position

\* The patterns of the loader have a first match, however the rows got there.
LEMMA FirstMatch ==
    ASSUME Typed, Indexed, NEW x, Matches(x) # {}
    PROVE  \E r \in Matches(x) : \A q \in Matches(x) : q = r \/ Before(r, q)
<1>1. \A r \in Matches(x) :
         /\ r \in rows /\ Position(r.source) \in Nat /\ r.index \in Nat
         /\ PolicyNames[Position(r.source)] = r.source
  BY PolicyPositions DEF Matches, Typed, TypeOK, Rows
<1> DEFINE Places == {Position(r.source) : r \in Matches(x)}
<1>2. PICK p \in Places : \A y \in Places : p <= y
  <2>1. Places \subseteq Nat /\ Places # {}
    BY <1>1
  <2> HIDE DEF Places
  <2> QED
    BY <2>1, LeastNatural
<1> DEFINE Indexes == {r.index : r \in {q \in Matches(x) : Position(q.source) = p}}
<1>3. PICK i \in Indexes : \A y \in Indexes : i <= y
  <2>1. Indexes \subseteq Nat /\ Indexes # {}
    BY <1>1, <1>2
  <2> HIDE DEF Indexes
  <2> QED
    BY <2>1, LeastNatural
<1>4. PICK r \in Matches(x) : Position(r.source) = p /\ r.index = i
  BY <1>3
<1>5. ASSUME NEW q \in Matches(x) PROVE q = r \/ Before(r, q)
  <2>1. CASE Position(q.source) = p
    <3>1. q.source = r.source /\ i <= q.index
      BY <1>1, <1>3, <1>4, <1>5, <2>1
    <3>2. q.index = i => q = r
      BY <1>1, <1>4, <3>1 DEF Indexed, Keyed
    <3> QED
      BY <1>1, <1>4, <3>1, <3>2 DEF Before
  <2>2. CASE Position(q.source) # p
    BY <1>1, <1>2, <1>4, <2>2 DEF Before
  <2> QED
    BY <2>1, <2>2
<1> QED
  BY <1>5

\* What is parsed is stated by a matching row.
LEMMA ParsedIsStated ==
    ASSUME Typed, Indexed, NEW x, Matches(x) # {}
    PROVE  \E r \in Matches(x) : Parsed(x) = Stated[r.file][r.version][x]
BY FirstMatch DEF Parsed

LEMMA StatedIsNat ==
    ASSUME Typed, Indexed, NEW r \in rows, NEW x \in Facts
    PROVE  Stated[r.file][r.version][x] \in Nat
<1>1. r.file \in Files /\ r.version \in 1..version[r.file]
  BY DEF Indexed, Real
<1>2. version[r.file] \in 1..Len(Contents[r.file])
  BY <1>1 DEF Typed, Readable
<1>3. DOMAIN Contents[r.file] = 1..Len(Contents[r.file])
  BY <1>1, SyncAssumption
<1>4. r.version \in DOMAIN Contents[r.file]
  BY <1>1, <1>2, <1>3
<1> QED
  BY <1>1, <1>4, PolicyAssumption

\* Whatever the index holds, the loader returns thresholds.
LEMMA LoadedAreThresholds ==
    ASSUME Typed, Indexed
    PROVE  Load \in Thresholds
<1>1. CASE \E x \in Facts : Matches(x) = {}
  BY <1>1, PolicyAssumption DEF Load
<1>2. CASE \A x \in Facts : Matches(x) # {}
  <2>1. \A x \in Facts : Parsed(x) \in Nat
    BY <1>2, ParsedIsStated, StatedIsNat DEF Matches, PolicyRows
  <2>2. Bundled \in Thresholds
    BY PolicyAssumption
  <2>3. LoadFromRagDocuments \in Thresholds
    BY <2>1, <2>2, PolicyAssumption DEF LoadFromRagDocuments, WithWarranty, Thresholds
  <2> QED
    BY <1>2, <2>2, <2>3 DEF Load
<1> QED
  BY <1>1, <1>2

\* Whatever policy is loaded at whatever moment of a sync, a defect serves the
\* customer at least as well as a change of mind.
THEOREM ComplaintsAlwaysFareBetter == Spec => []ComplaintsFareBetter
<1>1. Typed /\ Clean /\ Indexed => ComplaintsFareBetter
  BY LoadedAreThresholds, ComplaintsNeverWorse, PolicyAssumption DEF ComplaintsFareBetter
<1> QED
  BY RowsAreChunks, <1>1, PTL

\* Whatever policy is loaded at whatever moment of a sync, no decision gets
\* better with a day or a unit of money more.
THEOREM DecisionsAlwaysMonotone == Spec => []DecisionsAreMonotone
<1>1. Typed /\ Clean /\ Indexed => DecisionsAreMonotone
  <2> SUFFICES ASSUME Typed, Clean, Indexed PROVE DecisionsAreMonotone
    OBVIOUS
  <2>1. PICK th \in Thresholds : th = Load
    BY LoadedAreThresholds
  <2>2. ASSUME NEW o \in Samples, NEW k \in Types
        PROVE  /\ Rank(Decide(th, [o EXCEPT !.age = @ + 1], k)) <= Rank(Decide(th, o, k))
               /\ Rank(Decide(th, [o EXCEPT !.amount = @ + 1], k)) <= Rank(Decide(th, o, k))
    BY LaterAndDearerNeverBetter, PolicyAssumption DEF Types
  <2> QED
    BY <2>1, <2>2 DEF DecisionsAreMonotone
<1> QED
  BY RowsAreChunks, <1>1, PTL

\* Only the policy document has chunks that state a fact.
LEMMA MatchesAreMine ==
    ASSUME Typed, Indexed, NEW f \in Files, IsPolicy(f), NEW x, NEW r \in Matches(x)
    PROVE  r \in Mine(f) /\ r.file = f
<1>1. /\ r \in rows /\ x \in Contents[r.file][r.version][r.index]
      /\ r.file \in Files /\ r.source = NameOf[r.file]
      /\ r.version \in 1..version[r.file]
      /\ r.index \in 1..Len(Contents[r.file][r.version])
  BY DEF Matches, PolicyRows, Indexed, Real
<1>2. Contents[r.file] \in Seq(Seq(SUBSET Facts)) /\ version[r.file] \in 1..Len(Contents[r.file])
  BY <1>1, SyncAssumption DEF Typed, Readable
<1>3. r.version \in DOMAIN Contents[r.file]
  BY <1>1, <1>2
<1>4. Contents[r.file][r.version] \in Seq(SUBSET Facts)
  BY <1>2, <1>3
<1>5. r.index \in DOMAIN Contents[r.file][r.version]
  BY <1>1, <1>4
<1>6. r.file = f
  BY <1>1, <1>3, <1>5 DEF IsPolicy
<1> QED
  BY <1>1, <1>6 DEF Mine

\* If the rows of the policy are of one version, so are the facts.
LEMMA LoadedFromOne ==
    ASSUME Typed, Indexed, NEW f \in Files, IsPolicy(f), NEW v, NEW m \in Nat,
           Mine(f) = Chunks(f, v, m), \A x \in Facts : Matches(x) # {}
    PROVE  LoadFromRagDocuments = WithWarranty(Stated[f][v])
<1>1. ASSUME NEW x \in Facts PROVE Parsed(x) = Stated[f][v][x]
  <2>1. PICK r \in Matches(x) : Parsed(x) = Stated[r.file][r.version][x]
    BY ParsedIsStated
  <2>2. r \in Chunks(f, v, m) /\ r.file = f
    BY MatchesAreMine
  <2>3. r.version = v
    BY <2>2, ChunkMembers
  <2> QED
    BY <2>1, <2>2, <2>3
<1> QED
  BY <1>1, PolicyAssumption DEF LoadFromRagDocuments, WithWarranty

\* However syncs, crashes and eligibility checks interleave, the thresholds
\* that are applied are those of one version of the policy or the bundled ones.
THEOREM OnePolicyAlways == Spec => []OnePolicyAtATime
<1>1. Typed /\ Clean /\ Indexed => OnePolicyAtATime
  <2> SUFFICES ASSUME Typed, Clean, Indexed, NEW f \in Files, IsPolicy(f), ~shared,
                      Load # Bundled
               PROVE  Load \in Published(f)
    BY DEF OnePolicyAtATime
  <2>1. Load = LoadFromRagDocuments /\ \A x \in Facts : Matches(x) # {}
    BY DEF Load
  <2>2. PICK v \in Nat, m \in Nat : Mine(f) = Chunks(f, v, m)
    BY DEF Clean, Prefix, IsPolicy
  <2>3. Load = WithWarranty(Stated[f][v])
    BY <2>1, <2>2, LoadedFromOne
  <2>4. PICK r \in Matches("auto") : TRUE
    BY <2>1, PolicyAssumption
  <2>5. r \in rows /\ r \in Chunks(f, v, m) /\ r.file = f
    BY <2>2, MatchesAreMine DEF Mine
  <2>6. r.version = v /\ r.version \in 1..version[f]
    BY <2>5, ChunkMembers DEF Indexed, Real
  <2> QED
    BY <2>3, <2>6 DEF Published
<1> QED
  BY RowsAreChunks, <1>1, PTL

\* From a sync that wrote alone and skipped nothing until the next one, the
\* policy that is applied is the one that was synchronized, or a later one.
THEOREM PolicyAlwaysCurrent == Spec => []PolicyIsCurrent
<1>1. Typed /\ Clean /\ Indexed => PolicyIsCurrent
  <2> SUFFICES ASSUME Typed, Clean, Indexed, NEW f \in Files,
                      IsPolicy(f), IsComplete(f), whole[f] > 0
               PROVE  \E v \in whole[f]..version[f] : Load = WithWarranty(Stated[f][v])
    BY DEF PolicyIsCurrent
  <2>1. whole[f] \in Nat /\ version[f] \in 1..Len(Contents[f])
    BY DEF Typed, TypeOK, Versions, Readable
  <2>2. PICK v \in whole[f]..version[f] : Mine(f) = Chunks(f, v, Len(Contents[f][v]))
    BY DEF Clean, Whole, IsPolicy, Complete
  <2>3. Contents[f] \in Seq(Seq(SUBSET Facts)) /\ v \in 1..Len(Contents[f])
    BY <2>1, <2>2, SyncAssumption
  <2>4. v \in DOMAIN Contents[f] /\ Contents[f][v] \in Seq(SUBSET Facts)
    BY <2>3
  <2>5. Len(Contents[f][v]) \in Nat /\ DOMAIN Contents[f][v] = 1..Len(Contents[f][v])
    BY <2>4
  <2>6. ASSUME NEW x \in Facts PROVE Matches(x) # {}
    <3>1. PICK i \in 1..Len(Contents[f][v]) : x \in Contents[f][v][i]
      BY <2>4, <2>5 DEF IsComplete
    <3>2. PICK r : r = [source |-> NameOf[f], index |-> i, file |-> f, version |-> v]
      OBVIOUS
    <3>3. r \in Mine(f)
      BY <2>2, <3>2 DEF Chunks
    <3>4. r \in PolicyRows
      BY <3>2, <3>3 DEF Mine, PolicyRows, IsPolicy
    <3> QED
      BY <3>1, <3>2, <3>4 DEF Matches
  <2>7. LoadFromRagDocuments = WithWarranty(Stated[f][v])
    BY <2>2, <2>5, <2>6, LoadedFromOne
  <2>8. ~(LoadFromRagDocuments.auto >= LoadFromRagDocuments.manual)
    <3>1. Stated[f][v].auto < Stated[f][v].manual
      BY <2>4 DEF IsComplete
    <3>2. Stated[f][v] \in [Facts -> Nat]
      BY <2>4, PolicyAssumption
    <3>3. Stated[f][v].auto \in Nat /\ Stated[f][v].manual \in Nat
      BY <3>2, PolicyAssumption
    <3> QED
      BY <2>7, <3>1, <3>3 DEF WithWarranty
  <2>9. Load = WithWarranty(Stated[f][v])
    BY <2>6, <2>7, <2>8 DEF Load
  <2> QED
    BY <2>2, <2>9
<1> QED
  BY RowsAreChunks, <1>1, PTL
=============================================================================
