----------------------------- MODULE LivePolicy ------------------------------
(***************************************************************************)
(* Decisions on the policy that is being synchronized: PolicyLoader reads  *)
(* the thresholds out of the chunks RagSync writes, for every single       *)
(* eligibility check, and Eligibility applies them.                        *)
(*                                                                         *)
(* The loader's four regular expressions are the four facts: a chunk       *)
(* either states a fact, and which, or it does not.  The loader reads in   *)
(* one SELECT, so what it returns is a function of the index.              *)
(***************************************************************************)
EXTENDS RagSync, Eligibility

CONSTANTS
    PolicyNames,    \* names that detect_type calls a policy, in the SELECT's order
    Stated,         \* the thresholds each version of a file states
    Bundled,        \* vinted-policy.yaml
    Samples         \* orders to decide on

ASSUME PolicyAssumption ==
    /\ Facts = {"domestic", "international", "auto", "manual"}
    /\ PolicyNames \in Seq({NameOf[f] : f \in Files})
    /\ \A f \in Files : \A v \in DOMAIN Contents[f] : Stated[f][v] \in [Facts -> Nat]
    /\ Bundled \in Thresholds
    /\ Samples \subseteq Orders

\* type = 'policy' (detect_type).
PolicyRows == {r \in rows : \E k \in DOMAIN PolicyNames : PolicyNames[k] = r.source}

\* ORDER BY source, chunk_index.
Position(n) == CHOOSE k \in DOMAIN PolicyNames : PolicyNames[k] = n

Before(q, r) ==
    \/ Position(q.source) < Position(r.source)
    \/ q.source = r.source /\ q.index < r.index

\* The chunks that match the pattern of a fact, and the first match.
Matches(x) == {r \in PolicyRows : x \in Contents[r.file][r.version][r.index]}

Parsed(x) ==
    LET first == CHOOSE r \in Matches(x) : \A q \in Matches(x) : q = r \/ Before(r, q)
    IN  Stated[first.file][first.version][x]

\* Stated by a document; the warranty is always the bundled one.
WithWarranty(s) ==
    [domestic |-> s.domestic, international |-> s.international,
     auto |-> s.auto, manual |-> s.manual, warranty |-> Bundled.warranty]

LoadFromRagDocuments == WithWarranty([x \in Facts |-> Parsed(x)])

\* Mutant: a fact that is missing is taken from the bundled file.
LoadPiecewise ==
    WithWarranty([x \in Facts |-> IF Matches(x) = {} THEN Bundled[x] ELSE Parsed(x)])

\* load: any fact that is missing, or thresholds that do not increase, make it
\* fall back to the bundled file.
Load ==
    IF \E x \in Facts : Matches(x) = {} THEN Bundled
    ELSE LET th == LoadFromRagDocuments IN IF th.auto >= th.manual THEN Bundled ELSE th

-----------------------------------------------------------------------------
\* The document that states the policy, alone and under a name of its own.
IsPolicy(f) ==
    /\ Sole(NameOf[f])
    /\ \E k \in DOMAIN PolicyNames : PolicyNames[k] = NameOf[f]
    /\ \A g \in Files : \A v \in DOMAIN Contents[g] : \A i \in DOMAIN Contents[g][v] :
          g # f => Contents[g][v][i] = {}

Published(f) == {WithWarranty(Stated[f][v]) : v \in 1..version[f]}

\* However a sync and an eligibility check interleave, and wherever a sync
\* stopped, the thresholds that are applied are those of one published version
\* or the bundled ones, never the window of one and the amounts of another;
\* unless two syncs wrote at the same time.
OnePolicyAtATime ==
    \A f \in Files : IsPolicy(f) /\ ~shared => Load \in Published(f) \union {Bundled}

\* The file states every fact in every version, with amounts that increase.
IsComplete(f) ==
    \A v \in DOMAIN Contents[f] :
        /\ \A x \in Facts : \E i \in DOMAIN Contents[f][v] : x \in Contents[f][v][i]
        /\ Stated[f][v].auto < Stated[f][v].manual

\* From a sync that wrote alone and skipped nothing until the next one, claims
\* are decided on the policy it was started for or a later one, and not on the
\* bundled file.
PolicyIsCurrent ==
    \A f \in Files : IsPolicy(f) /\ IsComplete(f) /\ whole[f] > 0 =>
        \E v \in whole[f]..version[f] : Load = WithWarranty(Stated[f][v])

\* Whatever policy is loaded, a defect serves the customer at least as well as
\* a change of mind about the same order (checkComplaintEligibility: a
\* complaint within the window resolves as a return would).
ComplaintsFareBetter ==
    LET th == Load
    IN  th.domestic <= th.warranty =>
            \A o \in Samples :
                Rank(Decide(th, o, "complaint")) >= Rank(Decide(th, o, "return"))

Types == {"return", "complaint"}

\* Whatever policy is loaded, a day more or a unit of money more never makes a
\* decision better: there is no gap and no step back at a boundary.
DecisionsAreMonotone ==
    LET th == Load
    IN  \A o \in Samples, t \in Types :
            /\ Rank(Decide(th, [o EXCEPT !.age = @ + 1], t)) <= Rank(Decide(th, o, t))
            /\ Rank(Decide(th, [o EXCEPT !.amount = @ + 1], t)) <= Rank(Decide(th, o, t))
=============================================================================
