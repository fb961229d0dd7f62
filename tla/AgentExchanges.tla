---------------------------- MODULE AgentExchanges ----------------------------
(* AgentTurn with history variables that count what happened to the customer *)
(* of a session while it lived, next to what the session itself remembers:   *)
(* how many exchanges in a row left it as it was, how many identifications   *)
(* failed, and how many messages were too vague.                             *)
EXTENDS AgentTurn

VARIABLES
    stalled,        \* exchanges in a row that changed nothing but the wording
    failures,       \* failed identifications, in whatever turn
    questions       \* ambiguous requests and descriptions asked for again, likewise

counts == <<stalled, failures, questions>>

\* save_session of this step, and not the end of a turn that was dropped.
SavedIn(s) ==
    \E w \in Turns : pc[w] = "SAVE" /\ of[w] = s /\ pc'[w] = "idle" /\ lost' = lost

ExpiresIn(s) == store[s] # NoSession /\ store'[s] = NoSession

FailsIn(s) == \E w \in Turns : of[w] = s /\ FailIdentification(w)

AsksIn(s) == \E w \in Turns : of[w] = s /\ (AskIntent(w) \/ AskDescription(w))

CountsInit ==
    /\ stalled = [s \in Sessions |-> 0]
    /\ failures = [s \in Sessions |-> 0]
    /\ questions = [s \in Sessions |-> 0]

\* One more where it happened, and none of a session that has expired.
Count ==
    /\ stalled' = [s \in Sessions |->
                      IF store'[s] # store[s] THEN 0
                      ELSE IF SavedIn(s) THEN stalled[s] + 1 ELSE stalled[s]]
    /\ failures' = [s \in Sessions |->
                      IF ExpiresIn(s) THEN 0
                      ELSE IF FailsIn(s) THEN failures[s] + 1 ELSE failures[s]]
    /\ questions' = [s \in Sessions |->
                      IF ExpiresIn(s) THEN 0
                      ELSE IF AsksIn(s) THEN questions[s] + 1 ELSE questions[s]]

ExchangesSpec ==
    /\ Init /\ CountsInit
    /\ [][Next /\ Count]_<<vars, counts>>

\* Constitution V.2 and FR-003, against what happened and not against the
\* session's own counters: once no turn of it is under way, a session whose
\* customer failed to identify twice, or was still ambiguous after two clarifying
\* questions, is in human hands; every turn that was dropped excuses one.  It
\* holds when the turns of a session do not overlap: two overlapping turns both
\* save the same count.
LimitsEscalate ==
    \A s \in Saved :
        (\A w \in Turns : of[w] # s) =>
            /\ failures[s] >= MaxIdentificationAttempts + lost[s] => store[s].escalated
            /\ questions[s] > MaxClarifications + lost[s] => store[s].escalated

\* data-model.md and FR-008: more than three exchanges without progress hand an
\* open case to a human, in any state.
StuckCasesEscalate ==
    \A s \in Saved :
        stalled[s] > 3 => store[s].node = "CONFIRMATION" \/ store[s].escalated
===============================================================================
