--------------------------- MODULE MC_LearnerData ---------------------------
EXTENDS LearnerData

CONSTANTS c1, c2, u1, u2, A, B, C, e1, e2, e3

MCCallers == {c1, c2}
MCSingles == {"pool", "store"}

\* One learner's two kinds of records.
MCNamespaces == {"mistakes", "masteries"}
MCKeys == {A, B, C, e1, e2, e3}
MCValues == {A, B, C, 0, 50, 100}

\* A and B weigh alike; A half known is worth as much as C.
MCExam == <<A, B, C>>
MCExamCount == A :> 2 @@ B :> 2 @@ C :> 1

File(place, value) == [place |-> place, value |-> value]
NewLearner == [n \in MCNamespaces |-> <<>>]
MCInitialRecords ==
    {NewLearner,
     "mistakes" :> (e1 :> File(0, A) @@ e2 :> File(1, B) @@ e3 :> File(2, C))
       @@ "masteries" :> (A :> File(0, 100)),
     "mistakes" :> (e1 :> File(1, B) @@ e2 :> File(0, B))
       @@ "masteries" :> (A :> File(0, 50) @@ B :> File(1, 50))}

MCPuts ==
    {[namespace |-> "mistakes", key |-> e2, value |-> A],
     [namespace |-> "masteries", key |-> C, value |-> 50]}

\* A quiz of a learner who has a row, and one of a learner whose row is gone.
MCQuizzes ==
    {[user |-> u1, themes |-> <<A, A>>], [user |-> u2, themes |-> <<B>>]}
MCChosenAnswers == {<<FALSE>>, <<TRUE, TRUE>>, <<FALSE, FALSE>>}

\* A process whose singles are made has one call more than a fresh one.
Warm ==
    /\ single = [s \in Singles |-> c1]
    /\ tables = {"store"}
    /\ getter = [c \in Callers |-> Resting]
    /\ calls = 0
Cold == SingleInit /\ calls = 1

MCInit ==
    /\ Warm \/ Cold
    /\ RouterInit
    /\ ScoringInit
    /\ task = [c \in Callers |-> "none"]

\* Scoring shares no table with the other calls, and suggestions only read: two scorings
\* of a learner without records, and one suggestion at a time of the others, are enough.
Doing(t) == {c \in Callers : task[c] = t}
Unscored == {c \in Doing("score") : scoring[c].phase = "idle"}
Apart ==
    IF records = NewLearner
    THEN scorings + Cardinality(Unscored) <= 2 /\ Doing("suggest") \cup Doing("put") = {}
    ELSE Doing("score") = {} /\ Cardinality(Doing("suggest")) <= 1

\* The clock only matters between the answers of a scoring.
ClockMatters == now' = now \/ \E c \in Callers : scoring[c].phase = "inserting"

MCSpec == MCInit /\ [][Next /\ Apart' /\ ClockMatters]_vars /\ Fairness
=============================================================================
