----------------------------- MODULE QuizScoring -----------------------------
(***************************************************************************)
(* Scoring a quiz or mock exam (assessment/scoring.py) over the log of     *)
(* answers (progress/quiz_log.py, table quiz_answers): every answer is an  *)
(* insert of its own, and the tally is returned when all are logged.       *)
(***************************************************************************)
EXTENDS Integers, Sequences, FiniteSets, SequencesExt

CONSTANTS
    Scorers,     \* callers that score
    Users,       \* user ids
    Registered,  \* those with a row in users
    Quizzes,     \* each the user and the theme of every question
    PASS_MARK,
    Limits,      \* of recent_mistakes
    MaxNow       \* bound of the model: what the database's clock reads

ASSUME UsersAssumption == Registered \subseteq Users
ASSUME LimitsAssumption == Limits \subseteq Nat
ASSUME QuizzesAssumption == Quizzes # {} /\ \A q \in Quizzes : q.user \in Users /\ q.themes \in Seq(Range(q.themes))

VARIABLES
    quiz_answers,  \* the table, by id
    now,           \* NOW()
    scoring,       \* each caller's call of score
    scorings       \* how many calls began

scoring_vars == <<quiz_answers, now, scoring, scorings>>

\* Two fields are the model's own: call, the number of the call of score that logged
\* the answer, and nth, the answer's number in it.
Row(user, theme, correct, at, call, nth) ==
    [user |-> user, theme |-> theme, is_correct |-> correct, answered_at |-> at,
     call |-> call, nth |-> nth]

\* chosen holds of each answer whether it is the correct index; at is the time when the
\* statement of the answer began.
Call(quiz, chosen, phase, call) ==
    [phase |-> phase, quiz |-> quiz, chosen |-> chosen, logged |-> 0, at |-> 0,
     per_theme |-> [t \in Range(quiz.themes) |-> 0], call |-> call]

-----------------------------------------------------------------------------

NoScoring == Call(CHOOSE q \in Quizzes : TRUE, <<>>, "idle", 0)

ScoringInit ==
    /\ quiz_answers = <<>>
    /\ now = 0
    /\ scorings = 0
    /\ scoring = [c \in Scorers |-> NoScoring]

Ended == {"idle", "scored", "failed", "refused"}

\* The number of answers is checked before anything is logged.
Score(c, quiz, chosen) ==
    /\ scoring[c].phase \in Ended
    /\ scorings' = scorings + 1
    /\ scoring' = [scoring EXCEPT ![c] = Call(quiz, chosen,
         IF Len(chosen) = Len(quiz.themes) THEN "scoring" ELSE "refused", scorings + 1)]
    /\ UNCHANGED <<quiz_answers, now>>

\* A statement begins: the transaction's NOW() is fixed.
BeginInsert(c) ==
    /\ scoring[c].phase = "scoring"
    /\ scoring[c].logged < Len(scoring[c].chosen)
    /\ scoring' = [scoring EXCEPT ![c].phase = "inserting", ![c].at = now]
    /\ UNCHANGED <<quiz_answers, now, scorings>>

\* The row gets the next id and is committed.
Inserted(s) ==
    LET i == s.logged + 1 IN
    Append(quiz_answers, Row(s.quiz.user, s.quiz.themes[i], s.chosen[i], s.at, s.call, i))

Tallied(s) ==
    LET i == s.logged + 1 IN
    [s EXCEPT !.phase = "scoring", !.logged = i,
              !.per_theme[s.quiz.themes[i]] = IF s.chosen[i] THEN @ + 1 ELSE @]

Insert(c) ==
    /\ scoring[c].phase = "inserting"
    /\ scoring[c].quiz.user \in Registered
    /\ quiz_answers' = Inserted(scoring[c])
    /\ scoring' = [scoring EXCEPT ![c] = Tallied(@)]
    /\ UNCHANGED <<now, scorings>>

\* Mutant: a failure to log is passed over.
RaisedOver(s) == [s EXCEPT !.phase = "scoring", !.logged = @ + 1]

\* The user is not registered or the connection breaks, before the row is committed or
\* after; nothing is taken back.
Raised(s) == [s EXCEPT !.phase = "failed"]

LogRaises(c) ==
    /\ scoring[c].phase = "inserting"
    /\ \/ UNCHANGED quiz_answers
       \/ scoring[c].quiz.user \in Registered /\ quiz_answers' = Inserted(scoring[c])
    /\ scoring' = [scoring EXCEPT ![c] = Raised(@)]
    /\ UNCHANGED <<now, scorings>>

Total(s) == FoldFunction(+, 0, s.per_theme)

ReturnResult(c) ==
    /\ scoring[c].phase = "scoring"
    /\ scoring[c].logged = Len(scoring[c].chosen)
    /\ scoring' = [scoring EXCEPT ![c].phase = "scored"]
    /\ UNCHANGED <<quiz_answers, now, scorings>>

Passed(s) == Total(s) >= PASS_MARK

Tick ==
    /\ now < MaxNow
    /\ now' = now + 1
    /\ UNCHANGED <<quiz_answers, scoring, scorings>>

Scoring(c) == BeginInsert(c) \/ Insert(c) \/ LogRaises(c) \/ ReturnResult(c)

-----------------------------------------------------------------------------

\* Mutant: answered_at alone orders, and ties come in the order of the table.
NewerById(i, j) ==
    \/ quiz_answers[i].answered_at > quiz_answers[j].answered_at
    \/ quiz_answers[i].answered_at = quiz_answers[j].answered_at /\ i < j

\* ORDER BY answered_at DESC, id DESC
Newer(i, j) ==
    \/ quiz_answers[i].answered_at > quiz_answers[j].answered_at
    \/ quiz_answers[i].answered_at = quiz_answers[j].answered_at /\ i > j

\* WHERE user_id = ... AND is_correct = false
Wrong(user) ==
    {i \in DOMAIN quiz_answers : quiz_answers[i].user = user /\ ~quiz_answers[i].is_correct}

NewerThan(ids, i) == {j \in ids : Newer(j, i)}

\* The ids recent_mistakes returns, newest first: the k-th has k - 1 newer than it.
RecentMistakes(user, limit) ==
    LET wrong == Wrong(user)
        count == Cardinality(wrong)
    IN  [k \in 1 .. IF count < limit THEN count ELSE limit |->
           CHOOSE i \in wrong : Cardinality(NewerThan(wrong, i)) = k - 1]

-----------------------------------------------------------------------------

\* The ids of the rows that a call logged, of those that are correct, of a theme's.
Logged(log, call) == {i \in DOMAIN log : log[i].call = call}
Correct(log, ids) == {i \in ids : log[i].is_correct}
OfTheme(log, ids, t) == {i \in ids : log[i].theme = t}

\* Whatever other calls log and whenever the log fails, a scoring leaves the rows of a
\* prefix of its answers, in their order and once each; and the result it returns
\* counts exactly the correct answers in the log, theme by theme, with a verdict of the
\* exam that follows from the log alone.
TalliesMatchTheLog ==
    \A c \in Scorers :
        LET s == scoring[c]
            rows == Logged(quiz_answers, s.call)
            correct == Correct(quiz_answers, rows)
            row(i) == quiz_answers[i]
        IN  s.phase # "idle" =>
              /\ {row(i).nth : i \in rows} = 1 .. Cardinality(rows)
              /\ \A i, j \in rows : i < j => row(i).nth < row(j).nth
              /\ \A i \in rows : /\ row(i).theme = s.quiz.themes[row(i).nth]
                                /\ row(i).is_correct = s.chosen[row(i).nth]
              /\ s.phase = "scored" =>
                   /\ Cardinality(rows) = Len(s.quiz.themes)
                   /\ \A t \in Range(s.quiz.themes) :
                        s.per_theme[t] = Cardinality(OfTheme(quiz_answers, correct, t))
                   /\ Passed(s) <=> Cardinality(correct) >= PASS_MARK
              /\ s.phase = "refused" => rows = {}

\* The mistakes of one quiz are listed last answer first and none is left out while an
\* earlier one is listed, though answers logged in one instant share answered_at and
\* other scorings of the learner log in between.
RecentMistakesAreNewest ==
    \A u \in Users, n \in Limits :
        LET listed == RecentMistakes(u, n)
            row(k) == quiz_answers[listed[k]]
        IN  /\ \A j, k \in DOMAIN listed :
                 j < k /\ row(j).call = row(k).call => row(j).nth > row(k).nth
            /\ \A k \in DOMAIN listed, i \in DOMAIN quiz_answers :
                 /\ quiz_answers[i].user = u
                 /\ ~quiz_answers[i].is_correct
                 /\ quiz_answers[i].call = row(k).call
                 /\ quiz_answers[i].nth > row(k).nth
                 => i \in Range(listed)

\* The inductive invariant.  A call numbers its rows from 1 as they come, and they are
\* no older than those before; its tally counts them while nothing was raised.
AnswerRow ==
    [user : Users, theme : UNION {Range(q.themes) : q \in Quizzes}, is_correct : BOOLEAN,
     answered_at : Nat, call : Nat \ {0}, nth : Nat \ {0}]

ScoringOk(s, time, begun) ==
    /\ s \in [phase : Ended \cup {"scoring", "inserting"}, quiz : Quizzes,
              chosen : Seq(BOOLEAN), logged : Nat, at : Nat,
              per_theme : {s.per_theme}, call : Nat]
    /\ s.per_theme \in [Range(s.quiz.themes) -> Nat]
    /\ s.at <= time
    /\ s.call <= begun
    /\ s.logged <= Len(s.chosen)
    /\ (s.call = 0) <=> (s.phase = "idle")
    /\ s.phase \notin {"idle", "refused"} => Len(s.chosen) = Len(s.quiz.themes)
    /\ s.phase = "inserting" => s.logged < Len(s.chosen)
    /\ s.phase = "scored" => s.logged = Len(s.chosen)

RowsAreOrdered(log) ==
    \A i, j \in DOMAIN log :
        i < j /\ log[i].call = log[j].call =>
            log[i].nth < log[j].nth /\ log[i].answered_at <= log[j].answered_at

LogOk(log, time, begun) ==
    /\ log \in Seq(AnswerRow)
    /\ \A i \in DOMAIN log : log[i].answered_at <= time /\ log[i].call <= begun
    /\ RowsAreOrdered(log)

RowsOk(log, s) ==
    LET rows == Logged(log, s.call)
    IN  /\ {log[i].nth : i \in rows} = 1 .. Cardinality(rows)
        /\ \A i \in rows : /\ log[i].nth <= Len(s.chosen)
                          /\ log[i].theme = s.quiz.themes[log[i].nth]
                          /\ log[i].is_correct = s.chosen[log[i].nth]
        /\ s.phase # "failed" => Cardinality(rows) = s.logged
        /\ s.phase = "refused" => rows = {}
        /\ s.phase = "inserting" => \A i \in rows : log[i].answered_at <= s.at

TallyOk(log, s) ==
    LET correct == Correct(log, Logged(log, s.call)) IN
    s.phase \in {"scoring", "inserting", "scored"} =>
        /\ \A t \in Range(s.quiz.themes) : s.per_theme[t] = Cardinality(OfTheme(log, correct, t))
        /\ Total(s) = Cardinality(correct)

QInv ==
    /\ now \in Nat /\ scorings \in Nat
    /\ LogOk(quiz_answers, now, scorings)
    /\ DOMAIN scoring = Scorers
    /\ \A c, d \in Scorers :
          c # d /\ scoring[c].call = scoring[d].call => scoring[c].call = 0
    /\ \A c \in Scorers :
          LET s == scoring[c] IN
          /\ ScoringOk(s, now, scorings)
          /\ s.phase # "idle" => RowsOk(quiz_answers, s) /\ TallyOk(quiz_answers, s)
=============================================================================
