------------------------ MODULE MC_AssessmentEngine ------------------------
(***************************************************************************)
(* Instances of AssessmentEngine for TLC.                                  *)
(***************************************************************************)
EXTENDS AssessmentEngine

CONSTANTS exam, quiz1, quiz2, themeA, themeB, themeC, s1, s2, text1, text2

Entries(theme, count, scenarios) ==
    [theme |-> theme, count |-> count, scenarios |-> scenarios]

\* A mock exam of two themes, as the official one has five; two quizzes on a third.
MCPlan ==
    [r \in Requests |->
        IF r \in Exams THEN <<Entries(themeA, 2, 1), Entries(themeB, 1, 0)>>
        ELSE <<Entries(themeC, IF r = quiz1 THEN 2 ELSE 1, 0)>>]

\* Retrieval finds two sections, one for several groups, or none; for the quizzes two.
MCRanked ==
    [theme \in Themes |-> IF theme = themeC THEN {<<s1, s2>>} ELSE {<<s1, s2>>, <<s2>>, <<>>}]

Draft(text, answer) == [text |-> text, answer |-> answer]

MCDrafts == {Draft(text1, 0), Draft(text1, 1), Draft(text2, 0)}
MCTextOf == [draft \in MCDrafts |-> draft.text]

Numbered(group, draft) == [group |-> group, draft |-> draft]

\* Replies for up to two groups, in order and not, replies that skip a group, name one
\* twice or name one that does not exist, and two drafts of one text.
MCReplies ==
    LET a == Draft(text1, 0)  b == Draft(text1, 1)  c == Draft(text2, 0)
    IN  {<<Numbered(1, a), Numbered(2, c)>>, <<Numbered(2, a), Numbered(1, c)>>,
         <<Numbered(1, b)>>, <<Numbered(2, c)>>, <<Numbered(1, a), Numbered(1, c)>>,
         <<Numbered(3, c), Numbered(9, a)>>, <<>>}

\* Replies whose two drafts have one text.
CollidingReplies == {<<Numbered(1, Draft(text1, 0)), Numbered(2, Draft(text1, 1))>>}

\* The mock exam and the quizzes do not meet: what a request shares with others is only
\* the log and the bank, where the two quizzes meet.
Started(r) == gen[r].phase # "idle"
Apart == \A r \in Exams, q \in Requests \ Exams : ~(Started(r) /\ Started(q))

MCSpec == Init /\ [][Next /\ Apart']_vars /\ Fairness
=============================================================================
