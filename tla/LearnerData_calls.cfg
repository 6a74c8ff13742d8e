SPECIFICATION MCSpec
CONSTANTS
    c1 = c1
    c2 = c2
    u1 = u1
    u2 = u2
    A = A
    B = B
    C = C
    e1 = e1
    e2 = e2
    e3 = e3
    Nobody = Nobody
    Callers <- MCCallers
    Readers <- MCCallers
    Scorers <- MCCallers
    Singles <- MCSingles
    Namespaces <- MCNamespaces
    Keys <- MCKeys
    Values <- MCValues
    PAGE_SIZE = 2
    InitialRecords <- MCInitialRecords
    Exam <- MCExam
    ExamCount <- MCExamCount
    Mistakes = "mistakes"
    Masteries = "masteries"
    Users = {u1, u2}
    Registered = {u1}
    Quizzes <- MCQuizzes
    PASS_MARK = 2
    Limits = {1, 3}
    MaxNow = 1
    ChosenAnswers <- MCChosenAnswers
    Puts <- MCPuts
    MaxCalls = 3
INVARIANTS
    GotIsReady
    ListingMissesOnlyWhatMoved
    TalliesMatchTheLog
    RecentMistakesAreNewest
PROPERTIES
    SettledSingletonsStay
    SuggestionIsWeakest
    EveryCallEnds
CHECK_DEADLOCK FALSE
