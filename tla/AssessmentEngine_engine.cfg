\* A mock exam of two themes or two quizzes on a third, all with the critic.
SPECIFICATION MCSpec
CONSTANTS
    None = None
    exam = exam
    quiz1 = quiz1
    quiz2 = quiz2
    themeA = themeA
    themeB = themeB
    themeC = themeC
    s1 = s1
    s2 = s2
    text1 = text1
    text2 = text2
    Requests = {exam, quiz1, quiz2}
    Exams = {exam}
    Critics = {exam, quiz1, quiz2}
    Themes = {themeA, themeB, themeC}
    Plan <- MCPlan
    Sections = {s1, s2}
    Ranked <- MCRanked
    Drafts <- MCDrafts
    TextOf <- MCTextOf
    Replies <- MCReplies
    MAX_REFINE_ATTEMPTS = 2
INVARIANTS
    QuestionsCiteWhatWasShown
    BankHoldsOnlyWholeRequests
    IInv
    RejectionsAreAFunnel
    DroppedAfterAllAttempts
PROPERTIES
    ContractSpec
    RequestsEnd
CHECK_DEADLOCK FALSE
