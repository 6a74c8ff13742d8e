\* Two questions of one quiz with the same text.
SPECIFICATION Spec
CONSTANTS
    None = None
    exam = exam
    quiz1 = quiz1
    quiz2 = quiz2
    themeA = themeA
    themeB = themeB
    themeC = themeC
    s1 = s1
    s2 = s2
    text1 = text1
    text2 = text2
    Requests = {quiz1}
    Exams = {}
    Critics = {}
    Themes = {themeC}
    Plan <- MCPlan
    Sections = {s1, s2}
    Ranked <- MCRanked
    Drafts <- MCDrafts
    TextOf <- MCTextOf
    Replies <- CollidingReplies
    MAX_REFINE_ATTEMPTS = 1
INVARIANT ReturnedQuestionsAreBanked
CHECK_DEADLOCK FALSE
