\* One conversation, one turn, every node returns.
SPECIFICATION ReliableSpec
CONSTANTS
    None = None
    t1 = t1
    t2 = t2
    learner = learner
    Threads = {t1}
    Users = {learner}
    UserOf <- MCUserOf
    Keys <- MCKeys
    Replies <- TurnReplies
    MAX_PLANNER_STEPS = 3
    MaxInvocations = 1
INVARIANTS
    TraceNumbersTurn
    HaltHasItsCause
    LessonIsTheLastTaught
    WritesAreAnswered
CHECK_DEADLOCK FALSE
