\* One conversation that fails, crashes and is resumed, until its invocations end.
SPECIFICATION FairSpec
CONSTANTS
    None = None
    t1 = t1
    t2 = t2
    learner = learner
    Threads = {t1}
    Users = {learner}
    UserOf <- MCUserOf
    Keys <- MCKeys
    Replies <- CrashReplies
    MAX_PLANNER_STEPS = 2
    MaxInvocations = 2
INVARIANTS
    IInv
    TraceCoversTurn
    LessonIsTheLastTaught
    WritesAreTraced
PROPERTIES
    CheckpointedCallsStayDone
    TurnEnds
CHECK_DEADLOCK FALSE
