\* Two conversations of one learner, two turns each.
SPECIFICATION ReliableSpec
CONSTANTS
    None = None
    t1 = t1
    t2 = t2
    learner = learner
    Threads = {t1, t2}
    Users = {learner}
    UserOf <- MCUserOf
    Keys <- MCKeys
    Replies <- ThreadReplies
    MAX_PLANNER_STEPS = 2
    MaxInvocations = 2
SYMMETRY Symmetry
INVARIANTS
    QuietSummaryRecapsATurn
CHECK_DEADLOCK FALSE
