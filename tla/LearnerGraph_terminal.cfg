\* A crash may leave two terminal rows.
SPECIFICATION Spec
CONSTANTS
    None = None
    t1 = t1
    t2 = t2
    learner = learner
    Threads = {t1}
    Users = {learner}
    UserOf <- MCUserOf
    Keys <- MCKeys
    Replies <- CrashReplies
    MAX_PLANNER_STEPS = 2
    MaxInvocations = 2
INVARIANT OneTerminalRow
CHECK_DEADLOCK FALSE
