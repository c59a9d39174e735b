CONSTANTS
    Worker = {w1, w2}
    Task = {t1, t2, t3}
    NoTask = NoTask
    MaxTasks = 1
SPECIFICATION Spec
INVARIANTS RunOnce
PROPERTIES QueuedIsRun JoinReturns
CHECK_DEADLOCK FALSE
