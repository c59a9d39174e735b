SPECIFICATION Spec
CONSTANTS
    Tasks <- MCTasks
    Discardable <- MCDiscardable
    WorkersCount = 2
    MaxWorkers = 3
    MaxTasks = 2
INVARIANTS WorkerLimits Replenished
PROPERTIES EveryTaskStarts StopEndsWorkers
CHECK_DEADLOCK FALSE
