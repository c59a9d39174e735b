SPECIFICATION Spec
CONSTANTS
    Drives = {"d1", "d2"}
    Depth = 3
    MaxAttempts = 2
    MaxMerges = 2
    Faults = {"measure", "extend", "commit", "sync", "abort", "query", "teardown", "crash"}
    MaxFaults = 2
INVARIANTS RestartSafe NothingForgotten
PROPERTIES EveryMergeEnds MonitorComesBack
CHECK_DEADLOCK FALSE
