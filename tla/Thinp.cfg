SPECIFICATION Spec
CONSTANTS
    Chunk = 2
    Limit = 1
    MaxSize = 4
    Workers = {"w1"}
    MaxQueue = 1
    MaxFaults = 2
INVARIANT SetDriveIsWatched
PROPERTY PausedVmResumes
CHECK_DEADLOCK FALSE
