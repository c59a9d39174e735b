SPECIFICATION Spec
CONSTANTS
    Requests <- MCRequests
    Vol <- MCVol
    Size <- MCSize
    N = 2
    Faults = {"hsmRestart", "spmRestart", "torn", "hsmRead", "hsmWrite", "spmWrite", "extend"}
    MaxFaults = 1
INVARIANTS RepliesAreOwn
PROPERTY EverySlotFreed
