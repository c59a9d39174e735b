SPECIFICATION Spec
CONSTANTS
    Hosts = {"h1", "h2"}
    Watched = {"h1"}
    MaxThreads = 1
    MaxErrors = 1
    Faults = {{"lost", "inquire", "start"}, {"lost", "convert"}, {"lost", "crash"}, {"start", "crash"}}
INVARIANTS OnlyTheLeaseHolderActs
PROPERTIES LostLeaseEndsTheRole StartAndStopEnd
