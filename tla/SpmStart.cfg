SPECIFICATION Spec
CONSTANTS
    Hosts = {"h1"}
    Watched = {"h1"}
    MaxThreads = 1
    MaxErrors = 1
    Faults = {{"start"}}
INVARIANT ContendOnlyInsideTheLock
