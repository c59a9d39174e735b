CONSTANTS
    MaxVersion = 3
    MaxCrashes = 3
    MaxFaults = 3
SPECIFICATION Spec
INVARIANTS SavedIsLoadable
PROPERTIES SaveIsAtomic
CHECK_DEADLOCK FALSE
