CONSTANTS
    Stopper = {s1}
    Kinds <- AllKinds
    Faults <- AllFaults
SPECIFICATION FairSpec
INVARIANTS RefsCounted RecoveryExclusive RecoveredMeansUndone NotAbandoned UndoLogDurable
PROPERTIES EveryTaskEnds
CHECK_DEADLOCK FALSE
