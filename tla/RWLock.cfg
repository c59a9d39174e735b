CONSTANTS
    Thread = {t1, t2, t3, t4}
    NoThread = NoThread
    MaxDepth = 2
SPECIFICATION FairSpec
INVARIANTS NoLostWakeup
PROPERTIES ServedInOrder EveryWaiterServed ImplementsSharedExclusive
