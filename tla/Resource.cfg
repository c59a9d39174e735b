CONSTANTS
    Request = {r1, r2, r3}
    NoRequest = NoRequest
    Factory = "switch"
    Failures = {"create", "recreate"}
SPECIFICATION FairSpec
INVARIANTS CountsUsers NoStrandedRequest NoOrphanedResource
PROPERTIES GrantedInOrder EveryAcquireReturns ImplementsSharedExclusive
