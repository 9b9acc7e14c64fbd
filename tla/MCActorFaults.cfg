CONSTANTS
    Null = Null
    img1 = img1
    img2 = img2
    l1 = l1
    l2 = l2
    k1 = k1
    k2 = k2
    k3 = k3
    k4 = k4
    PinnedImages <- MCPinned
    Policy <- ProdPolicy
    Healths <- MCHealths
    LeaseIDs <- MCLeaseIDs
    MaxAttempts = 2
    FaultKinds = {"no-effect", "answer-lost", "lands-late"}
    Specs <- MCSpecs
    Commands <- LifecycleCommands
    HistoryLimit = 1
    ContinueAfter = 2
    MaxAccepted = 3
SPECIFICATION FairSpec
INVARIANTS
    TypeOK
    RuntimeIsCurrent
    SuspendedIsSuspended
    SavepointOfTheNamedVersion
    NoLeaseBetweenOperations
PROPERTIES
    ActorSettles
CHECK_DEADLOCK FALSE
