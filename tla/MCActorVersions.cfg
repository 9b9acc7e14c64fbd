CONSTANTS
    Null = Null
    img1 = img1
    img2 = img2
    l1 = l1
    l2 = l2
    k1 = k1
    k2 = k2
    k3 = k3
    k4 = k4
    PinnedImages <- MCPinned
    Policy <- ProdPolicy
    Healths <- MCHealths
    LeaseIDs <- MCLeaseIDs
    MaxAttempts = 1
    FaultKinds = {}
    Specs <- MCSpecs
    Commands <- VersionCommands
    HistoryLimit = 2
    ContinueAfter = 3
    MaxAccepted = 5
SPECIFICATION Spec
INVARIANTS
    IdempotencyWindow
    VersionsContiguous
    VersionsAreLegalChanges
    MaxParallelismKept
    OnlyApprovedMaterial
PROPERTIES
    ImplementsVersionHistory
    RollbackRestoresAsked
CHECK_DEADLOCK FALSE
